------------------------ MODULE SessionCommandsProofs ------------------------
(***************************************************************************)
(* The commands of a session, proved for any ids of consumers and any      *)
(* number of requests, of commands that wait and of Control calls.         *)
(***************************************************************************)
EXTENDS SessionCommands, SequenceTheorems, TLAPS

-----------------------------------------------------------------------------
(* The stages of the removal, counted. *)
LEMMA StageNumbers ==
  /\ Len(Stage) = 9
  /\ Stage[1] = "none" /\ Stage[2] = "remove_sinks" /\ Stage[3] = "stop_streams"
  /\ Stage[4] = "clear_consumers" /\ Stage[5] = "close_transport" /\ Stage[6] = "stop_commands"
  /\ Stage[7] = "join_worker" /\ Stage[8] = "join_reader" /\ Stage[9] = "freed"
BY DEF Stage

LEMMA StageIsCounted ==
  ASSUME NEW k \in 1..9, NEW name, Stage[k] = name
  PROVE  StageOf(name) = k
<1>1. \A j \in 1..9 : Stage[j] = Stage[k] => j = k
  BY StageNumbers
<1>2. Len(Stage) = 9
  BY StageNumbers
<1> QED  BY <1>1, <1>2 DEF StageOf

LEMMA StagesInOrder ==
  /\ StageOf("none") = 1 /\ StageOf("remove_sinks") = 2 /\ StageOf("stop_streams") = 3
  /\ StageOf("clear_consumers") = 4 /\ StageOf("close_transport") = 5
  /\ StageOf("stop_commands") = 6 /\ StageOf("join_worker") = 7
  /\ StageOf("join_reader") = 8 /\ StageOf("freed") = 9
BY StageIsCounted, StageNumbers

StageName == {Stage[k] : k \in 1..Len(Stage)}

LEMMA StageNames ==
  StageName = {"none", "remove_sinks", "stop_streams", "clear_consumers", "close_transport",
               "stop_commands", "join_worker", "join_reader", "freed"}
<1>1. 1..Len(Stage) = {1, 2, 3, 4, 5, 6, 7, 8, 9}
  BY StageNumbers
<1> QED  BY <1>1, StageNumbers DEF StageName

(* What the removal is past, by name. *)
LEMMA PastNames ==
  ASSUME cleaner \in StageName
  PROVE  /\ Past("remove_sinks") <=> cleaner \notin {"none", "remove_sinks"}
         /\ Past("clear_consumers") <=>
              cleaner \in {"close_transport", "stop_commands", "join_worker", "join_reader", "freed"}
         /\ Past("stop_commands") <=> cleaner \in {"join_worker", "join_reader", "freed"}
         /\ Past("join_worker") <=> cleaner \in {"join_reader", "freed"}
BY StagesInOrder, StageNames DEF Past

(* Where each step of the removal leads. *)
LEMMA CleanerMoves ==
  /\ Clean("none")            => cleaner' = "remove_sinks"
  /\ Clean("remove_sinks")    => cleaner' = "stop_streams"
  /\ Clean("stop_streams")    => cleaner' = "clear_consumers"
  /\ Clean("clear_consumers") => cleaner' = "close_transport"
  /\ Clean("close_transport") => cleaner' = "stop_commands"
  /\ Clean("stop_commands")   => cleaner' = "join_worker"
  /\ Clean("join_worker")     => cleaner' = "join_reader"
  /\ Clean("join_reader")     => cleaner' = "freed"
BY StagesInOrder, StageNumbers DEF Clean

-----------------------------------------------------------------------------
(* The inductive invariant, in four parts: how far the removal and the worker
   are, the requests, the members that the commands make, and the streams. *)

Busy == worker \notin {"idle", "gone"}

(* Once the removal has joined the worker, the worker is gone. *)
Progress ==
  /\ worker \in {"idle", "answer", "connect", "insert", "resume", "gone"}
  /\ cleaner \in StageName
  /\ cleaner \in {"join_reader", "freed"} => worker = "gone"

RequestTypes ==
  /\ asked \in Number /\ answers \in [1..MaxRequests -> Nat] /\ refused \subseteq 1..asked
  /\ queue \in Seq(Request) /\ Len(queue) <= MaxQueued
  /\ command \in Request
  /\ stopped \in BOOLEAN

(* A request waits once, or is performed, or was dropped. *)
RequestsApart ==
  /\ \A k \in 1..Len(queue) :
       /\ queue[k].id \in 1..asked /\ queue[k].from \in Call
       /\ queue[k].id # command.id /\ queue[k].id \notin refused
  /\ \A j, k \in 1..Len(queue) : queue[j].id = queue[k].id => j = k
  /\ command.id \notin refused
  /\ Busy => command.id \in 1..asked /\ command.from \in Call
  /\ ~Busy => command = NoCommand

Waiting(r)  == \E k \in 1..Len(queue) : queue[k].id = r
Unserved(r) == Waiting(r) \/ command.id = r \/ r \in refused

AnswersCounted ==
  \A r \in 1..MaxRequests : answers[r] = IF r <= asked /\ ~Unserved(r) THEN 1 ELSE 0

(* A queue that is stopped is empty, and only such a queue has dropped commands. *)
Stopping ==
  /\ (stopped <=> cleaner \in {"join_worker", "join_reader", "freed"})
  /\ stopped => queue = <<>>
  /\ ~stopped => refused = {}

Requests == RequestTypes /\ RequestsApart /\ AnswersCounted /\ Stopping

(* Each command makes one listener, and one transport or consumer, at most. *)
Counted ==
  /\ made + Len(queue) + (IF worker = "connect" THEN 1 ELSE 0) <= asked
  /\ listener + Len(queue) <= asked

MemberTypes ==
  /\ picked \in Consumer
  /\ device \in {"none", "unloaded", "loaded"} /\ orphaned \in BOOLEAN
  /\ listener \in Number /\ transport \in [no : Number, listener : Number]
  /\ made \in Number
  /\ DOMAIN consumers \subseteq ConsumerId
  /\ \A id \in DOMAIN consumers : consumers[id] \in Consumer /\ consumers[id].no \in 1..made
  /\ worker = "insert" => picked.no \in 1..made
  /\ sinks \subseteq 1..made /\ late \subseteq 1..made

(* A track with the sink is of a consumer that is about to be inserted, that
   Cleanup will still find in the map, or that it has missed. *)
SinksAccounted ==
  \A k \in sinks :
    \/ k \in late
    \/ worker = "insert" /\ k = picked.no
    \/ cleaner \in {"none", "remove_sinks"} /\ Current(k)

(* CommandsUseWhatLives, with the stages of the removal by name. *)
TransportIsWhole ==
  transport # NoTransport =>
    /\ device = "loaded"
    /\ transport.listener = listener \/ worker = "connect" \/ orphaned

ResumedIsThere ==
  worker = "resume" =>
    Current(picked.no) \/ cleaner \in {"close_transport", "stop_commands", "join_worker"}

Members == Counted /\ MemberTypes /\ SinksAccounted /\ TransportIsWhole /\ ResumedIsThere

StreamTypes ==
  /\ call \in [Call -> {"none", "attach", "replace", "poll", "over"}]
  /\ stream \in [Call -> {"none", "running", "stopped", "destroyed"}]
  /\ reader \in [Call -> {"none", "test", "read", "ended"}]
  /\ control_stream \in 0..MaxCalls /\ replaced \subseteq Call
  /\ removal_requested \in BOOLEAN

(* A stream is attached, or was replaced, or is not attached yet; it is destroyed
   when it was replaced, or with the session. *)
StreamsAttached ==
  \A c \in Call :
    /\ call[c] = "none" => reader[c] = "none"
    /\ call[c] \notin {"none", "attach"} => c = control_stream \/ c \in replaced
    /\ stream[c] = "destroyed" => c \in replaced \/ worker = "gone"

ReadersJoined ==
  cleaner = "freed" =>
    \A c \in Call \ replaced : reader[c] \in {"none", "ended"} \/ call[c] = "attach"

ControlStreams == StreamTypes /\ StreamsAttached /\ ReadersJoined

IInv == Progress /\ Requests /\ Members /\ ControlStreams

LEMMA InitIInv == Init => IInv
<1> SUFFICES ASSUME Init PROVE IInv
  OBVIOUS
<1>n. MaxRequests \in Nat /\ MaxQueued \in Nat /\ MaxCalls \in Nat
  BY CommandsAssumption DEF CommandsAssumption
<1>1. /\ queue = <<>> /\ Len(queue) = 0 /\ queue \in Seq(Request)
      /\ consumers = <<>> /\ DOMAIN consumers = {}
  BY EmptySeq DEF Init
<1>2. Progress
  BY StageNames DEF Init, Progress
<1>3. RequestTypes
  <2>1. asked = 0 /\ refused = {} /\ 0 \in Number /\ NoCommand \in Request
    BY <1>n DEF Init, Number, Request, NoCommand
  <2>2. answers \in [1..MaxRequests -> Nat]
    BY DEF Init
  <2>3. command \in Request /\ stopped \in BOOLEAN /\ asked \in Number /\ refused \subseteq 1..asked
    BY <2>1 DEF Init
  <2>4. Len(queue) <= MaxQueued
    BY <1>1, <1>n
  <2> QED  BY <2>2, <2>3, <2>4, <1>1 DEF RequestTypes
<1>4. RequestsApart /\ AnswersCounted /\ Stopping
  BY <1>1 DEF Init, RequestsApart, AnswersCounted, Stopping, Busy
<1>5. Counted
  BY <1>1 DEF Init, Counted
<1>6. MemberTypes
  <2>1. 0 \in Number
    BY <1>n DEF Number
  <2>2. picked \in Consumer /\ transport \in [no : Number, listener : Number] /\ listener \in Number
        /\ made \in Number
    BY <2>1 DEF Init, Consumer, NoConsumer, NoTransport
  <2>3. device \in {"none", "unloaded", "loaded"} /\ orphaned \in BOOLEAN /\ worker # "insert"
        /\ sinks = {} /\ late = {}
    BY DEF Init
  <2> QED  BY <2>2, <2>3, <1>1 DEF MemberTypes
<1>7. SinksAccounted /\ TransportIsWhole /\ ResumedIsThere
  BY DEF Init, SinksAccounted, TransportIsWhole, ResumedIsThere
<1>8. StreamTypes
  <2>1. /\ call \in [Call -> {"none", "attach", "replace", "poll", "over"}]
        /\ stream \in [Call -> {"none", "running", "stopped", "destroyed"}]
        /\ reader \in [Call -> {"none", "test", "read", "ended"}]
    BY DEF Init
  <2>2. control_stream \in 0..MaxCalls
    <3>1. control_stream = 0
      BY DEF Init
    <3> QED  BY <3>1, <1>n
  <2>3. replaced \subseteq Call /\ removal_requested \in BOOLEAN
    BY DEF Init
  <2> QED  BY <2>1, <2>2, <2>3 DEF StreamTypes
<1>9. StreamsAttached /\ ReadersJoined
  BY DEF Init, StreamsAttached, ReadersJoined
<1> QED  BY <1>2, <1>3, <1>4, <1>5, <1>6, <1>7, <1>8, <1>9
         DEF IInv, Requests, Members, ControlStreams

-----------------------------------------------------------------------------
(* What the actions leave alone. *)

LEMMA CallSteps ==
  ASSUME NEW c \in Call,
         \/ Control(c) \/ SetControlStream(c) \/ DestroyReplaced(c) \/ LeavePolling(c)
         \/ TestRunning(c) \/ ReadFails(c)
  PROVE  /\ UNCHANGED request_vars /\ UNCHANGED worker_vars /\ UNCHANGED member_vars
         /\ cleaner' = cleaner \/ (cleaner = "none" /\ cleaner' = "remove_sinks")
BY DEF Control, SetControlStream, DestroyReplaced, LeavePolling, TestRunning, ReadFails

LEMMA ReadSteps ==
  ASSUME NEW c \in Call, RejectRequest(c) \/ CloseSession(c) \/ PushCommand(c)
  PROVE  /\ asked < MaxRequests /\ asked' = asked + 1
         /\ UNCHANGED <<call, stream, control_stream, replaced, stopped>>
         /\ UNCHANGED worker_vars /\ UNCHANGED member_vars /\ UNCHANGED cleaner
         /\ reader[c] = "read"
         /\ reader' = [reader EXCEPT ![c] = IF stream[c] = "running" THEN "read" ELSE "ended"]
         /\ removal_requested' = removal_requested \/ removal_requested' = TRUE
         /\ \/ Answered(asked') /\ UNCHANGED <<queue, refused>>
            \/ PushCommand(c)
BY DEF RejectRequest, CloseSession, PushCommand, ReadRequest, ReaderSteps

LEMMA LoopSteps ==
  ASSUME RunLoop
  PROVE  /\ UNCHANGED call_vars /\ UNCHANGED cleaner
         /\ \/ Begin("answer") \/ Begin("connect") \/ Begin("insert") \/ Begin("resume")
            \/ /\ worker \in {"connect", "insert", "resume"} /\ worker' = "answer"
               /\ UNCHANGED request_vars /\ UNCHANGED command
            \/ InvokeCallback
            \/ LeaveLoop
BY DEF RunLoop, LoadDevice, AnswerOnly, ReplaceListener, TransportCreated, TransportThrows, Consume,
       Resume, InvokeCallback, LeaveLoop, InsertConsumer, FindConsumer, Begin, WorkerSteps

LEMMA RemovalSteps ==
  ASSUME Remove
  PROVE  /\ UNCHANGED <<call, reader, control_stream, replaced, removal_requested, asked, answers>>
         /\ UNCHANGED worker_vars /\ UNCHANGED device_vars /\ UNCHANGED <<made, late>>
         /\ cleaner' \in StageName \ {"none"}
<1>1. \/ Clean("none") \/ Clean("remove_sinks") \/ Clean("stop_streams") \/ Clean("clear_consumers")
      \/ Clean("close_transport") \/ Clean("stop_commands") \/ Clean("join_worker")
      \/ Clean("join_reader")
  BY DEF Remove, DetachedRemove, RemoveSinks, StopStreams, ClearConsumers, CloseTransport,
         StopCommands, JoinWorker, JoinReader
<1>2. cleaner' \in StageName \ {"none"}
  BY <1>1, CleanerMoves, StageNames
<1>3. /\ UNCHANGED <<call, reader, control_stream, replaced, removal_requested, asked, answers>>
      /\ UNCHANGED worker_vars /\ UNCHANGED device_vars /\ UNCHANGED <<made, late>>
  BY <1>1 DEF Clean
<1> QED  BY <1>2, <1>3

-----------------------------------------------------------------------------
LEMMA ProgressInv ==
  ASSUME IInv, [Next]_vars
  PROVE  Progress'
<1>1. CASE \E c \in Call : Control(c) \/ SetControlStream(c) \/ DestroyReplaced(c)
                             \/ LeavePolling(c) \/ TestRunning(c) \/ ReadFails(c)
  BY <1>1, CallSteps, StageNames DEF IInv, Progress, worker_vars
<1>2. CASE \E c \in Call : RejectRequest(c) \/ CloseSession(c) \/ PushCommand(c)
  BY <1>2, ReadSteps DEF IInv, Progress, worker_vars
<1>3. CASE RunLoop
  BY <1>3, LoopSteps DEF IInv, Progress, Begin, InvokeCallback, LeaveLoop, WorkerSteps
<1>4. CASE Remove
  <2>1. cleaner' \in StageName /\ UNCHANGED worker
    BY <1>4, RemovalSteps DEF worker_vars
  <2>2. cleaner' \in {"join_reader", "freed"} => cleaner \in {"join_reader", "freed"} \/ worker = "gone"
    BY <1>4, CleanerMoves DEF Remove, DetachedRemove, RemoveSinks, StopStreams, ClearConsumers,
       CloseTransport, StopCommands, JoinWorker, JoinReader, Clean
  <2> QED  BY <2>1, <2>2 DEF IInv, Progress
<1>5. CASE UNCHANGED vars
  BY <1>5 DEF vars, IInv, Progress, worker_vars
<1> QED  BY <1>1, <1>2, <1>3, <1>4, <1>5 DEF Next, ProcessIncomingMessages

-----------------------------------------------------------------------------
(* The requests.  A step that takes no request and answers none keeps them, as
   long as a worker that is busy stays so. *)
LEMMA RequestsKept ==
  ASSUME Requests, UNCHANGED request_vars, command' = command, Busy' <=> Busy,
         cleaner \in {"join_worker", "join_reader", "freed"}
           <=> cleaner' \in {"join_worker", "join_reader", "freed"}
  PROVE  Requests'
<1>1. UNCHANGED <<asked, answers, refused, queue, stopped>>
  BY DEF request_vars
<1>2. RequestTypes'
  BY <1>1 DEF Requests, RequestTypes
<1>3. RequestsApart'
  BY <1>1 DEF Requests, RequestsApart
<1>4. AnswersCounted'
  BY <1>1 DEF Requests, AnswersCounted, Unserved, Waiting
<1>5. Stopping'
  BY <1>1 DEF Requests, Stopping
<1> QED  BY <1>2, <1>3, <1>4, <1>5 DEF Requests

LEMMA RequestBounds ==
  ASSUME Requests
  PROVE  /\ MaxRequests \in Nat /\ asked \in Nat /\ asked <= MaxRequests
         /\ Len(queue) \in Nat /\ queue \in Seq(Request)
         /\ \A r \in refused : r \in 1..asked
BY CommandsAssumption, LenProperties DEF Requests, RequestTypes, Number, CommandsAssumption

(* A request that is read is answered at once. *)
LEMMA RejectedRequests ==
  ASSUME Requests, UNCHANGED worker_vars, UNCHANGED cleaner,
         asked < MaxRequests, asked' = asked + 1, Answered(asked'),
         UNCHANGED <<queue, refused, stopped>>
  PROVE  Requests'
<1>b. MaxRequests \in Nat /\ asked \in Nat /\ Len(queue) \in Nat /\ asked + 1 \in 1..MaxRequests
      /\ queue \in Seq(Request) /\ \A r \in refused : r \in 1..asked
  BY RequestBounds
<1>w. UNCHANGED <<worker, command>>
  BY DEF worker_vars
<1>a. answers \in [1..MaxRequests -> Nat] /\ answers' = [answers EXCEPT ![asked + 1] = @ + 1]
  BY DEF Requests, RequestTypes, Answered
<1>1. RequestTypes'
  <2>1. answers' \in [1..MaxRequests -> Nat]
    BY <1>a, <1>b
  <2>2. asked' \in Number /\ refused' \subseteq 1..asked'
    BY <1>b DEF Number
  <2> QED  BY <2>1, <2>2, <1>w DEF Requests, RequestTypes
<1>2. RequestsApart'
  BY <1>b, <1>w DEF Requests, RequestsApart, Busy
<1>3. ASSUME NEW r \in 1..MaxRequests
      PROVE  answers'[r] = IF r <= asked' /\ ~Unserved(r)' THEN 1 ELSE 0
  <2>1. Unserved(r)' <=> Unserved(r)
    BY <1>w DEF Unserved, Waiting
  <2>2. answers[r] = IF r <= asked /\ ~Unserved(r) THEN 1 ELSE 0
    BY DEF Requests, AnswersCounted
  <2>3. CASE r = asked + 1
    <3>1. ~Waiting(r)
      BY <2>3, <1>b DEF Requests, RequestsApart, Waiting
    <3>2. command.id # r
      BY <2>3, <1>b DEF Requests, RequestsApart, NoCommand
    <3>3. ~Unserved(r)
      BY <3>1, <3>2, <2>3, <1>b DEF Unserved
    <3>4. answers'[r] = answers[r] + 1 /\ answers[r] = 0
      BY <2>2, <2>3, <1>a, <1>b
    <3> QED  BY <3>3, <3>4, <2>1, <2>3, <1>b
  <2>4. CASE r # asked + 1
    <3>1. answers'[r] = answers[r]
      BY <2>4, <1>a
    <3>2. r <= asked' <=> r <= asked
      BY <2>4, <1>b
    <3> QED  BY <3>1, <3>2, <2>1, <2>2
  <2> QED  BY <2>3, <2>4
<1>4. AnswersCounted'
  BY <1>3 DEF AnswersCounted
<1>5. Stopping'
  BY DEF Requests, Stopping
<1> QED  BY <1>1, <1>2, <1>4, <1>5 DEF Requests

(* A command waits in the queue, or is dropped if that is stopped. *)
LEMMA PushedRequests ==
  ASSUME Requests, Progress, NEW c \in Call, PushCommand(c)
  PROVE  Requests'
<1>b. MaxRequests \in Nat /\ asked \in Nat /\ Len(queue) \in Nat /\ queue \in Seq(Request)
      /\ \A r \in refused : r \in 1..asked
  BY RequestBounds
<1>0. /\ asked < MaxRequests /\ asked' = asked + 1 /\ Len(queue) < MaxQueued
      /\ UNCHANGED <<answers, stopped, worker, command, cleaner>>
  BY ReadSteps DEF PushCommand, worker_vars
<1> DEFINE new == [id |-> asked + 1, from |-> c]
<1>n. new \in Request /\ asked + 1 \in 1..MaxRequests /\ asked' \in Number /\ new.id = asked + 1
      /\ new.from = c
  BY <1>0, <1>b DEF Request, Number, Call
<1>1. \/ stopped /\ refused' = refused \cup {asked + 1} /\ queue' = queue
      \/ ~stopped /\ queue' = Append(queue, new) /\ refused' = refused
  BY <1>0 DEF PushCommand
<1> HIDE DEF new
<1>q. ~stopped => /\ Len(queue') = Len(queue) + 1 /\ queue' \in Seq(Request)
                  /\ \A k \in 1..Len(queue) : queue'[k] = queue[k]
                  /\ queue'[Len(queue) + 1] = new
  BY <1>1, <1>n, <1>b, AppendProperties
<1>e. stopped => Len(queue) = 0
  BY EmptySeq DEF Requests, Stopping
<1>i. command.id # asked + 1 /\ command.id \notin refused
      /\ \A k \in 1..Len(queue) : queue[k].id # asked + 1
  <2>1. command.id \in 1..asked \/ command.id = 0
    BY DEF Requests, RequestsApart, NoCommand
  <2>2. command.id # asked + 1
    BY <2>1, <1>b
  <2>3. \A k \in 1..Len(queue) : queue[k].id \in 1..asked
    BY DEF Requests, RequestsApart
  <2>4. \A k \in 1..Len(queue) : queue[k].id # asked + 1
    BY <2>3, <1>b
  <2> QED  BY <2>2, <2>4 DEF Requests, RequestsApart
<1>2. RequestTypes'
  <2>1. refused' \subseteq 1..asked'
    BY <1>0, <1>1, <1>b
  <2>2. queue' \in Seq(Request) /\ Len(queue') <= MaxQueued
    <3>1. MaxQueued \in Nat /\ Len(queue) <= MaxQueued
      BY CommandsAssumption DEF CommandsAssumption, Requests, RequestTypes
    <3> QED  BY <3>1, <1>0, <1>1, <1>q, <1>b
  <2> QED  BY <2>1, <2>2, <1>0, <1>n DEF Requests, RequestTypes
<1>3. RequestsApart'
  <2>1. CASE stopped
    BY <2>1, <1>0, <1>1, <1>b, <1>e, <1>i DEF Requests, RequestsApart, Busy
  <2>2. CASE ~stopped
    <3>1. ASSUME NEW k \in 1..Len(queue')
          PROVE  /\ queue'[k].id \in 1..asked' /\ queue'[k].from \in Call
                 /\ queue'[k].id # command'.id /\ queue'[k].id \notin refused'
      <4>1. CASE k \in 1..Len(queue)
        BY <4>1, <2>2, <1>0, <1>1, <1>q, <1>b DEF Requests, RequestsApart
      <4>2. CASE k = Len(queue) + 1
        <5>1. queue'[k].id = asked + 1 /\ queue'[k].from = c
          BY <4>2, <2>2, <1>q, <1>n
        <5>2. refused' = refused /\ refused \subseteq 1..asked
          BY <2>2, <1>1 DEF Requests, RequestTypes
        <5>3. queue'[k].id \notin refused'
          BY <5>1, <5>2, <1>b
        <5>4. queue'[k].id \in 1..asked' /\ queue'[k].id # command'.id
          BY <5>1, <1>0, <1>b, <1>i
        <5> QED  BY <5>1, <5>3, <5>4
      <4> QED  BY <4>1, <4>2, <2>2, <1>q, <1>b
    <3>2. ASSUME NEW j \in 1..Len(queue'), NEW k \in 1..Len(queue'), queue'[j].id = queue'[k].id
          PROVE  j = k
      <4>1. ASSUME NEW i \in 1..Len(queue')
            PROVE  \/ i \in 1..Len(queue) /\ queue'[i] = queue[i]
                   \/ i = Len(queue) + 1 /\ queue'[i].id = asked + 1
        <5>1. i \in 1..Len(queue) \/ i = Len(queue) + 1
          BY <2>2, <1>q, <1>b
        <5> QED  BY <5>1, <2>2, <1>q, <1>n
      <4> QED  BY <3>2, <4>1, <1>i DEF Requests, RequestsApart
    <3>3. command'.id \notin refused' /\ (Busy' => command'.id \in 1..asked' /\ command'.from \in Call)
          /\ (~Busy' => command' = NoCommand)
      BY <2>2, <1>0, <1>1, <1>b DEF Requests, RequestsApart, Busy
    <3> QED  BY <3>1, <3>2, <3>3 DEF RequestsApart
  <2> QED  BY <2>1, <2>2
<1>4. ASSUME NEW r \in 1..MaxRequests
      PROVE  answers'[r] = IF r <= asked' /\ ~Unserved(r)' THEN 1 ELSE 0
  <2>1. Unserved(r)' <=> Unserved(r) \/ r = asked + 1
    <3>1. CASE stopped
      <4>1. Waiting(r)' <=> Waiting(r)
        BY <3>1, <1>1 DEF Waiting
      <4> QED  BY <4>1, <3>1, <1>0, <1>1 DEF Unserved
    <3>2. CASE ~stopped
      <4>1. Waiting(r) => Waiting(r)'
        BY <3>2, <1>q, <1>b DEF Waiting
      <4>2. r = asked + 1 => Waiting(r)'
        <5>1. Len(queue) + 1 \in 1..Len(queue')
          BY <3>2, <1>q, <1>b
        <5> QED  BY <5>1, <3>2, <1>q, <1>n DEF Waiting
      <4>3. Waiting(r)' => Waiting(r) \/ r = asked + 1
        <5>1. ASSUME NEW k \in 1..Len(queue')
              PROVE  (k \in 1..Len(queue) /\ queue'[k] = queue[k]) \/ queue'[k].id = asked + 1
          BY <3>2, <1>q, <1>b, <1>n
        <5> QED  BY <5>1 DEF Waiting
      <4> QED  BY <4>1, <4>2, <4>3, <3>2, <1>0, <1>1 DEF Unserved
    <3> QED  BY <3>1, <3>2
  <2>2. answers'[r] = answers[r] /\ answers[r] = IF r <= asked /\ ~Unserved(r) THEN 1 ELSE 0
    BY <1>0 DEF Requests, AnswersCounted
  <2>3. r <= asked' <=> r <= asked \/ r = asked + 1
    BY <1>0, <1>b
  <2> QED  BY <2>1, <2>2, <2>3, <1>b
<1>5. AnswersCounted'
  BY <1>4 DEF AnswersCounted
<1>6. Stopping'
  BY <1>0, <1>1 DEF Requests, Stopping
<1> QED  BY <1>2, <1>3, <1>5, <1>6 DEF Requests

(* The worker takes the command at the head of the queue. *)
LEMMA BegunRequests ==
  ASSUME Requests, NEW to \in {"answer", "connect", "insert", "resume"}, Begin(to)
  PROVE  Requests'
<1>b. MaxRequests \in Nat /\ asked \in Nat /\ Len(queue) \in Nat /\ queue \in Seq(Request)
  BY RequestBounds
<1>0. /\ worker = "idle" /\ worker' = to /\ queue # <<>>
      /\ command' = Head(queue) /\ queue' = Tail(queue)
      /\ UNCHANGED <<asked, answers, refused, stopped, cleaner>>
  BY DEF Begin, WorkerSteps
<1>1. /\ queue' \in Seq(Request) /\ Len(queue') = Len(queue) - 1 /\ command' = queue[1]
      /\ \A k \in 1..Len(queue') : queue'[k] = queue[k + 1]
      /\ Len(queue) >= 1 /\ command' \in Request
  BY <1>0, <1>b, HeadTailProperties
<1>c. command.id = 0 /\ Busy' /\ ~stopped /\ refused = {}
  BY <1>0 DEF Requests, RequestsApart, Stopping, Busy, NoCommand
<1>s. \A k \in 1..Len(queue') : k + 1 \in 1..Len(queue) /\ k + 1 # 1
  BY <1>1, <1>b
<1>o. 1 \in 1..Len(queue)
  BY <1>1, <1>b
<1>2. RequestTypes'
  <2>1. Len(queue') <= MaxQueued
    <3>1. MaxQueued \in Nat /\ Len(queue) <= MaxQueued
      BY CommandsAssumption DEF CommandsAssumption, Requests, RequestTypes
    <3> QED  BY <3>1, <1>1, <1>b
  <2> QED  BY <2>1, <1>0, <1>1 DEF Requests, RequestTypes
<1>3. RequestsApart'
  <2>1. ASSUME NEW k \in 1..Len(queue')
        PROVE  /\ queue'[k].id \in 1..asked' /\ queue'[k].from \in Call
               /\ queue'[k].id # command'.id /\ queue'[k].id \notin refused'
    BY <1>0, <1>1, <1>s, <1>o, <1>c DEF Requests, RequestsApart
  <2>2. ASSUME NEW j \in 1..Len(queue'), NEW k \in 1..Len(queue'), queue'[j].id = queue'[k].id
        PROVE  j = k
    <3>1. \A a, b \in 1..Len(queue) : queue[a].id = queue[b].id => a = b
      BY DEF Requests, RequestsApart
    <3>2. queue[j + 1].id = queue[k + 1].id /\ {j + 1, k + 1} \subseteq 1..Len(queue)
      BY <2>2, <1>1, <1>s
    <3>3. j + 1 = k + 1
      BY <3>1, <3>2
    <3> QED  BY <3>3, <1>b, <1>1
  <2>3. command'.id \notin refused' /\ command'.id \in 1..asked' /\ command'.from \in Call
    BY <1>0, <1>1, <1>o, <1>c DEF Requests, RequestsApart
  <2> QED  BY <2>1, <2>2, <2>3, <1>c DEF RequestsApart
<1>4. ASSUME NEW r \in 1..MaxRequests
      PROVE  Unserved(r)' <=> Unserved(r)
  <2>1. Waiting(r) => Waiting(r)' \/ command'.id = r
    <3>1. ASSUME NEW k \in 1..Len(queue), queue[k].id = r
          PROVE  Waiting(r)' \/ command'.id = r
      <4>1. CASE k = 1
        BY <4>1, <3>1, <1>1
      <4>2. CASE k # 1
        <5>1. k - 1 \in 1..Len(queue') /\ (k - 1) + 1 = k
          BY <4>2, <1>1, <1>b
        <5>2. queue'[k - 1] = queue[k]
          BY <5>1, <1>1
        <5> QED  BY <5>1, <5>2, <3>1 DEF Waiting
      <4> QED  BY <4>1, <4>2
    <3> QED  BY <3>1 DEF Waiting
  <2>2. Waiting(r)' \/ command'.id = r => Waiting(r)
    BY <1>1, <1>s, <1>o DEF Waiting
  <2>3. command.id # r
    BY <1>c
  <2> QED  BY <2>1, <2>2, <2>3, <1>0 DEF Unserved
<1>5. AnswersCounted'
  BY <1>4, <1>0 DEF Requests, AnswersCounted
<1>6. Stopping'
  BY <1>0, <1>c DEF Requests, Stopping
<1> QED  BY <1>2, <1>3, <1>5, <1>6 DEF Requests

(* The command is answered, and forgotten. *)
LEMMA AnsweredRequests ==
  ASSUME Requests, InvokeCallback
  PROVE  Requests'
<1>b. MaxRequests \in Nat /\ asked \in Nat /\ asked <= MaxRequests /\ Len(queue) \in Nat
      /\ \A r \in refused : r \in 1..asked
  BY RequestBounds
<1>0. /\ worker = "answer" /\ worker' = "idle" /\ command' = NoCommand /\ command'.id = 0
      /\ answers' = [answers EXCEPT ![command.id] = @ + 1]
      /\ UNCHANGED <<asked, refused, queue, stopped, cleaner>>
  BY DEF InvokeCallback, WorkerSteps, Answered, NoCommand
<1>1. Busy /\ ~Busy' /\ command.id \in 1..asked /\ command.id \in 1..MaxRequests
  <2>1. Busy /\ ~Busy' /\ command.id \in 1..asked
    BY <1>0 DEF Busy, Requests, RequestsApart
  <2> QED  BY <2>1, <1>b
<1>2. RequestTypes'
  <2>1. answers' \in [1..MaxRequests -> Nat]
    BY <1>0, <1>1 DEF Requests, RequestTypes
  <2>2. NoCommand \in Request
    BY <1>b, CommandsAssumption DEF NoCommand, Request, Number, CommandsAssumption
  <2> QED  BY <2>1, <2>2, <1>0 DEF Requests, RequestTypes
<1>3. RequestsApart'
  <2>1. \A k \in 1..Len(queue) : queue[k].id # 0
    BY DEF Requests, RequestsApart
  <2>2. 0 \notin refused
    BY <1>b
  <2> QED  BY <2>1, <2>2, <1>0, <1>1 DEF Requests, RequestsApart
<1>4. ASSUME NEW r \in 1..MaxRequests
      PROVE  answers'[r] = IF r <= asked' /\ ~Unserved(r)' THEN 1 ELSE 0
  <2>1. CASE r = command.id
    <3>1. Unserved(r) /\ ~Unserved(r)'
      BY <2>1, <1>0 DEF Unserved, Waiting, Requests, RequestsApart
    <3>2. answers[r] = 0 /\ answers'[r] = answers[r] + 1
      BY <2>1, <3>1, <1>0, <1>1 DEF Requests, RequestTypes, AnswersCounted
    <3> QED  BY <3>1, <3>2, <2>1, <1>0, <1>1, <1>b
  <2>2. CASE r # command.id
    <3>1. Unserved(r)' <=> Unserved(r)
      BY <2>2, <1>0 DEF Unserved, Waiting
    <3>2. answers'[r] = answers[r]
      BY <2>2, <1>0, <1>1 DEF Requests, RequestTypes
    <3> QED  BY <3>1, <3>2, <1>0 DEF Requests, AnswersCounted
  <2> QED  BY <2>1, <2>2
<1>5. AnswersCounted'
  BY <1>4 DEF AnswersCounted
<1>6. Stopping'
  BY <1>0 DEF Requests, Stopping
<1> QED  BY <1>2, <1>3, <1>5, <1>6 DEF Requests

(* The queue is stopped, and drops what waits in it. *)
LEMMA DroppedRequests ==
  ASSUME Requests, StopCommands
  PROVE  Requests'
<1>b. MaxRequests \in Nat /\ asked \in Nat /\ Len(queue) \in Nat /\ queue \in Seq(Request)
  BY RequestBounds
<1>0. /\ stopped' = TRUE /\ queue' = <<>> /\ cleaner' = "join_worker"
      /\ refused' = refused \cup {queue[k].id : k \in 1..Len(queue)}
      /\ UNCHANGED <<asked, answers, worker, command>>
  BY CleanerMoves DEF StopCommands, Clean, worker_vars
<1>1. Len(queue') = 0 /\ queue' \in Seq(Request)
  BY <1>0, EmptySeq
<1>2. RequestTypes'
  <2>1. refused' \subseteq 1..asked
    BY <1>0 DEF Requests, RequestTypes, RequestsApart
  <2>2. Len(queue') <= MaxQueued
    BY <1>1, CommandsAssumption DEF CommandsAssumption
  <2> QED  BY <2>1, <2>2, <1>0, <1>1 DEF Requests, RequestTypes
<1>3. RequestsApart'
  BY <1>0, <1>1 DEF Requests, RequestsApart, Busy
<1>4. ASSUME NEW r \in 1..MaxRequests
      PROVE  Unserved(r)' <=> Unserved(r)
  BY <1>0, <1>1 DEF Unserved, Waiting
<1>5. AnswersCounted'
  BY <1>4, <1>0 DEF Requests, AnswersCounted
<1>6. Stopping'
  BY <1>0 DEF Stopping
<1> QED  BY <1>2, <1>3, <1>5, <1>6 DEF Requests

LEMMA RequestsInv ==
  ASSUME IInv, [Next]_vars
  PROVE  Requests'
<1>r. Requests /\ Progress
  BY DEF IInv
<1>1. CASE \E c \in Call : Control(c) \/ SetControlStream(c) \/ DestroyReplaced(c)
                             \/ LeavePolling(c) \/ TestRunning(c) \/ ReadFails(c)
  <2>1. /\ UNCHANGED request_vars /\ UNCHANGED <<worker, command>>
        /\ cleaner' = cleaner \/ (cleaner = "none" /\ cleaner' = "remove_sinks")
    BY <1>1, CallSteps DEF worker_vars
  <2> QED  BY <2>1, <1>r, RequestsKept DEF Busy
<1>2. CASE \E c \in Call : RejectRequest(c) \/ CloseSession(c) \/ PushCommand(c)
  <2>1. PICK c \in Call : RejectRequest(c) \/ CloseSession(c) \/ PushCommand(c)
    BY <1>2
  <2>2. CASE PushCommand(c)
    BY <2>2, <1>r, PushedRequests
  <2>3. CASE RejectRequest(c) \/ CloseSession(c)
    <3>1. Answered(asked') /\ UNCHANGED <<queue, refused>>
      BY <2>3 DEF RejectRequest, CloseSession
    <3>2. /\ asked < MaxRequests /\ asked' = asked + 1 /\ UNCHANGED stopped
          /\ UNCHANGED worker_vars /\ UNCHANGED cleaner
      BY <2>3, ReadSteps
    <3> QED  BY <3>1, <3>2, <1>r, RejectedRequests
  <2> QED  BY <2>1, <2>2, <2>3
<1>3. CASE RunLoop
  <2>1. CASE Begin("answer") \/ Begin("connect") \/ Begin("insert") \/ Begin("resume")
    BY <2>1, <1>r, BegunRequests
  <2>2. CASE /\ worker \in {"connect", "insert", "resume"} /\ worker' = "answer"
             /\ UNCHANGED request_vars /\ UNCHANGED command
    BY <2>2, <1>3, <1>r, LoopSteps, RequestsKept DEF Busy
  <2>3. CASE InvokeCallback
    BY <2>3, <1>r, AnsweredRequests
  <2>4. CASE LeaveLoop
    BY <2>4, <1>r, RequestsKept DEF LeaveLoop, WorkerSteps, Busy
  <2> QED  BY <1>3, <2>1, <2>2, <2>3, <2>4, LoopSteps
<1>4. CASE Remove
  <2>1. CASE StopCommands
    BY <2>1, <1>r, DroppedRequests
  <2>2. CASE DetachedRemove \/ RemoveSinks \/ StopStreams \/ ClearConsumers \/ CloseTransport
    <3>1. UNCHANGED <<queue, stopped, refused>>
      BY <2>2 DEF DetachedRemove, RemoveSinks, StopStreams, ClearConsumers, CloseTransport
    <3>2. /\ cleaner \in {"none", "remove_sinks", "stop_streams", "clear_consumers", "close_transport"}
          /\ cleaner' \in {"remove_sinks", "stop_streams", "clear_consumers", "close_transport",
                           "stop_commands"}
      BY <2>2, CleanerMoves DEF DetachedRemove, RemoveSinks, StopStreams, ClearConsumers,
         CloseTransport, Clean
    <3>3. UNCHANGED <<asked, answers>> /\ UNCHANGED <<worker, command>>
      BY <1>4, RemovalSteps DEF worker_vars
    <3> QED  BY <3>1, <3>2, <3>3, <1>r, RequestsKept DEF Busy, request_vars
  <2>3. CASE JoinWorker \/ JoinReader
    <3>1. UNCHANGED <<queue, stopped, refused>>
      BY <2>3 DEF JoinWorker, JoinReader
    <3>2. cleaner \in {"join_worker", "join_reader"} /\ cleaner' \in {"join_reader", "freed"}
      BY <2>3, CleanerMoves DEF JoinWorker, JoinReader, Clean
    <3>3. UNCHANGED <<asked, answers>> /\ UNCHANGED <<worker, command>>
      BY <1>4, RemovalSteps DEF worker_vars
    <3> QED  BY <3>1, <3>2, <3>3, <1>r, RequestsKept DEF Busy, request_vars
  <2> QED  BY <1>4, <2>1, <2>2, <2>3 DEF Remove
<1>5. CASE UNCHANGED vars
  BY <1>5, <1>r, RequestsKept DEF vars, worker_vars, Busy
<1> QED  BY <1>1, <1>2, <1>3, <1>4, <1>5 DEF Next, ProcessIncomingMessages

-----------------------------------------------------------------------------
(* The members. *)

LEMMA MembersKept ==
  ASSUME Members, Counted', UNCHANGED member_vars, UNCHANGED <<worker, picked>>,
         cleaner' = cleaner \/ (cleaner = "none" /\ cleaner' = "remove_sinks")
  PROVE  Members'
<1>1. UNCHANGED <<device, listener, transport, orphaned, made, consumers, sinks, late>>
  BY DEF member_vars, device_vars, media_vars
<1>2. MemberTypes'
  BY <1>1 DEF Members, MemberTypes
<1>3. SinksAccounted'
  BY <1>1 DEF Members, SinksAccounted, Current
<1>4. TransportIsWhole' /\ ResumedIsThere'
  BY <1>1 DEF Members, TransportIsWhole, ResumedIsThere, Current
<1> QED  BY <1>2, <1>3, <1>4 DEF Members

LEMMA BegunCount ==
  ASSUME Requests, Members, NEW to, Begin(to)
  PROVE  /\ worker = "idle" /\ worker' = to /\ cleaner' = cleaner /\ asked' = asked
         /\ Len(queue) \in Nat /\ Len(queue') \in Nat /\ Len(queue') = Len(queue) - 1
         /\ made \in Nat /\ listener \in Nat /\ asked \in Nat
         /\ made + Len(queue) <= asked /\ listener + Len(queue) <= asked /\ asked <= MaxRequests
<1>1. queue # <<>> /\ queue' = Tail(queue) /\ queue \in Seq(Request) /\ asked \in Nat
      /\ asked <= MaxRequests
  BY RequestBounds DEF Begin
<1>2. Len(queue) \in Nat /\ Len(queue') \in Nat /\ Len(queue') = Len(queue) - 1
  BY <1>1, HeadTailProperties, LenProperties
<1>3. worker = "idle" /\ worker' = to /\ cleaner' = cleaner /\ asked' = asked
  BY DEF Begin, WorkerSteps
<1>4. made \in Nat /\ listener \in Nat
  BY DEF Members, MemberTypes, Number
<1>5. made + Len(queue) + 0 <= asked /\ listener + Len(queue) <= asked
  BY <1>3 DEF Members, Counted
<1> QED  BY <1>1, <1>2, <1>3, <1>4, <1>5

LEMMA LoadDeviceMembers ==
  ASSUME Requests, Members, LoadDevice \/ AnswerOnly
  PROVE  Members'
<1>1. Begin("answer") /\ UNCHANGED <<listener, transport, orphaned, picked, made, consumers, sinks, late>>
  BY DEF LoadDevice, AnswerOnly, member_vars, device_vars, media_vars
<1>2. device' \in {"none", "unloaded", "loaded"} /\ (device = "loaded" => device' = "loaded")
  BY DEF LoadDevice, AnswerOnly, member_vars, device_vars, Members, MemberTypes
<1>b. /\ worker = "idle" /\ worker' = "answer" /\ cleaner' = cleaner /\ asked' = asked
      /\ Len(queue) \in Nat /\ Len(queue') \in Nat /\ Len(queue') = Len(queue) - 1
      /\ made \in Nat /\ listener \in Nat /\ asked \in Nat
      /\ made + Len(queue) <= asked /\ listener + Len(queue) <= asked
  BY <1>1, BegunCount
<1>3. Counted'
  BY <1>1, <1>b DEF Counted
<1>4. MemberTypes'
  BY <1>1, <1>2, <1>b DEF Members, MemberTypes
<1>5. SinksAccounted'
  BY <1>1, <1>b DEF Members, SinksAccounted, Current
<1>6. TransportIsWhole' /\ ResumedIsThere'
  BY <1>1, <1>2, <1>b DEF Members, TransportIsWhole, ResumedIsThere
<1> QED  BY <1>3, <1>4, <1>5, <1>6 DEF Members

LEMMA ReplaceListenerMembers ==
  ASSUME Requests, Members, ReplaceListener
  PROVE  Members'
<1>1. /\ Begin("connect") /\ listener' = listener + 1 /\ orphaned' = FALSE
      /\ UNCHANGED <<device, transport, picked, made, consumers, sinks, late>>
  BY DEF ReplaceListener, media_vars
<1>b. /\ worker = "idle" /\ worker' = "connect" /\ cleaner' = cleaner /\ asked' = asked
      /\ Len(queue) \in Nat /\ Len(queue') \in Nat /\ Len(queue') = Len(queue) - 1
      /\ made \in Nat /\ listener \in Nat /\ asked \in Nat
      /\ made + Len(queue) <= asked /\ listener + Len(queue) <= asked /\ asked <= MaxRequests
  BY <1>1, BegunCount
<1>2. Counted'
  BY <1>1, <1>b DEF Counted
<1>3. listener' \in Number
  BY <1>1, <1>b, CommandsAssumption DEF Number, CommandsAssumption
<1>4. MemberTypes'
  BY <1>1, <1>3, <1>b DEF Members, MemberTypes
<1>5. SinksAccounted'
  BY <1>1, <1>b DEF Members, SinksAccounted, Current
<1>6. TransportIsWhole' /\ ResumedIsThere'
  BY <1>1, <1>b DEF Members, TransportIsWhole, ResumedIsThere
<1> QED  BY <1>2, <1>4, <1>5, <1>6 DEF Members

(* The transport gets the listener that is there, or there is none for it. *)
LEMMA ConnectMembers ==
  ASSUME Requests, Members, TransportCreated \/ TransportThrows
  PROVE  Members'
<1>b. asked \in Nat /\ asked <= MaxRequests /\ MaxRequests \in Nat /\ Len(queue) \in Nat
      /\ made \in Nat /\ listener \in Number
  BY RequestBounds DEF Members, MemberTypes, Number
<1>1. /\ worker = "connect" /\ worker' = "answer" /\ cleaner' = cleaner
      /\ UNCHANGED <<asked, queue, picked, device, listener, consumers, sinks, late>>
  BY DEF TransportCreated, TransportThrows, WorkerSteps, request_vars, media_vars
<1>c. made + Len(queue) + 1 <= asked /\ listener + Len(queue) <= asked
  BY <1>1 DEF Members, Counted
<1>2. CASE TransportCreated
  <2>1. /\ device = "loaded" /\ made' = made + 1 /\ UNCHANGED orphaned
        /\ transport' = [no |-> made', listener |-> listener]
    BY <1>2 DEF TransportCreated
  <2>2. made' \in Number /\ \A k \in 1..made : k \in 1..made'
    BY <2>1, <1>b, <1>c DEF Number
  <2>3. transport' \in [no : Number, listener : Number] /\ transport'.listener = listener
    BY <2>1, <2>2, <1>b
  <2>4. Counted'
    BY <2>1, <1>1, <1>b, <1>c DEF Counted
  <2>5. MemberTypes'
    BY <2>1, <2>2, <2>3, <1>1 DEF Members, MemberTypes
  <2>6. SinksAccounted'
    BY <1>1 DEF Members, SinksAccounted, Current
  <2>7. TransportIsWhole' /\ ResumedIsThere'
    BY <2>1, <2>3, <1>1 DEF TransportIsWhole, ResumedIsThere
  <2> QED  BY <2>4, <2>5, <2>6, <2>7 DEF Members
<1>3. CASE TransportThrows
  <2>1. orphaned' = TRUE /\ UNCHANGED <<transport, made>>
    BY <1>3 DEF TransportThrows, media_vars
  <2>2. Counted'
    BY <2>1, <1>1, <1>b, <1>c DEF Counted
  <2>3. MemberTypes'
    BY <2>1, <1>1 DEF Members, MemberTypes
  <2>4. SinksAccounted'
    BY <1>1 DEF Members, SinksAccounted, Current
  <2>5. TransportIsWhole' /\ ResumedIsThere'
    BY <2>1, <1>1 DEF Members, TransportIsWhole, ResumedIsThere
  <2> QED  BY <2>2, <2>3, <2>4, <2>5 DEF Members
<1> QED  BY <1>2, <1>3

LEMMA ConsumeMembers ==
  ASSUME Requests, Members, Consume
  PROVE  Members'
<1>1. /\ Begin("insert") /\ made' = made + 1 /\ sinks' = sinks \cup {made'}
      /\ picked' = [no |-> made', transport |-> transport.no]
      /\ UNCHANGED <<device, listener, transport, orphaned, consumers, late>>
  BY DEF Consume, device_vars
<1>b. /\ worker = "idle" /\ worker' = "insert" /\ cleaner' = cleaner /\ asked' = asked
      /\ Len(queue) \in Nat /\ Len(queue') \in Nat /\ Len(queue') = Len(queue) - 1
      /\ made \in Nat /\ listener \in Nat /\ asked \in Nat
      /\ made + Len(queue) <= asked /\ listener + Len(queue) <= asked /\ asked <= MaxRequests
  BY <1>1, BegunCount
<1>2. Counted'
  BY <1>1, <1>b DEF Counted
<1>3. made' \in Number /\ made' \in 1..made' /\ \A k \in 1..made : k \in 1..made'
  BY <1>1, <1>b, CommandsAssumption DEF Number, CommandsAssumption
<1>4. picked' \in Consumer /\ picked'.no = made'
  <2>1. transport.no \in Number
    BY DEF Members, MemberTypes
  <2> QED  BY <2>1, <1>1, <1>3 DEF Consumer
<1>5. MemberTypes'
  BY <1>1, <1>3, <1>4 DEF Members, MemberTypes
<1>6. SinksAccounted'
  BY <1>1, <1>4, <1>b DEF Members, SinksAccounted, Current
<1>7. TransportIsWhole' /\ ResumedIsThere'
  BY <1>1, <1>b DEF Members, TransportIsWhole, ResumedIsThere
<1> QED  BY <1>2, <1>5, <1>6, <1>7 DEF Members

(* The consumer that is inserted beside the removal, and the one whose entry it
   takes, keep their sinks. *)
LEMMA InsertConsumerMembers ==
  ASSUME Requests, Members, Progress, NEW id \in ConsumerId, InsertConsumer(id)
  PROVE  Members'
<1>1. /\ worker = "insert" /\ worker' = "answer" /\ cleaner' = cleaner
      /\ consumers' = [i \in DOMAIN consumers \cup {id} |-> IF i = id THEN picked ELSE consumers[i]]
      /\ late' = late \cup (IF Past("remove_sinks") THEN {picked.no} ELSE {})
                      \cup (IF id \in DOMAIN consumers THEN {consumers[id].no} ELSE {})
      /\ picked' = NoConsumer
      /\ UNCHANGED <<asked, queue, device, listener, transport, orphaned, made, sinks>>
  BY DEF InsertConsumer, WorkerSteps, request_vars, device_vars
<1>p. Past("remove_sinks") <=> cleaner \notin {"none", "remove_sinks"}
  BY PastNames DEF Progress
<1>c. /\ DOMAIN consumers' = DOMAIN consumers \cup {id} /\ consumers'[id] = picked
      /\ \A i \in DOMAIN consumers : i # id => consumers'[i] = consumers[i]
  BY <1>1
<1>2. Counted'
  BY <1>1 DEF Members, Counted
<1>3. NoConsumer \in Consumer
  BY CommandsAssumption DEF NoConsumer, Consumer, Number, CommandsAssumption
<1>4. late' \subseteq 1..made
  BY <1>1 DEF Members, MemberTypes
<1>5. \A i \in DOMAIN consumers' : consumers'[i] \in Consumer /\ consumers'[i].no \in 1..made
  BY <1>1, <1>c DEF Members, MemberTypes
<1>6. MemberTypes'
  BY <1>1, <1>c, <1>3, <1>4, <1>5 DEF Members, MemberTypes
<1>7. ASSUME NEW k \in sinks
      PROVE  k \in late' \/ (cleaner \in {"none", "remove_sinks"} /\ Current(k)')
  <2>1. CASE k \in late
    BY <2>1, <1>1
  <2>2. CASE k = picked.no
    BY <2>2, <1>1, <1>p, <1>c DEF Current
  <2>3. CASE cleaner \in {"none", "remove_sinks"} /\ Current(k)
    <3>1. PICK i \in DOMAIN consumers : consumers[i].no = k
      BY <2>3 DEF Current
    <3>2. CASE i = id
      BY <3>1, <3>2, <1>1
    <3>3. CASE i # id
      BY <3>1, <3>3, <2>3, <1>c DEF Current
    <3> QED  BY <3>2, <3>3
  <2> QED  BY <2>1, <2>2, <2>3 DEF Members, SinksAccounted
<1>8. SinksAccounted'
  BY <1>7, <1>1 DEF SinksAccounted
<1>9. TransportIsWhole' /\ ResumedIsThere'
  BY <1>1 DEF Members, TransportIsWhole, ResumedIsThere
<1> QED  BY <1>2, <1>6, <1>8, <1>9 DEF Members

LEMMA FindConsumerMembers ==
  ASSUME Requests, Members, NEW id \in ConsumerId, FindConsumer(id)
  PROVE  Members'
<1>1. /\ Begin("resume") /\ id \in DOMAIN consumers /\ picked' = consumers[id]
      /\ UNCHANGED <<device, listener, transport, orphaned, made, consumers, sinks, late>>
  BY DEF FindConsumer, member_vars, device_vars, media_vars
<1>b. /\ worker = "idle" /\ worker' = "resume" /\ cleaner' = cleaner /\ asked' = asked
      /\ Len(queue) \in Nat /\ Len(queue') \in Nat /\ Len(queue') = Len(queue) - 1
      /\ made \in Nat /\ listener \in Nat /\ asked \in Nat
      /\ made + Len(queue) <= asked /\ listener + Len(queue) <= asked
  BY <1>1, BegunCount
<1>2. Counted'
  BY <1>1, <1>b DEF Counted
<1>3. MemberTypes'
  BY <1>1, <1>b DEF Members, MemberTypes
<1>4. SinksAccounted'
  BY <1>1, <1>b DEF Members, SinksAccounted, Current
<1>5. TransportIsWhole' /\ ResumedIsThere'
  BY <1>1, <1>b DEF Members, TransportIsWhole, ResumedIsThere, Current
<1> QED  BY <1>2, <1>3, <1>4, <1>5 DEF Members

LEMMA EndMembers ==
  ASSUME Requests, Members, Resume \/ InvokeCallback \/ LeaveLoop
  PROVE  Members'
<1>1. /\ worker \in {"resume", "answer", "idle"} /\ worker' \in {"answer", "idle", "gone"}
      /\ cleaner' = cleaner
      /\ UNCHANGED <<asked, queue, device, listener, transport, orphaned, made, consumers, sinks, late>>
  BY DEF Resume, InvokeCallback, LeaveLoop, WorkerSteps, request_vars, member_vars, device_vars,
         media_vars
<1>2. picked' \in Consumer
  <2>1. NoConsumer \in Consumer
    BY CommandsAssumption DEF NoConsumer, Consumer, Number, CommandsAssumption
  <2> QED  BY <2>1 DEF Resume, InvokeCallback, LeaveLoop, Members, MemberTypes
<1>3. Counted'
  BY <1>1 DEF Members, Counted
<1>4. MemberTypes'
  BY <1>1, <1>2 DEF Members, MemberTypes
<1>5. SinksAccounted'
  BY <1>1 DEF Members, SinksAccounted, Current
<1>6. TransportIsWhole' /\ ResumedIsThere'
  BY <1>1 DEF Members, TransportIsWhole, ResumedIsThere
<1> QED  BY <1>3, <1>4, <1>5, <1>6 DEF Members

LEMMA RemovalMembers ==
  ASSUME Requests, Members, Progress, Remove
  PROVE  Members'
<1>1. /\ UNCHANGED <<asked, worker, picked, device, listener, transport, orphaned, made, late>>
      /\ cleaner' \in StageName \ {"none"}
  BY RemovalSteps DEF worker_vars, device_vars
<1>2. Len(queue') <= Len(queue) /\ Len(queue) \in Nat /\ Len(queue') \in Nat
  <2>1. CASE StopCommands
    BY <2>1, RequestBounds, EmptySeq DEF StopCommands
  <2>2. CASE ~StopCommands
    <3>1. queue' = queue
      BY <2>2 DEF Remove, DetachedRemove, RemoveSinks, StopStreams, ClearConsumers, CloseTransport,
         JoinWorker, JoinReader
    <3> QED  BY <3>1, RequestBounds
  <2> QED  BY <2>1, <2>2
<1>3. Counted'
  <2>1. made \in Nat /\ listener \in Nat /\ asked \in Nat
    BY RequestBounds DEF Members, MemberTypes, Number
  <2> QED  BY <2>1, <1>1, <1>2 DEF Members, Counted
<1>4. CASE RemoveSinks
  <2>1. /\ sinks' = {k \in sinks : ~Current(k)} /\ UNCHANGED consumers
        /\ cleaner = "remove_sinks" /\ cleaner' = "stop_streams"
    BY <1>4, CleanerMoves DEF RemoveSinks, Clean
  <2>2. MemberTypes'
    BY <2>1, <1>1 DEF Members, MemberTypes
  <2>3. SinksAccounted'
    BY <2>1, <1>1 DEF Members, SinksAccounted
  <2>4. TransportIsWhole' /\ ResumedIsThere'
    BY <2>1, <1>1 DEF Members, TransportIsWhole, ResumedIsThere, Current
  <2> QED  BY <2>2, <2>3, <2>4, <1>3 DEF Members
<1>5. CASE ClearConsumers
  <2>1. /\ consumers' = <<>> /\ DOMAIN consumers' = {} /\ UNCHANGED sinks
        /\ cleaner = "clear_consumers" /\ cleaner' = "close_transport"
    BY <1>5, CleanerMoves, EmptySeq DEF ClearConsumers, Clean
  <2>2. MemberTypes'
    BY <2>1, <1>1 DEF Members, MemberTypes
  <2>3. SinksAccounted'
    BY <2>1, <1>1 DEF Members, SinksAccounted
  <2>4. TransportIsWhole' /\ ResumedIsThere'
    BY <2>1, <1>1 DEF Members, TransportIsWhole, ResumedIsThere
  <2> QED  BY <2>2, <2>3, <2>4, <1>3 DEF Members
<1>6. CASE ~RemoveSinks /\ ~ClearConsumers
  <2>1. UNCHANGED <<consumers, sinks>>
    BY <1>6 DEF Remove, DetachedRemove, StopStreams, CloseTransport, StopCommands, JoinWorker,
                JoinReader
  <2>2. /\ cleaner' \in {"none", "remove_sinks"} => cleaner \in {"none", "remove_sinks"}
        /\ cleaner \in {"none", "remove_sinks"} => cleaner' \in {"none", "remove_sinks"}
    BY <1>6, CleanerMoves DEF Remove, DetachedRemove, StopStreams, CloseTransport, StopCommands,
       JoinWorker, JoinReader, Clean
  <2>3. cleaner \in {"close_transport", "stop_commands", "join_worker"}
          => cleaner' \in {"close_transport", "stop_commands", "join_worker"} \/ worker = "gone"
    BY <1>6, CleanerMoves DEF Remove, DetachedRemove, StopStreams, CloseTransport, StopCommands,
       JoinWorker, JoinReader, Clean
  <2>4. MemberTypes'
    BY <2>1, <1>1 DEF Members, MemberTypes
  <2>5. SinksAccounted'
    BY <2>1, <2>2, <1>1 DEF Members, SinksAccounted, Current
  <2>6. TransportIsWhole' /\ ResumedIsThere'
    BY <2>1, <2>3, <1>1 DEF Members, TransportIsWhole, ResumedIsThere, Current
  <2> QED  BY <2>4, <2>5, <2>6, <1>3 DEF Members
<1> QED  BY <1>4, <1>5, <1>6

LEMMA MembersInv ==
  ASSUME IInv, [Next]_vars
  PROVE  Members'
<1>r. Requests /\ Members /\ Progress
  BY DEF IInv
<1>1. CASE \E c \in Call : Control(c) \/ SetControlStream(c) \/ DestroyReplaced(c)
                             \/ LeavePolling(c) \/ TestRunning(c) \/ ReadFails(c)
  <2>1. /\ UNCHANGED member_vars /\ UNCHANGED <<worker, picked, asked, queue>>
        /\ cleaner' = cleaner \/ (cleaner = "none" /\ cleaner' = "remove_sinks")
    BY <1>1, CallSteps DEF worker_vars, request_vars
  <2>2. Counted'
    BY <2>1, <1>r DEF Members, Counted, member_vars, device_vars, media_vars
  <2> QED  BY <2>1, <2>2, <1>r, MembersKept
<1>2. CASE \E c \in Call : RejectRequest(c) \/ CloseSession(c) \/ PushCommand(c)
  <2>1. PICK c \in Call : RejectRequest(c) \/ CloseSession(c) \/ PushCommand(c)
    BY <1>2
  <2>2. /\ asked' = asked + 1 /\ UNCHANGED member_vars /\ UNCHANGED <<worker, picked, cleaner>>
    BY <2>1, ReadSteps DEF worker_vars
  <2>3. /\ Len(queue) \in Nat /\ asked \in Nat /\ made \in Nat /\ listener \in Nat
    BY <1>r, RequestBounds DEF Members, MemberTypes, Number
  <2>4. Len(queue') = Len(queue) \/ Len(queue') = Len(queue) + 1
    <3>1. queue' = queue \/ \E m \in Request : queue' = Append(queue, m)
      <4>1. [id |-> asked', from |-> c] \in Request
        <5>1. asked' \in Number /\ c \in 0..MaxCalls
          <6>1. asked < MaxRequests /\ asked' = asked + 1
            BY <2>1, ReadSteps
          <6>2. MaxRequests \in Nat /\ asked \in Nat /\ MaxCalls \in Nat
            BY <1>r, RequestBounds, CommandsAssumption DEF CommandsAssumption
          <6> QED  BY <6>1, <6>2 DEF Number, Call
        <5> QED  BY <5>1 DEF Request
      <4> QED  BY <4>1, <2>1 DEF RejectRequest, CloseSession, PushCommand
    <3>2. queue \in Seq(Request)
      BY <1>r, RequestBounds
    <3> QED  BY <3>1, <3>2, AppendProperties
  <2>5. Counted'
    BY <2>2, <2>3, <2>4, <1>r DEF Members, Counted, member_vars, device_vars, media_vars
  <2> QED  BY <2>2, <2>5, <1>r, MembersKept
<1>3. CASE RunLoop
  BY <1>3, <1>r, LoadDeviceMembers, ReplaceListenerMembers, ConnectMembers, ConsumeMembers,
     InsertConsumerMembers, FindConsumerMembers, EndMembers DEF RunLoop
<1>4. CASE Remove
  BY <1>4, <1>r, RemovalMembers
<1>5. CASE UNCHANGED vars
  <2>1. UNCHANGED member_vars /\ UNCHANGED <<worker, picked, asked, queue, cleaner>>
    BY <1>5 DEF vars, worker_vars, request_vars
  <2>2. Counted'
    BY <2>1, <1>r DEF Members, Counted, member_vars, device_vars, media_vars
  <2> QED  BY <2>1, <2>2, <1>r, MembersKept
<1> QED  BY <1>1, <1>2, <1>3, <1>4, <1>5 DEF Next, ProcessIncomingMessages

-----------------------------------------------------------------------------
(* The streams of the Control calls. *)

(* The handler of a call attaches its stream, destroys the one before, or goes on. *)
LEMMA HandlerStreams ==
  ASSUME Progress, ControlStreams, NEW c \in Call,
         Control(c) \/ SetControlStream(c) \/ DestroyReplaced(c) \/ LeavePolling(c)
  PROVE  ControlStreams'
<1>t. StreamTypes /\ StreamsAttached /\ ReadersJoined /\ MaxCalls \in Nat /\ c >= 1 /\ c \in 0..MaxCalls
      /\ c \in Nat
  BY CommandsAssumption DEF ControlStreams, CommandsAssumption, Call
<1>w. worker' = worker
  BY CallSteps DEF worker_vars
<1>1. CASE Control(c)
  <2>1. /\ call[c] = "none" /\ call' = [call EXCEPT ![c] = "attach"]
        /\ stream' = [stream EXCEPT ![c] = "running"] /\ reader' = [reader EXCEPT ![c] = "test"]
        /\ UNCHANGED <<control_stream, replaced, removal_requested, cleaner>> /\ cleaner = "none"
    BY <1>1 DEF Control, HandlerSteps
  <2>2. StreamTypes'
    BY <2>1, <1>t DEF StreamTypes
  <2>3. StreamsAttached'
    BY <2>1, <1>t, <1>w DEF StreamsAttached, StreamTypes
  <2>4. ReadersJoined'
    BY <2>1 DEF ReadersJoined
  <2> QED  BY <2>2, <2>3, <2>4 DEF ControlStreams
<1>2. CASE SetControlStream(c)
  <2>1. /\ call[c] = "attach" /\ control_stream' = c
        /\ call' = [call EXCEPT ![c] = IF control_stream = 0 THEN "poll" ELSE "replace"]
        /\ stream' = [b \in Call |-> IF b = control_stream THEN "stopped" ELSE stream[b]]
        /\ replaced' = replaced \cup ({control_stream} \ {0})
        /\ UNCHANGED <<reader, removal_requested, cleaner>>
    BY <1>2 DEF SetControlStream, HandlerSteps
  <2>2. cleaner # "freed"
    BY <1>2, PastNames DEF Progress, SetControlStream
  <2>3. replaced' \subseteq Call /\ \A b \in Call : b = control_stream => b \in replaced'
    BY <2>1, <1>t DEF StreamTypes, Call
  <2>4. StreamTypes'
    BY <2>1, <2>3, <1>t DEF StreamTypes
  <2>5. StreamsAttached'
    BY <2>1, <2>3, <1>t, <1>w DEF StreamsAttached, StreamTypes
  <2>6. ReadersJoined'
    BY <2>1, <2>2 DEF ReadersJoined
  <2> QED  BY <2>4, <2>5, <2>6 DEF ControlStreams
<1>3. CASE DestroyReplaced(c)
  <2>1. /\ call[c] = "replace" /\ call' = [call EXCEPT ![c] = "poll"]
        /\ stream' = [b \in Call |-> IF b \in replaced THEN "destroyed" ELSE stream[b]]
        /\ UNCHANGED <<reader, control_stream, replaced, removal_requested, cleaner>>
    BY <1>3 DEF DestroyReplaced, HandlerSteps
  <2>2. StreamTypes'
    BY <2>1, <1>t DEF StreamTypes
  <2>3. StreamsAttached'
    BY <2>1, <1>t, <1>w DEF StreamsAttached, StreamTypes
  <2>4. ReadersJoined'
    BY <2>1, <1>t DEF ReadersJoined, StreamTypes
  <2> QED  BY <2>2, <2>3, <2>4 DEF ControlStreams
<1>4. CASE LeavePolling(c)
  <2>1. /\ call[c] = "poll" /\ call' = [call EXCEPT ![c] = "over"]
        /\ cleaner' = "freed" => cleaner = "freed"
        /\ UNCHANGED <<stream, reader, control_stream, replaced, removal_requested>>
    BY <1>4 DEF LeavePolling, HandlerSteps
  <2>2. StreamTypes'
    BY <2>1, <1>t DEF StreamTypes
  <2>3. StreamsAttached'
    BY <2>1, <1>t, <1>w DEF StreamsAttached, StreamTypes
  <2>4. ReadersJoined'
    BY <2>1, <1>t DEF ReadersJoined, StreamTypes
  <2> QED  BY <2>2, <2>3, <2>4 DEF ControlStreams
<1> QED  BY <1>1, <1>2, <1>3, <1>4

(* A reader reads on, or ends; it does not begin again. *)
LEMMA ReaderStreams ==
  ASSUME ControlStreams, NEW c \in Call, ProcessIncomingMessages(c)
  PROVE  ControlStreams'
<1>t. StreamTypes /\ StreamsAttached /\ ReadersJoined
  BY DEF ControlStreams
<1>1. /\ UNCHANGED <<call, control_stream, replaced, worker, cleaner>>
      /\ removal_requested' \in BOOLEAN /\ reader[c] \in {"test", "read"}
  BY <1>t, ReadSteps
     DEF ProcessIncomingMessages, TestRunning, ReadFails, ReaderSteps, worker_vars, StreamTypes
<1>2. \E to \in {"read", "ended"} : reader' = [reader EXCEPT ![c] = to]
  BY ReadSteps DEF ProcessIncomingMessages, TestRunning, ReadFails, ReaderSteps
<1>3. \/ stream' = stream
      \/ stream' = [stream EXCEPT ![c] = IF @ = "running" THEN "stopped" ELSE @]
  BY ReadSteps DEF ProcessIncomingMessages, TestRunning, ReadFails
<1>4. StreamTypes'
  BY <1>t, <1>1, <1>2, <1>3 DEF StreamTypes
<1>5. StreamsAttached'
  BY <1>t, <1>1, <1>2, <1>3 DEF StreamTypes, StreamsAttached
<1>6. ReadersJoined'
  BY <1>t, <1>1, <1>2 DEF StreamTypes, ReadersJoined
<1> QED  BY <1>4, <1>5, <1>6 DEF ControlStreams

(* The stream that is attached when the session is destroyed is joined. *)
LEMMA RemovalStreams ==
  ASSUME Progress, ControlStreams, Remove
  PROVE  ControlStreams'
<1>t. StreamTypes /\ StreamsAttached /\ ReadersJoined
  BY DEF ControlStreams
<1>1. UNCHANGED <<call, reader, control_stream, replaced, removal_requested, worker>>
  BY RemovalSteps DEF worker_vars
<1>2. CASE JoinReader
  <2>1. /\ cleaner = "join_reader"
        /\ control_stream # 0 => reader[control_stream] = "ended"
        /\ stream' = [c \in Call |-> IF c = control_stream THEN "destroyed" ELSE stream[c]]
    BY <1>2 DEF JoinReader, Clean
  <2>2. worker = "gone"
    BY <2>1 DEF Progress
  <2>3. StreamTypes'
    BY <2>1, <1>1, <1>t DEF StreamTypes
  <2>4. StreamsAttached'
    BY <2>1, <2>2, <1>1, <1>t DEF StreamsAttached
  <2>5. \A c \in Call : c # 0
    BY CommandsAssumption DEF Call, CommandsAssumption
  <2>6. ReadersJoined'
    BY <2>1, <2>5, <1>1, <1>t DEF ReadersJoined, StreamsAttached
  <2> QED  BY <2>3, <2>4, <2>6 DEF ControlStreams
<1>3. CASE ~JoinReader
  <2>1. \/ stream' = stream
        \/ stream' = [c \in Call |-> IF c = control_stream THEN "stopped" ELSE stream[c]]
    BY <1>3 DEF Remove, DetachedRemove, RemoveSinks, StopStreams, ClearConsumers, CloseTransport,
                StopCommands, JoinWorker, StopStream
  <2>2. cleaner' # "freed"
    BY <1>3, CleanerMoves DEF Remove, DetachedRemove, RemoveSinks, StopStreams, ClearConsumers,
       CloseTransport, StopCommands, JoinWorker
  <2>3. StreamTypes'
    BY <2>1, <1>1, <1>t DEF StreamTypes
  <2>4. StreamsAttached'
    BY <2>1, <1>1, <1>t DEF StreamsAttached
  <2>5. ReadersJoined'
    BY <2>2 DEF ReadersJoined
  <2> QED  BY <2>3, <2>4, <2>5 DEF ControlStreams
<1> QED  BY <1>2, <1>3

LEMMA StreamsInv ==
  ASSUME IInv, [Next]_vars
  PROVE  ControlStreams'
<1>r. Progress /\ ControlStreams
  BY DEF IInv
<1>1. CASE \E c \in Call : Control(c) \/ SetControlStream(c) \/ DestroyReplaced(c) \/ LeavePolling(c)
  BY <1>1, <1>r, HandlerStreams
<1>2. CASE \E c \in Call : ProcessIncomingMessages(c)
  BY <1>2, <1>r, ReaderStreams
<1>3. CASE RunLoop \/ UNCHANGED vars
  <2>1. UNCHANGED <<call, stream, reader, control_stream, replaced, removal_requested, cleaner>>
        /\ (worker = "gone" => worker' = "gone")
    BY <1>3, LoopSteps DEF call_vars, vars, worker_vars, Begin, InvokeCallback, LeaveLoop, WorkerSteps
  <2>2. StreamTypes'
    BY <2>1, <1>r DEF ControlStreams, StreamTypes
  <2>3. StreamsAttached' /\ ReadersJoined'
    BY <2>1, <1>r DEF ControlStreams, StreamsAttached, ReadersJoined
  <2> QED  BY <2>2, <2>3 DEF ControlStreams
<1>4. CASE Remove
  BY <1>4, <1>r, RemovalStreams
<1> QED  BY <1>1, <1>2, <1>3, <1>4 DEF Next

-----------------------------------------------------------------------------
LEMMA Invariance == Spec => []IInv
<1>1. IInv /\ [Next]_vars => IInv'
  BY ProgressInv, RequestsInv, MembersInv, StreamsInv DEF IInv
<1> QED  BY <1>1, InitIInv, PTL DEF Spec

(* Every variable keeps its type: a number of requests bounds what is made, and
   every consumer in the map is one that was made. *)
THEOREM TypeCorrect == Spec => []TypeOK
<1>1. IInv => TypeOK
  BY DEF IInv, Progress, Requests, RequestTypes, Members, MemberTypes, ControlStreams, StreamTypes,
         StageName, TypeOK
<1> QED  BY <1>1, Invariance, PTL

(* Whatever the commands do, whatever throws and whenever the session is removed,
   each request that was read is answered once, or waits, or was dropped by the
   stopped queue. *)
THEOREM RequestsAreAnsweredOnce == Spec => []AnsweredOnce
<1>1. ASSUME IInv PROVE AnsweredOnce
  <2>1. /\ RequestsApart /\ AnswersCounted /\ Stopping /\ cleaner \in StageName
        /\ MaxRequests \in Nat /\ asked \in Nat /\ asked <= MaxRequests
    BY <1>1, RequestBounds DEF IInv, Requests, Progress
  <2>2. ASSUME NEW r \in 1..asked
        PROVE  LET waiting  == r \in {queue[k].id : k \in 1..Len(queue)}
                   underway == command.id = r
                   dropped  == r \in refused
               IN /\ answers[r] <= 1
                  /\ answers[r] = 1 <=> ~(waiting \/ underway \/ dropped)
                  /\ dropped => Past("stop_commands")
    <3>1. r \in 1..MaxRequests /\ r <= asked
      BY <2>1
    <3>2. answers[r] = IF Unserved(r) THEN 0 ELSE 1
      BY <3>1, <2>1 DEF AnswersCounted
    <3>3. Unserved(r) <=>
            r \in {queue[k].id : k \in 1..Len(queue)} \/ command.id = r \/ r \in refused
      BY DEF Unserved, Waiting
    <3>4. r \in refused => Past("stop_commands")
      BY <2>1, PastNames DEF Stopping
    <3> QED  BY <3>2, <3>3, <3>4
  <2> QED  BY <2>2 DEF AnsweredOnce
<1> QED  BY <1>1, Invariance, PTL

(* A transport has the listener it was made with unless a CreateTransport is under
   way or has thrown; the consumer to be resumed is there unless the removal is
   between emptying the map and joining the worker. *)
THEOREM CommandsHaveTheirObjects == Spec => []CommandsUseWhatLives
<1>1. IInv => CommandsUseWhatLives
  BY PastNames DEF IInv, Progress, Members, TransportIsWhole, ResumedIsThere, CommandsUseWhatLives
<1> QED  BY <1>1, Invariance, PTL

(* When the session is destroyed the sink is left on no track but those of
   consumers that were inserted beside the removal or had lost their entry. *)
THEOREM SinksAreDetached == Spec => []SinksDetached
<1>1. IInv => SinksDetached
  BY DEF IInv, Progress, Members, SinksAccounted, SinksDetached
<1> QED  BY <1>1, Invariance, PTL

(* A command that is answered finds its stream, and the worker and the readers
   have ended when the session is destroyed, but for streams that were replaced
   and streams that were never attached. *)
THEOREM StreamsAreThere == Spec => []StreamsOutliveTheirUse
<1>1. ASSUME IInv PROVE StreamsOutliveTheirUse
  <2>1. Busy => command.from \in Call
    BY <1>1 DEF IInv, Requests, RequestsApart
  <2>2. Busy => stream[command.from] # "destroyed" \/ command.from \in replaced
    BY <2>1, <1>1 DEF IInv, ControlStreams, StreamsAttached, Busy
  <2>3. cleaner = "freed" => worker = "gone"
    BY <1>1 DEF IInv, Progress
  <2> QED  BY <2>2, <2>3, <1>1 DEF Busy, IInv, ControlStreams, ReadersJoined, StreamsOutliveTheirUse
<1> QED  BY <1>1, Invariance, PTL
=============================================================================
