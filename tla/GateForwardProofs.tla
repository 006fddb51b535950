-------------------------- MODULE GateForwardProofs --------------------------
(***************************************************************************)
(* The way of the user's audio through the gate, proved for every capacity *)
(* of the queue and of the pre-roll buffer and any number of frames.       *)
(***************************************************************************)
EXTENDS GateForward, SequenceTheorems, TLAPS

-----------------------------------------------------------------------------
(* The stages of the removal, counted. *)
LEMMA StageNumbers ==
  /\ Len(Stage) = 15
  /\ Stage[1] = "none" /\ Stage[2] = "stop_sink" /\ Stage[3] = "drain_sink"
  /\ Stage[4] = "lock_consumers" /\ Stage[5] = "remove_sink" /\ Stage[6] = "stop_streams"
  /\ Stage[7] = "clear_consumers" /\ Stage[8] = "stop_playout" /\ Stage[9] = "stop_commands"
  /\ Stage[10] = "stop_media" /\ Stage[11] = "join_media" /\ Stage[12] = "stop_event"
  /\ Stage[13] = "join_event" /\ Stage[14] = "join_control" /\ Stage[15] = "freed"
BY DEF Stage

LEMMA StageIsCounted ==
  ASSUME NEW k \in 1..15, NEW name, Stage[k] = name
  PROVE  StageOf(name) = k
<1>1. \A j \in 1..15 : Stage[j] = Stage[k] => j = k
  BY StageNumbers
<1>2. Len(Stage) = 15
  BY StageNumbers
<1> QED  BY <1>1, <1>2 DEF StageOf

StageName == {Stage[k] : k \in 1..Len(Stage)}

LEMMA StagesInOrder ==
  /\ StageOf("none") = 1 /\ StageOf("stop_sink") = 2 /\ StageOf("drain_sink") = 3
  /\ StageOf("lock_consumers") = 4 /\ StageOf("remove_sink") = 5
  /\ StageOf("stop_streams") = 6 /\ StageOf("clear_consumers") = 7
  /\ StageOf("stop_playout") = 8 /\ StageOf("stop_commands") = 9
  /\ StageOf("stop_media") = 10 /\ StageOf("join_media") = 11
  /\ StageOf("stop_event") = 12 /\ StageOf("join_event") = 13 /\ StageOf("join_control") = 14
  /\ StageOf("freed") = 15
BY StageIsCounted, StageNumbers

LEMMA StageNames ==
  StageName = {"none", "stop_sink", "drain_sink", "lock_consumers", "remove_sink",
               "stop_streams", "clear_consumers", "stop_playout", "stop_commands",
               "stop_media", "join_media", "stop_event", "join_event", "join_control", "freed"}
<1>1. 1..Len(Stage) = {1, 2, 3, 4, 5, 6, 7, 8, 9, 10, 11, 12, 13, 14, 15}
  BY StageNumbers
<1> QED  BY <1>1, StageNumbers DEF StageName

-----------------------------------------------------------------------------
(* The inductive invariant, in parts. *)

USE DEF removal_vars

(* A call of OnData has at most one frame to queue.  The queue holds the newest
   frames accepted, and none of them was taken; while
   nothing but the forwarding thread takes frames, it took all the others. *)
CallIsCounted == playout = "push" => accepted < calls

QueueIsNewest ==
  /\ CallIsCounted
  /\ \A i \in 1..Len(audio_queue) : audio_queue[i] = accepted - Len(audio_queue) + i
  /\ frame + Len(audio_queue) <= accepted
  /\ cleaner = "none" => frame + Len(audio_queue) = accepted

(* The frame in hand is not written, or dropped, yet. *)
InHand  == forwarder \in {"store", "gate", "send"}
Settled == IF InHand THEN frame - 1 ELSE frame

WrittenOnce == InHand => last_live < frame

(* Only the frame whose gate was tested before the gate was closed gets through. *)
OneInFlight ==
  /\ gate_open => stragglers = 0
  /\ ~gate_open => stragglers + (IF forwarder = "send" THEN 1 ELSE 0) <= 1

(* While the playout thread opens the gate it queues nothing; and of what was
   accepted since, and settled, everything was written, for as long as frames
   pass the gate. *)
NothingQueued == playout \in {"send", "open"} /\ ~gate_open => opened = accepted

Passing == cleaner = "none" /\ running /\ ~gone /\ consumer = "listed"

NothingSkipped ==
  Passing /\ (gate_open \/ forwarder = "send") /\ Settled > opened => last_live = Settled

(* The forwarding thread is that of the one Media call. *)
OneMediaCall == media = "none" => forwarder = "none" /\ frame = 0

(* A handler that was wired and saw the other's stream has registered a listener. *)
Wiring ==
  /\ listeners <= (IF events = "wired" THEN 1 ELSE 0) + (IF media = "wired" THEN 1 ELSE 0)
  /\ Wired

(* What the removal has waited for does not come back. *)
WithoutMedia == {"stop_event", "join_event", "join_control", "freed"}

Joined ==
  /\ cleaner \in {"stop_commands", "stop_media", "join_media"} \cup WithoutMedia =>
       playout = "joined"
  /\ cleaner \in WithoutMedia => forwarder \in {"none", "done"}

IInv ==
  /\ TypeOK /\ QueueIsNewest /\ WrittenOnce /\ OneInFlight /\ NothingQueued /\ NothingSkipped
  /\ OneMediaCall /\ Wiring /\ Joined

LEMMA InitIInv == Init => IInv
<1> SUFFICES ASSUME Init PROVE IInv
  OBVIOUS
<1>1. audio_queue = <<>> /\ Len(audio_queue) = 0 /\ audio_queue \in Seq(Frame) /\ pre_roll = <<>>
      /\ Len(pre_roll) = 0 /\ pre_roll \in Seq(Frame)
  BY EmptySeq DEF Init
<1>2. cleaner \in {Stage[k] : k \in 1..Len(Stage)}
  BY StageNames DEF Init, StageName
<1>n. /\ calls \in 0..MaxCalls /\ accepted \in 0..calls /\ frame \in 0..accepted /\ last_live \in 0..frame
      /\ opened \in 0..accepted /\ stragglers \in Nat /\ todo \in 0..2 /\ listeners \in 0..2 /\ todo = 0
      /\ Len(audio_queue) <= QueueCap /\ Len(pre_roll) <= PreRollFrames
  BY <1>1, GateAssumption DEF Init, GateAssumption
<1>p. playout \in PlayoutPc /\ forwarder \in ForwarderPc /\ events \in HandlerPc /\ media \in HandlerPc /\ ~Notifying
  BY DEF Init, PlayoutPc, ForwarderPc, HandlerPc, Notifying
<1>3. TypeOK
  <2>1. sink_running \in BOOLEAN /\ turn \in BOOLEAN /\ running \in BOOLEAN /\ gate_open \in BOOLEAN
        /\ gone \in BOOLEAN /\ consumer \in {"none", "sink", "listed"}
        /\ asleep \subseteq {"event", "control"}
    BY DEF Init
  <2>2. (todo > 0 <=> Notifying)
    BY <1>n, <1>p
  <2> QED  BY <2>1, <2>2, <1>1, <1>2, <1>n, <1>p DEF TypeOK
<1>4. QueueIsNewest
  BY <1>1 DEF Init, QueueIsNewest, CallIsCounted
<1>5. WrittenOnce /\ OneInFlight /\ NothingQueued /\ NothingSkipped
  BY DEF Init, WrittenOnce, OneInFlight, NothingQueued, NothingSkipped, InHand, Settled, Passing
<1>6. OneMediaCall /\ Wiring /\ Joined
  BY DEF Init, OneMediaCall, Wiring, Wired, Joined, WithoutMedia
<1> QED  BY <1>3, <1>4, <1>5, <1>6 DEF IInv

-----------------------------------------------------------------------------
(* The playout thread.  What it leaves alone keeps most of the invariant. *)

LEMMA OnDataIInv ==
  ASSUME IInv, OnData
  PROVE  IInv'
<1>0. /\ playout = "idle" /\ playout' = "push" /\ calls < MaxCalls /\ calls' = calls + 1
      /\ UNCHANGED <<sink_running, audio_queue, accepted, todo, turn>>
      /\ UNCHANGED stream_vars /\ UNCHANGED wire_vars /\ UNCHANGED removal_vars
  BY DEF OnData, PlayoutSteps
<1>1. TypeOK'
  BY <1>0, GateAssumption DEF IInv, TypeOK, PlayoutPc, Notifying, GateAssumption, stream_vars, wire_vars
<1>2. QueueIsNewest'
  BY <1>0 DEF IInv, TypeOK, QueueIsNewest, CallIsCounted, stream_vars
<1>3. WrittenOnce' /\ OneInFlight' /\ NothingQueued' /\ NothingSkipped'
  BY <1>0 DEF IInv, WrittenOnce, OneInFlight, NothingQueued, NothingSkipped, InHand, Settled,
              Passing, stream_vars, wire_vars
<1>4. OneMediaCall' /\ Wiring' /\ Joined'
  BY <1>0 DEF IInv, OneMediaCall, Wiring, Wired, Joined, stream_vars, wire_vars
<1> QED  BY <1>1, <1>2, <1>3, <1>4 DEF IInv

LEMMA PushFrameIInv ==
  ASSUME IInv, PushFrame
  PROVE  IInv'
<1>0. /\ playout = "push" /\ playout' = "react"
      /\ UNCHANGED <<sink_running, calls, todo, turn>>
      /\ UNCHANGED stream_vars /\ UNCHANGED wire_vars /\ UNCHANGED removal_vars
  BY DEF PushFrame, PlayoutSteps
<1>1. \/ UNCHANGED <<audio_queue, accepted>>
      \/ /\ Len(audio_queue) < QueueCap
         /\ audio_queue' = Append(audio_queue, accepted + 1) /\ accepted' = accepted + 1
  BY DEF PushFrame
<1>t. /\ audio_queue \in Seq(Frame) /\ Len(audio_queue) \in Nat /\ Len(audio_queue) <= QueueCap
      /\ accepted \in Nat /\ accepted + 1 \in Frame /\ accepted < calls /\ calls \in Nat
      /\ frame \in Nat /\ opened \in Nat /\ frame <= accepted /\ opened <= accepted
  BY <1>0, LenProperties, GateAssumption
     DEF IInv, TypeOK, QueueIsNewest, CallIsCounted, Frame, GateAssumption
<1>2. audio_queue' \in Seq(Frame) /\ Len(audio_queue') <= QueueCap
  BY <1>1, <1>t, AppendProperties, GateAssumption DEF GateAssumption
<1>3. accepted' \in 0..calls /\ accepted <= accepted' /\ accepted' \in Nat
  BY <1>1, <1>t
<1>4. TypeOK'
  BY <1>0, <1>2, <1>3, <1>t DEF IInv, TypeOK, PlayoutPc, Notifying, stream_vars, wire_vars
<1>5. QueueIsNewest'
  <2>1. CASE UNCHANGED <<audio_queue, accepted>>
    BY <2>1, <1>0 DEF IInv, QueueIsNewest, CallIsCounted, stream_vars
  <2>2. CASE /\ Len(audio_queue) < QueueCap
             /\ audio_queue' = Append(audio_queue, accepted + 1) /\ accepted' = accepted + 1
    <3>1. /\ Len(audio_queue') = Len(audio_queue) + 1
          /\ \A i \in 1..Len(audio_queue) : audio_queue'[i] = audio_queue[i]
          /\ audio_queue'[Len(audio_queue) + 1] = accepted + 1
      BY <2>2, <1>t, AppendProperties
    <3>2. ASSUME NEW i \in 1..Len(audio_queue')
          PROVE  audio_queue'[i] = accepted' - Len(audio_queue') + i
      <4>1. CASE i <= Len(audio_queue)
        BY <4>1, <3>1, <2>2, <1>t DEF IInv, QueueIsNewest
      <4>2. CASE i = Len(audio_queue) + 1
        BY <4>2, <3>1, <2>2, <1>t
      <4> QED  BY <4>1, <4>2, <3>1, <1>t
    <3>3. /\ frame' + Len(audio_queue') <= accepted'
          /\ cleaner' = "none" => frame' + Len(audio_queue') = accepted'
      BY <3>1, <2>2, <1>0, <1>t DEF IInv, QueueIsNewest, stream_vars
    <3> QED  BY <3>2, <3>3, <1>0 DEF QueueIsNewest, CallIsCounted
  <2> QED  BY <1>1, <2>1, <2>2
<1>6. WrittenOnce' /\ OneInFlight' /\ NothingQueued' /\ NothingSkipped'
  BY <1>0 DEF IInv, WrittenOnce, OneInFlight, NothingQueued, NothingSkipped, InHand, Settled,
              Passing, stream_vars, wire_vars
<1>7. OneMediaCall' /\ Wiring' /\ Joined'
  BY <1>0 DEF IInv, OneMediaCall, Wiring, Wired, Joined, stream_vars, wire_vars
<1> QED  BY <1>4, <1>5, <1>6, <1>7 DEF IInv

(* ProcessAudio emits an event or none, and the notification begins. *)
LEMMA EventIInv ==
  ASSUME IInv, NoEvent \/ SpeechStarted \/ UserTurnComplete
  PROVE  IInv'
<1>0. /\ playout = "react"
      /\ UNCHANGED sink_vars /\ UNCHANGED stream_vars /\ UNCHANGED wire_vars
      /\ UNCHANGED removal_vars
  BY DEF NoEvent, SpeechStarted, UserTurnComplete, PlayoutSteps
<1>1. turn' \in BOOLEAN
  BY DEF NoEvent, SpeechStarted, UserTurnComplete, IInv, TypeOK
<1>2. \/ playout' = "idle" /\ todo' = 0
      \/ playout' \in {"copy", "close"} /\ todo' = listeners /\ listeners > 0
  BY DEF NoEvent, SpeechStarted, UserTurnComplete, PlayoutSteps, Reached, IInv, TypeOK, Notifying
<1>3. playout' \in PlayoutPc /\ todo' \in 0..2 /\ (todo' > 0 <=> Notifying')
  BY <1>2 DEF IInv, TypeOK, PlayoutPc, Notifying
<1>4. TypeOK'
  BY <1>0, <1>1, <1>3 DEF IInv, TypeOK, sink_vars, stream_vars, wire_vars
<1>5. QueueIsNewest' /\ WrittenOnce' /\ OneInFlight'
  BY <1>0, <1>2 DEF IInv, QueueIsNewest, CallIsCounted, WrittenOnce, OneInFlight, InHand,
                    sink_vars, stream_vars
<1>6. NothingQueued' /\ NothingSkipped'
  BY <1>0, <1>2 DEF IInv, NothingQueued, NothingSkipped, InHand, Settled, Passing, stream_vars,
                    wire_vars
<1>7. OneMediaCall' /\ Wiring' /\ Joined'
  BY <1>0 DEF IInv, OneMediaCall, Wiring, Wired, Joined, stream_vars, wire_vars
<1> QED  BY <1>4, <1>5, <1>6, <1>7 DEF IInv

LEMMA CopyPreRollIInv ==
  ASSUME IInv, CopyPreRoll
  PROVE  IInv'
<1>0. /\ playout = "copy" /\ playout' \in {"open", "send"}
      /\ opened' = IF gate_open THEN opened ELSE accepted
      /\ UNCHANGED <<running, pre_roll, gate_open, forwarder, frame, gone, last_live, stragglers,
                     todo, turn>>
      /\ UNCHANGED sink_vars /\ UNCHANGED wire_vars /\ UNCHANGED removal_vars
  BY DEF CopyPreRoll, PlayoutSteps
<1>1. TypeOK'
  BY <1>0 DEF IInv, TypeOK, PlayoutPc, Notifying, sink_vars, wire_vars
<1>2. QueueIsNewest' /\ WrittenOnce' /\ OneInFlight'
  BY <1>0 DEF IInv, QueueIsNewest, CallIsCounted, WrittenOnce, OneInFlight, InHand, sink_vars
<1>3. NothingQueued'
  BY <1>0 DEF NothingQueued, sink_vars
<1>4. NothingSkipped'
  <2>1. opened' = opened \/ opened' = accepted
    BY <1>0
  <2>2. Settled' = Settled /\ Passing' = Passing /\ InHand' = InHand
    BY <1>0 DEF Settled, Passing, InHand, wire_vars
  <2>3. Settled <= accepted
    BY LenProperties DEF Settled, IInv, TypeOK
  <2>4. Settled \in Int /\ accepted \in Int
    BY DEF Settled, IInv, TypeOK
  <2> QED  BY <2>1, <2>2, <2>3, <2>4, <1>0 DEF IInv, NothingSkipped
<1>5. OneMediaCall' /\ Wiring' /\ Joined'
  BY <1>0 DEF IInv, OneMediaCall, Wiring, Wired, Joined, wire_vars
<1> QED  BY <1>1, <1>2, <1>3, <1>4, <1>5 DEF IInv

LEMMA SendPreRollIInv ==
  ASSUME IInv, SendPreRoll
  PROVE  IInv'
<1>r. running' = (running /\ ~(gone /\ consumer = "listed"))
  BY DEF SendPreRoll
<1>s. running' \in BOOLEAN /\ (running' => running)
  BY <1>r, Zenon
<1>0. /\ playout = "send" /\ playout' = "open"
      /\ UNCHANGED <<pre_roll, gate_open, forwarder, frame, gone, last_live, stragglers, opened,
                     todo, turn>>
      /\ UNCHANGED sink_vars /\ UNCHANGED wire_vars /\ UNCHANGED removal_vars
  BY DEF SendPreRoll, PlayoutSteps
<1>1. TypeOK'
  BY <1>0, <1>s DEF IInv, TypeOK, PlayoutPc, Notifying, sink_vars, wire_vars
<1>2. QueueIsNewest' /\ WrittenOnce' /\ OneInFlight' /\ NothingQueued'
  BY <1>0 DEF IInv, QueueIsNewest, CallIsCounted, WrittenOnce, OneInFlight, NothingQueued, InHand,
              sink_vars
<1>3. NothingSkipped'
  BY <1>0, <1>s DEF IInv, NothingSkipped, Settled, Passing, InHand, wire_vars
<1>4. OneMediaCall' /\ Wiring' /\ Joined'
  BY <1>0 DEF IInv, OneMediaCall, Wiring, Wired, Joined, wire_vars
<1> QED  BY <1>1, <1>2, <1>3, <1>4 DEF IInv

(* The gate opens on a stream of which everything settled was accepted before. *)
LEMMA OpenGateIInv ==
  ASSUME IInv, OpenGate
  PROVE  IInv'
<1>0. /\ playout = "open" /\ playout' = (IF todo > 1 THEN "copy" ELSE "idle")
      /\ todo' = todo - 1 /\ gate_open' = TRUE /\ stragglers' = 0
      /\ UNCHANGED <<running, pre_roll, forwarder, frame, gone, last_live, opened, turn>>
      /\ UNCHANGED sink_vars /\ UNCHANGED wire_vars /\ UNCHANGED removal_vars
  BY DEF OpenGate, PlayoutSteps
<1>1. playout' \in PlayoutPc /\ todo' \in 0..2 /\ (todo' > 0 <=> Notifying')
  BY <1>0 DEF IInv, TypeOK, PlayoutPc, Notifying
<1>2. TypeOK'
  BY <1>0, <1>1 DEF IInv, TypeOK, sink_vars, wire_vars
<1>3. QueueIsNewest' /\ WrittenOnce' /\ OneInFlight' /\ NothingQueued'
  BY <1>0 DEF IInv, QueueIsNewest, CallIsCounted, WrittenOnce, OneInFlight, NothingQueued, InHand,
              sink_vars
<1>4. NothingSkipped'
  <2>1. Settled' = Settled /\ Passing' = Passing /\ InHand' = InHand /\ opened' = opened
    BY <1>0 DEF Settled, Passing, InHand, wire_vars
  <2>2. Settled <= accepted /\ Settled \in Int /\ accepted \in Int
    BY DEF Settled, IInv, TypeOK
  <2>3. ~gate_open => opened = accepted
    BY <1>0 DEF IInv, NothingQueued
  <2> QED  BY <2>1, <2>2, <2>3, <1>0 DEF IInv, NothingSkipped
<1>5. OneMediaCall' /\ Wiring' /\ Joined'
  BY <1>0 DEF IInv, OneMediaCall, Wiring, Wired, Joined, wire_vars
<1> QED  BY <1>2, <1>3, <1>4, <1>5 DEF IInv

LEMMA CloseGateIInv ==
  ASSUME IInv, CloseGate
  PROVE  IInv'
<1>0. /\ playout = "close" /\ playout' = (IF todo > 1 THEN "close" ELSE "idle")
      /\ todo' = todo - 1 /\ gate_open' = FALSE
      /\ UNCHANGED <<running, pre_roll, forwarder, frame, gone, last_live, stragglers, opened, turn>>
      /\ UNCHANGED sink_vars /\ UNCHANGED wire_vars /\ UNCHANGED removal_vars
  BY DEF CloseGate, PlayoutSteps
<1>1. playout' \in PlayoutPc /\ todo' \in 0..2 /\ (todo' > 0 <=> Notifying')
  BY <1>0 DEF IInv, TypeOK, PlayoutPc, Notifying
<1>2. TypeOK'
  BY <1>0, <1>1 DEF IInv, TypeOK, sink_vars, wire_vars
<1>3. OneInFlight'
  BY <1>0 DEF IInv, TypeOK, OneInFlight
<1>4. QueueIsNewest' /\ WrittenOnce' /\ NothingQueued'
  BY <1>0 DEF IInv, QueueIsNewest, CallIsCounted, WrittenOnce, NothingQueued, InHand, sink_vars
<1>5. NothingSkipped'
  BY <1>0 DEF IInv, NothingSkipped, Settled, Passing, InHand, wire_vars
<1>6. OneMediaCall' /\ Wiring' /\ Joined'
  BY <1>0 DEF IInv, OneMediaCall, Wiring, Wired, Joined, wire_vars
<1> QED  BY <1>2, <1>3, <1>4, <1>5, <1>6 DEF IInv

-----------------------------------------------------------------------------
(* The forwarding thread. *)

LEMMA TestRunningIInv ==
  ASSUME IInv, TestRunning
  PROVE  IInv'
<1>0. /\ forwarder = "top" /\ forwarder' \in {"pop", "done"}
      /\ UNCHANGED <<running, pre_roll, frame, last_live, stragglers, gate_open, gone, opened>>
      /\ UNCHANGED sink_vars /\ UNCHANGED play_vars /\ UNCHANGED wire_vars /\ UNCHANGED removal_vars
  BY DEF TestRunning, ForwarderSteps
<1>1. TypeOK'
  BY <1>0 DEF IInv, TypeOK, ForwarderPc, Notifying, sink_vars, play_vars, wire_vars
<1>2. QueueIsNewest' /\ WrittenOnce' /\ OneInFlight' /\ NothingQueued'
  BY <1>0 DEF IInv, QueueIsNewest, CallIsCounted, WrittenOnce, OneInFlight, NothingQueued, InHand,
              sink_vars, play_vars
<1>3. NothingSkipped'
  BY <1>0 DEF IInv, NothingSkipped, Settled, Passing, InHand, wire_vars
<1>4. OneMediaCall' /\ Wiring' /\ Joined'
  BY <1>0 DEF IInv, OneMediaCall, Wiring, Wired, Joined, play_vars, wire_vars
<1> QED  BY <1>1, <1>2, <1>3, <1>4 DEF IInv

LEMMA GetNextFrameIInv ==
  ASSUME IInv, GetNextFrame
  PROVE  IInv'
<1>0. /\ forwarder = "pop"
      /\ UNCHANGED <<running, pre_roll, last_live, stragglers, gate_open, gone, opened>>
      /\ UNCHANGED <<sink_running, calls, accepted>>
      /\ UNCHANGED play_vars /\ UNCHANGED wire_vars /\ UNCHANGED removal_vars
  BY DEF GetNextFrame, ForwarderSteps
<1>1. \/ audio_queue = <<>> /\ audio_queue' = audio_queue /\ frame' = frame /\ forwarder' = "top"
      \/ /\ audio_queue # <<>> /\ audio_queue' = Tail(audio_queue)
         /\ frame' = Head(audio_queue) /\ forwarder' = "store"
  BY DEF GetNextFrame, ForwarderSteps
<1>t. /\ audio_queue \in Seq(Frame) /\ Len(audio_queue) \in Nat /\ Len(audio_queue) <= QueueCap
      /\ accepted \in Nat /\ frame \in Nat /\ frame + Len(audio_queue) <= accepted
      /\ last_live \in Nat /\ last_live <= frame /\ QueueCap \in Nat
  BY LenProperties, GateAssumption DEF IInv, TypeOK, QueueIsNewest, GateAssumption
<1>2. CASE audio_queue = <<>> /\ audio_queue' = audio_queue /\ frame' = frame /\ forwarder' = "top"
  <2>1. TypeOK'
    BY <1>0, <1>2 DEF IInv, TypeOK, ForwarderPc, Notifying, play_vars, wire_vars
  <2>2. QueueIsNewest'
    BY <1>0, <1>2 DEF IInv, QueueIsNewest, CallIsCounted, play_vars
  <2>3. WrittenOnce' /\ OneInFlight' /\ NothingQueued' /\ NothingSkipped'
    BY <1>0, <1>2 DEF IInv, WrittenOnce, OneInFlight, NothingQueued, InHand, NothingSkipped, Settled,
                      Passing, play_vars, wire_vars
  <2>4. OneMediaCall' /\ Wiring' /\ Joined'
    BY <1>0, <1>2 DEF IInv, OneMediaCall, Wiring, Wired, Joined, play_vars, wire_vars
  <2> QED  BY <2>1, <2>2, <2>3, <2>4 DEF IInv
<1>3. CASE /\ audio_queue # <<>> /\ audio_queue' = Tail(audio_queue)
           /\ frame' = Head(audio_queue) /\ forwarder' = "store"
  <2>1. /\ Len(audio_queue') = Len(audio_queue) - 1 /\ audio_queue' \in Seq(Frame)
        /\ \A i \in 1..Len(audio_queue') : audio_queue'[i] = audio_queue[i + 1]
        /\ frame' = audio_queue[1] /\ Len(audio_queue) >= 1 /\ frame' \in Frame
    BY <1>3, <1>t, HeadTailProperties
  <2>2. frame' = accepted - Len(audio_queue) + 1
    BY <2>1, <1>t DEF IInv, QueueIsNewest
  <2>3. frame' \in 0..accepted /\ frame < frame' /\ last_live < frame' /\ last_live \in 0..frame'
    BY <2>1, <2>2, <1>t
  <2>4. Len(audio_queue') <= QueueCap
    BY <2>1, <1>t
  <2>5. TypeOK'
    BY <1>0, <1>3, <2>1, <2>3, <2>4 DEF IInv, TypeOK, ForwarderPc, Notifying, play_vars, wire_vars
  <2>6. QueueIsNewest'
    <3>1. frame' + Len(audio_queue') = accepted
      BY <2>1, <2>2, <1>t
    <3>2. ASSUME NEW i \in 1..Len(audio_queue')
          PROVE  audio_queue'[i] = accepted' - Len(audio_queue') + i
      <4>1. i + 1 \in 1..Len(audio_queue)
        BY <2>1, <1>t
      <4>2. audio_queue[i + 1] = accepted - Len(audio_queue) + (i + 1)
        BY <4>1 DEF IInv, QueueIsNewest
      <4> QED  BY <4>2, <2>1, <1>0, <1>t
    <3> QED  BY <3>1, <3>2, <1>0, <1>t DEF IInv, QueueIsNewest, CallIsCounted, play_vars
  <2>7. WrittenOnce' /\ OneInFlight' /\ NothingQueued'
    BY <1>0, <1>3, <2>3 DEF IInv, WrittenOnce, OneInFlight, NothingQueued, play_vars
  <2>8. NothingSkipped'
    <3>1. cleaner = "none" => frame' = frame + 1
      <4>1. cleaner = "none" => frame + Len(audio_queue) = accepted
        BY DEF IInv, QueueIsNewest
      <4> QED  BY <4>1, <2>2, <1>t
    <3>2. Settled = frame /\ Settled' = frame' - 1
      BY <1>0, <1>3 DEF Settled, InHand
    <3>3. cleaner = "none" => Settled' = Settled
      BY <3>1, <3>2, <1>t
    <3> QED  BY <3>3, <1>0, <1>3 DEF IInv, NothingSkipped, Passing, wire_vars
  <2>9. OneMediaCall' /\ Wiring' /\ Joined'
    BY <1>0, <1>3 DEF IInv, OneMediaCall, Wiring, Wired, Joined, play_vars, wire_vars
  <2> QED  BY <2>5, <2>6, <2>7, <2>8, <2>9 DEF IInv
<1> QED  BY <1>1, <1>2, <1>3

LEMMA StorePreRollIInv ==
  ASSUME IInv, StorePreRoll
  PROVE  IInv'
<1>0. /\ forwarder = "store" /\ forwarder' = "gate"
      /\ UNCHANGED <<running, frame, last_live, stragglers, gate_open, gone, opened>>
      /\ UNCHANGED sink_vars /\ UNCHANGED play_vars /\ UNCHANGED wire_vars /\ UNCHANGED removal_vars
  BY DEF StorePreRoll, ForwarderSteps
<1>1. pre_roll' = IF Len(pre_roll) < PreRollFrames THEN Append(pre_roll, frame)
                  ELSE Append(Tail(pre_roll), frame)
  BY DEF StorePreRoll
<1>t. /\ pre_roll \in Seq(Frame) /\ Len(pre_roll) \in Nat /\ Len(pre_roll) <= PreRollFrames
      /\ PreRollFrames \in Nat /\ PreRollFrames > 0
  BY LenProperties, GateAssumption DEF IInv, TypeOK, GateAssumption
<1>f. frame \in Frame
  BY <1>0, GateAssumption DEF IInv, TypeOK, WrittenOnce, InHand, Frame, GateAssumption
<1>2. pre_roll' \in Seq(Frame) /\ Len(pre_roll') <= PreRollFrames
  <2>1. CASE Len(pre_roll) < PreRollFrames
    BY <2>1, <1>1, <1>t, <1>f, AppendProperties
  <2>2. CASE ~(Len(pre_roll) < PreRollFrames)
    <3>1. pre_roll # <<>>
      BY <2>2, <1>t, EmptySeq
    <3>2. Tail(pre_roll) \in Seq(Frame) /\ Len(Tail(pre_roll)) = Len(pre_roll) - 1
      BY <3>1, <1>t, HeadTailProperties
    <3> QED  BY <3>2, <2>2, <1>1, <1>t, <1>f, AppendProperties
  <2> QED  BY <2>1, <2>2
<1>3. TypeOK'
  BY <1>0, <1>2 DEF IInv, TypeOK, ForwarderPc, Notifying, sink_vars, play_vars, wire_vars
<1>4. QueueIsNewest' /\ WrittenOnce' /\ OneInFlight' /\ NothingQueued'
  BY <1>0 DEF IInv, QueueIsNewest, CallIsCounted, WrittenOnce, OneInFlight, NothingQueued, InHand,
              sink_vars, play_vars
<1>5. NothingSkipped'
  BY <1>0 DEF IInv, NothingSkipped, Settled, Passing, InHand, wire_vars
<1>6. OneMediaCall' /\ Wiring' /\ Joined'
  BY <1>0 DEF IInv, OneMediaCall, Wiring, Wired, Joined, play_vars, wire_vars
<1> QED  BY <1>3, <1>4, <1>5, <1>6 DEF IInv

(* A closed gate settles the frame, and nothing passes it. *)
LEMMA TestGateIInv ==
  ASSUME IInv, TestGate
  PROVE  IInv'
<1>0. /\ forwarder = "gate" /\ forwarder' = (IF gate_open THEN "send" ELSE "top")
      /\ UNCHANGED <<running, pre_roll, frame, last_live, stragglers, gate_open, gone, opened>>
      /\ UNCHANGED sink_vars /\ UNCHANGED play_vars /\ UNCHANGED wire_vars /\ UNCHANGED removal_vars
  BY DEF TestGate, ForwarderSteps
<1>1. TypeOK'
  BY <1>0 DEF IInv, TypeOK, ForwarderPc, Notifying, sink_vars, play_vars, wire_vars
<1>2. QueueIsNewest' /\ WrittenOnce' /\ NothingQueued'
  BY <1>0 DEF IInv, QueueIsNewest, CallIsCounted, WrittenOnce, NothingQueued, InHand,
              sink_vars, play_vars
<1>3. OneInFlight'
  BY <1>0 DEF IInv, TypeOK, OneInFlight
<1>4. NothingSkipped'
  BY <1>0 DEF IInv, NothingSkipped, Settled, Passing, InHand, wire_vars
<1>5. OneMediaCall' /\ Wiring' /\ Joined'
  BY <1>0 DEF IInv, OneMediaCall, Wiring, Wired, Joined, play_vars, wire_vars
<1> QED  BY <1>1, <1>2, <1>3, <1>4, <1>5 DEF IInv

(* A frame is written, or given up with the consumer or the stream. *)
LEMMA SendFrameIInv ==
  ASSUME IInv, SendFrame
  PROVE  IInv'
<1>0. /\ forwarder = "send" /\ forwarder' = "top"
      /\ UNCHANGED <<pre_roll, frame, gate_open, gone, opened>>
      /\ UNCHANGED sink_vars /\ UNCHANGED play_vars /\ UNCHANGED wire_vars /\ UNCHANGED removal_vars
  BY DEF SendFrame, ForwarderSteps
<1>r. running' = (running /\ ~((running /\ consumer = "listed") /\ gone))
  BY DEF SendFrame
<1>s. running' \in BOOLEAN /\ (running' => running)
  BY <1>r, Zenon
<1>1. last_live' = IF (running /\ consumer = "listed") /\ ~gone THEN frame ELSE last_live
  BY DEF SendFrame
<1>2. stragglers' = IF (running /\ consumer = "listed") /\ ~gone /\ ~gate_open THEN stragglers + 1
                    ELSE stragglers
  BY DEF SendFrame
<1>t. frame \in Nat /\ last_live \in 0..frame /\ stragglers \in Nat /\ last_live < frame
  BY <1>0 DEF IInv, TypeOK, WrittenOnce, InHand
<1>3. last_live' \in 0..frame /\ stragglers' \in Nat
  BY <1>1, <1>2, <1>t
<1>4. TypeOK'
  BY <1>0, <1>3, <1>s DEF IInv, TypeOK, ForwarderPc, Notifying, sink_vars, play_vars, wire_vars
<1>5. QueueIsNewest' /\ WrittenOnce' /\ NothingQueued'
  BY <1>0 DEF IInv, QueueIsNewest, CallIsCounted, WrittenOnce, NothingQueued, InHand,
              sink_vars, play_vars
<1>6. OneInFlight'
  BY <1>0, <1>2, <1>t DEF IInv, OneInFlight
<1>7. NothingSkipped'
  BY <1>0, <1>s, <1>1 DEF NothingSkipped, Settled, Passing, InHand, wire_vars
<1>8. OneMediaCall' /\ Wiring' /\ Joined'
  BY <1>0 DEF IInv, OneMediaCall, Wiring, Wired, Joined, play_vars, wire_vars
<1> QED  BY <1>4, <1>5, <1>6, <1>7, <1>8 DEF IInv

-----------------------------------------------------------------------------
(* The handlers, the command and the client. *)

LEMMA AttachableUntil ==
  ASSUME TypeOK, Attachable
  PROVE  cleaner \notin {"join_media"} \cup WithoutMedia
BY StagesInOrder DEF Attachable, WithoutMedia

(* What attaches or wires the Events stream, or adds the sink, disturbs the
   wiring and nothing else. *)
LEMMA WiringStepIInv ==
  ASSUME IInv, UNCHANGED sink_vars, UNCHANGED play_vars, UNCHANGED stream_vars,
         UNCHANGED removal_vars,
         events' \in HandlerPc, media' \in HandlerPc, listeners' \in 0..2, listeners' >= listeners,
         media # "none" => media' # "none",
         consumer' \in {"none", "sink", "listed"}, consumer' = "listed" => consumer = "listed",
         Wiring'
  PROVE  IInv'
<1>1. TypeOK'
  BY DEF IInv, TypeOK, Notifying, sink_vars, play_vars, stream_vars
<1>2. QueueIsNewest' /\ WrittenOnce' /\ OneInFlight' /\ NothingQueued'
  BY DEF IInv, QueueIsNewest, CallIsCounted, WrittenOnce, OneInFlight, NothingQueued, InHand,
         sink_vars, play_vars, stream_vars
<1>3. NothingSkipped'
  BY DEF IInv, NothingSkipped, Settled, Passing, InHand, stream_vars
<1>4. OneMediaCall' /\ Joined'
  BY DEF IInv, OneMediaCall, Joined, play_vars, stream_vars
<1> QED  BY <1>1, <1>2, <1>3, <1>4 DEF IInv

LEMMA EventsIInv ==
  ASSUME IInv, AttachEvents \/ WireEvents
  PROVE  IInv'
<1>t. events \in HandlerPc /\ media \in HandlerPc /\ listeners \in 0..2
      /\ consumer \in {"none", "sink", "listed"}
  BY DEF IInv, TypeOK
<1>1. CASE AttachEvents
  <2>1. events = "none" /\ events' = "attached" /\ UNCHANGED <<media, listeners, consumer>>
        /\ UNCHANGED sink_vars /\ UNCHANGED play_vars /\ UNCHANGED stream_vars
        /\ UNCHANGED removal_vars
    BY <1>1 DEF AttachEvents
  <2>2. Wiring'
    BY <2>1 DEF IInv, Wiring, Wired
  <2>3. events' \in HandlerPc
    BY <2>1 DEF HandlerPc
  <2> QED  BY <2>1, <2>2, <2>3, <1>t, WiringStepIInv
<1>2. CASE WireEvents
  <2>1. /\ events = "attached" /\ events' = "wired" /\ UNCHANGED <<media, consumer>>
        /\ listeners' = IF media # "none" THEN listeners + 1 ELSE listeners
        /\ UNCHANGED sink_vars /\ UNCHANGED play_vars /\ UNCHANGED stream_vars
        /\ UNCHANGED removal_vars
    BY <1>2 DEF WireEvents
  <2>2. Wiring'
    BY <2>1, <1>t DEF IInv, Wiring, Wired
  <2>3. events' \in HandlerPc /\ listeners' \in 0..2 /\ listeners' >= listeners
    BY <2>1, <2>2, <1>t DEF HandlerPc, IInv, Wiring
  <2> QED  BY <2>1, <2>2, <2>3, <1>t, WiringStepIInv
<1> QED  BY <1>1, <1>2

LEMMA AttachMediaIInv ==
  ASSUME IInv, AttachMedia
  PROVE  IInv'
<1>0. /\ media = "none" /\ media' = "attached" /\ running' = TRUE /\ forwarder' = "top"
      /\ UNCHANGED <<events, listeners, consumer, pre_roll, gate_open, frame, gone, last_live,
                     stragglers, opened>>
      /\ UNCHANGED sink_vars /\ UNCHANGED play_vars /\ UNCHANGED removal_vars
  BY DEF AttachMedia
<1>1. cleaner \notin {"join_media"} \cup WithoutMedia
  BY AttachableUntil DEF AttachMedia, IInv
<1>2. forwarder = "none" /\ frame = 0
  BY <1>0 DEF IInv, OneMediaCall
<1>3. TypeOK'
  BY <1>0 DEF IInv, TypeOK, ForwarderPc, HandlerPc, Notifying, sink_vars, play_vars
<1>4. QueueIsNewest' /\ WrittenOnce' /\ OneInFlight' /\ NothingQueued'
  BY <1>0, <1>2 DEF IInv, QueueIsNewest, CallIsCounted, WrittenOnce, OneInFlight, NothingQueued,
                    InHand, sink_vars, play_vars
<1>5. NothingSkipped'
  <2>1. Settled' = 0
    BY <1>0, <1>2 DEF Settled, InHand
  <2>2. opened' \in Nat
    BY <1>0 DEF IInv, TypeOK
  <2> QED  BY <2>1, <2>2 DEF NothingSkipped
<1>6. OneMediaCall' /\ Wiring' /\ Joined'
  BY <1>0, <1>1 DEF IInv, OneMediaCall, Wiring, Wired, Joined, play_vars
<1> QED  BY <1>3, <1>4, <1>5, <1>6 DEF IInv

LEMMA WireMediaIInv ==
  ASSUME IInv, WireMedia
  PROVE  IInv'
<1>t. events \in HandlerPc /\ media \in HandlerPc /\ listeners \in 0..2
      /\ consumer \in {"none", "sink", "listed"}
  BY DEF IInv, TypeOK
<1>1. /\ media = "attached" /\ media' = "wired" /\ UNCHANGED <<events, consumer>>
      /\ listeners' = IF events # "none" THEN listeners + 1 ELSE listeners
      /\ UNCHANGED sink_vars /\ UNCHANGED play_vars /\ UNCHANGED stream_vars
      /\ UNCHANGED removal_vars
  BY DEF WireMedia
<1>2. Wiring'
  BY <1>1, <1>t DEF IInv, Wiring, Wired
<1>3. media' \in HandlerPc /\ listeners' \in 0..2 /\ listeners' >= listeners
  BY <1>1, <1>2, <1>t DEF HandlerPc, IInv, Wiring
<1> QED  BY <1>1, <1>2, <1>3, <1>t, WiringStepIInv

LEMMA AddSinkIInv ==
  ASSUME IInv, AddSink
  PROVE  IInv'
<1>t. events \in HandlerPc /\ media \in HandlerPc /\ listeners \in 0..2 /\ Wiring
  BY DEF IInv, TypeOK
<1>1. /\ consumer' = "sink" /\ UNCHANGED <<events, media, listeners>>
      /\ UNCHANGED sink_vars /\ UNCHANGED play_vars /\ UNCHANGED stream_vars
      /\ UNCHANGED removal_vars
  BY DEF AddSink
<1>2. Wiring'
  BY <1>1, <1>t DEF Wiring, Wired
<1> QED  BY <1>1, <1>2, <1>t, WiringStepIInv

(* A consumer that is new has missed what was accepted before. *)
LEMMA ListConsumerIInv ==
  ASSUME IInv, ListConsumer
  PROVE  IInv'
<1>0. /\ consumer' = "listed" /\ opened' = accepted
      /\ UNCHANGED <<events, media, listeners>>
      /\ UNCHANGED <<running, pre_roll, gate_open, forwarder, frame, gone, last_live, stragglers>>
      /\ UNCHANGED sink_vars /\ UNCHANGED play_vars /\ UNCHANGED removal_vars
  BY DEF ListConsumer
<1>1. TypeOK'
  BY <1>0 DEF IInv, TypeOK, Notifying, sink_vars, play_vars
<1>2. QueueIsNewest' /\ WrittenOnce' /\ OneInFlight' /\ NothingQueued'
  BY <1>0 DEF IInv, QueueIsNewest, CallIsCounted, WrittenOnce, OneInFlight, NothingQueued,
              InHand, sink_vars, play_vars
<1>3. NothingSkipped'
  <2>1. Settled' = Settled /\ Settled <= accepted /\ Settled \in Int /\ accepted \in Int
    BY <1>0 DEF Settled, InHand, IInv, TypeOK
  <2> QED  BY <2>1, <1>0 DEF NothingSkipped
<1>4. OneMediaCall' /\ Wiring' /\ Joined'
  BY <1>0 DEF IInv, OneMediaCall, Wiring, Wired, Joined, play_vars
<1> QED  BY <1>1, <1>2, <1>3, <1>4 DEF IInv

LEMMA HangUpIInv ==
  ASSUME IInv, HangUp
  PROVE  IInv'
<1>0. /\ gone' = TRUE
      /\ UNCHANGED <<running, pre_roll, gate_open, forwarder, frame, last_live, stragglers, opened>>
      /\ UNCHANGED sink_vars /\ UNCHANGED play_vars /\ UNCHANGED wire_vars /\ UNCHANGED removal_vars
  BY DEF HangUp
<1>1. TypeOK'
  BY <1>0 DEF IInv, TypeOK, Notifying, sink_vars, play_vars, wire_vars
<1>2. QueueIsNewest' /\ WrittenOnce' /\ OneInFlight' /\ NothingQueued'
  BY <1>0 DEF IInv, QueueIsNewest, CallIsCounted, WrittenOnce, OneInFlight, NothingQueued,
              InHand, sink_vars, play_vars
<1>3. NothingSkipped'
  BY <1>0 DEF NothingSkipped, Passing
<1>4. OneMediaCall' /\ Wiring' /\ Joined'
  BY <1>0 DEF IInv, OneMediaCall, Wiring, Wired, Joined, play_vars, wire_vars
<1> QED  BY <1>1, <1>2, <1>3, <1>4 DEF IInv

-----------------------------------------------------------------------------
(* The removal of the session. *)

(* Once the removal has begun, frames may be lost; it must not undo what it has
   waited for. *)
LEMMA RemovalIInv ==
  ASSUME IInv, cleaner' \in StageName \ {"none"}, asleep' \subseteq {"event", "control"},
         UNCHANGED <<calls, accepted, todo, turn, pre_roll, gate_open, forwarder, frame, gone,
                     last_live, stragglers, opened, events, media, listeners>>,
         sink_running' \in BOOLEAN, running' \in BOOLEAN,
         consumer' \in {"none", "sink", "listed"},
         \/ audio_queue' = audio_queue
         \/ audio_queue # <<>> /\ audio_queue' = Tail(audio_queue),
         playout' = playout \/ (playout = "idle" /\ playout' = "joined"),
         Joined'
  PROVE  IInv'
<1>t. audio_queue \in Seq(Frame) /\ Len(audio_queue) \in Nat /\ Len(audio_queue) <= QueueCap
      /\ accepted \in Nat /\ frame \in Nat /\ QueueCap \in Nat
  BY LenProperties, GateAssumption DEF IInv, TypeOK, GateAssumption
<1>1. /\ audio_queue' \in Seq(Frame) /\ Len(audio_queue') <= QueueCap
      /\ \A i \in 1..Len(audio_queue') : audio_queue'[i] = accepted - Len(audio_queue') + i
      /\ frame + Len(audio_queue') <= accepted
  <2>1. CASE audio_queue' = audio_queue
    BY <2>1, <1>t DEF IInv, QueueIsNewest
  <2>2. CASE audio_queue # <<>> /\ audio_queue' = Tail(audio_queue)
    <3>1. /\ Len(audio_queue') = Len(audio_queue) - 1 /\ audio_queue' \in Seq(Frame)
          /\ \A i \in 1..Len(audio_queue') : audio_queue'[i] = audio_queue[i + 1]
          /\ Len(audio_queue) >= 1
      BY <2>2, <1>t, HeadTailProperties
    <3>2. ASSUME NEW i \in 1..Len(audio_queue')
          PROVE  audio_queue'[i] = accepted - Len(audio_queue') + i
      <4>1. i + 1 \in 1..Len(audio_queue)
        BY <3>1, <1>t
      <4>2. audio_queue[i + 1] = accepted - Len(audio_queue) + (i + 1)
        BY <4>1 DEF IInv, QueueIsNewest
      <4> QED  BY <4>2, <3>1, <1>t
    <3>3. frame + Len(audio_queue) <= accepted
      BY DEF IInv, QueueIsNewest
    <3> QED  BY <3>1, <3>2, <3>3, <1>t
  <2> QED  BY <2>1, <2>2
<1>2. playout' \in PlayoutPc /\ (Notifying' <=> Notifying)
  BY DEF IInv, TypeOK, PlayoutPc, Notifying
<1>3. TypeOK'
  BY <1>1, <1>2 DEF IInv, TypeOK, StageName
<1>4. QueueIsNewest'
  BY <1>1 DEF IInv, QueueIsNewest, CallIsCounted
<1>5. WrittenOnce' /\ OneInFlight' /\ NothingQueued' /\ NothingSkipped'
  BY DEF IInv, WrittenOnce, OneInFlight, NothingQueued, NothingSkipped, InHand, Passing
<1>6. OneMediaCall' /\ Wiring'
  BY DEF IInv, OneMediaCall, Wiring, Wired
<1> QED  BY <1>3, <1>4, <1>5, <1>6 DEF IInv

(* Where each step of the removal leads. *)
LEMMA CleanerMoves ==
  /\ CleanerSteps("none")            => cleaner' = "stop_sink"
  /\ CleanerSteps("stop_sink")       => cleaner' = "drain_sink"
  /\ CleanerSteps("drain_sink")      => cleaner' = "lock_consumers"
  /\ CleanerSteps("lock_consumers")  => cleaner' = "remove_sink"
  /\ CleanerSteps("remove_sink")     => cleaner' = "stop_streams"
  /\ CleanerSteps("stop_streams")    => cleaner' = "clear_consumers"
  /\ CleanerSteps("clear_consumers") => cleaner' = "stop_playout"
  /\ CleanerSteps("stop_playout")    => cleaner' = "stop_commands"
  /\ CleanerSteps("stop_commands")   => cleaner' = "stop_media"
  /\ CleanerSteps("stop_media")      => cleaner' = "join_media"
  /\ CleanerSteps("join_media")      => cleaner' = "stop_event"
  /\ CleanerSteps("stop_event")      => cleaner' = "join_event"
  /\ CleanerSteps("join_event")      => cleaner' = "join_control"
  /\ CleanerSteps("join_control")    => cleaner' = "freed"
BY StagesInOrder, StageNumbers DEF CleanerSteps

LEMMA BeforePlayoutIInv ==
  ASSUME IInv,
         RemoveSession \/ StopSink \/ DrainSink \/ LockConsumers \/ RemoveSink \/ StopStreams
           \/ ClearConsumers
  PROVE  IInv'
<1>t. sink_running \in BOOLEAN /\ running \in BOOLEAN /\ consumer \in {"none", "sink", "listed"}
      /\ asleep \subseteq {"event", "control"}
  BY DEF IInv, TypeOK
<1>1. CASE DrainSink /\ audio_queue # <<>>
  <2>1. /\ cleaner = "drain_sink" /\ cleaner' = cleaner /\ audio_queue' = Tail(audio_queue)
        /\ UNCHANGED <<calls, accepted, todo, turn, pre_roll, gate_open, forwarder, frame, gone,
                       last_live, stragglers, opened, events, media, listeners>>
        /\ UNCHANGED <<sink_running, playout, running, consumer, asleep>>
    BY <1>1 DEF DrainSink
  <2>2. cleaner' \in StageName \ {"none"} /\ Joined'
    BY <2>1, StageNames DEF Joined, WithoutMedia
  <2>3. sink_running' \in BOOLEAN /\ running' \in BOOLEAN /\ consumer' \in {"none", "sink", "listed"}
        /\ playout' = playout /\ asleep' \subseteq {"event", "control"}
    BY <2>1, <1>t
  <2> QED  BY <2>1, <2>2, <2>3, <1>1, RemovalIInv
<1>2. CASE ~(DrainSink /\ audio_queue # <<>>)
  <2>1. /\ cleaner' \in {"stop_sink", "drain_sink", "lock_consumers", "remove_sink", "stop_streams",
                         "clear_consumers", "stop_playout"}
        /\ UNCHANGED <<calls, accepted, todo, turn, pre_roll, gate_open, forwarder, frame, gone,
                       last_live, stragglers, opened, events, media, listeners>>
    <3>1. \/ CleanerSteps("none") \/ CleanerSteps("stop_sink") \/ CleanerSteps("drain_sink")
          \/ CleanerSteps("lock_consumers") \/ CleanerSteps("remove_sink")
          \/ CleanerSteps("stop_streams") \/ CleanerSteps("clear_consumers")
      BY <1>2 DEF RemoveSession, StopSink, DrainSink, LockConsumers, RemoveSink, StopStreams,
                  ClearConsumers
    <3>2. UNCHANGED <<calls, accepted, todo, turn, pre_roll, gate_open, forwarder, frame, gone,
                      last_live, stragglers, opened, events, media, listeners>>
      BY <3>1 DEF CleanerSteps
    <3> QED  BY <3>1, <3>2, CleanerMoves
  <2>2. UNCHANGED <<audio_queue, playout>> /\ asleep' \subseteq {"event", "control"}
    BY <1>t, <1>2 DEF RemoveSession, StopSink, DrainSink, LockConsumers, RemoveSink, StopStreams,
                ClearConsumers
  <2>3. /\ sink_running' \in BOOLEAN /\ running' \in BOOLEAN
        /\ consumer' \in {"none", "sink", "listed"}
    BY <1>t, <1>2 DEF RemoveSession, StopSink, DrainSink, LockConsumers, RemoveSink, StopStreams,
                      ClearConsumers
  <2>4. cleaner' \in StageName \ {"none"} /\ Joined'
    BY <2>1, StageNames DEF Joined, WithoutMedia
  <2> QED  BY <2>1, <2>2, <2>3, <2>4, RemovalIInv
<1> QED  BY <1>1, <1>2

LEMMA FromPlayoutIInv ==
  ASSUME IInv, StopPlayout \/ StopCommands \/ StopMedia \/ JoinMedia
  PROVE  IInv'
<1>t. sink_running \in BOOLEAN /\ running \in BOOLEAN /\ consumer \in {"none", "sink", "listed"}
      /\ asleep \subseteq {"event", "control"}
  BY DEF IInv, TypeOK
<1>1. \/ CleanerSteps("stop_playout") \/ CleanerSteps("stop_commands")
      \/ CleanerSteps("stop_media") \/ CleanerSteps("join_media")
  BY DEF StopPlayout, StopCommands, StopMedia, JoinMedia
<1>2. UNCHANGED <<calls, accepted, todo, turn, pre_roll, gate_open, forwarder, frame, gone,
                  last_live, stragglers, opened, events, media, listeners>>
  BY <1>1 DEF CleanerSteps
<1>3. cleaner' \in {"stop_commands", "stop_media", "join_media", "stop_event"}
  BY <1>1, CleanerMoves
<1>4. UNCHANGED <<sink_running, audio_queue, consumer, asleep>> /\ running' \in BOOLEAN
  BY <1>t DEF StopPlayout, StopCommands, StopMedia, JoinMedia
<1>5. /\ playout' = playout \/ (playout = "idle" /\ playout' = "joined")
      /\ playout' = "joined"
  <2>1. CASE StopPlayout
    BY <2>1 DEF StopPlayout, PlayoutSteps
  <2>2. CASE StopCommands \/ StopMedia \/ JoinMedia
    <3>1. playout' = playout /\ cleaner \in {"stop_commands", "stop_media", "join_media"}
      BY <2>2 DEF StopCommands, StopMedia, JoinMedia, CleanerSteps
    <3> QED  BY <3>1 DEF IInv, Joined
  <2> QED  BY <2>1, <2>2
<1>6. cleaner' = "stop_event" => forwarder' \in {"none", "done"}
  <2>1. CASE JoinMedia
    BY <2>1, <1>2 DEF JoinMedia
  <2>2. CASE StopPlayout \/ StopCommands \/ StopMedia
    BY <2>2, CleanerMoves DEF StopPlayout, StopCommands, StopMedia
  <2> QED  BY <2>1, <2>2
<1>7. cleaner' \in StageName \ {"none"} /\ Joined'
  BY <1>3, <1>5, <1>6, StageNames DEF Joined, WithoutMedia
<1> QED  BY <1>2, <1>4, <1>5, <1>7, <1>t, RemovalIInv

(* The destructors of the event and the control stream touch nothing of this; a
   writing thread that wakes does not either. *)
LEMMA WithoutMediaIInv ==
  ASSUME IInv, StopEvent \/ \E s \in {"event", "control"} : JoinStream(s)
  PROVE  IInv'
<1>t. sink_running \in BOOLEAN /\ running \in BOOLEAN /\ consumer \in {"none", "sink", "listed"}
      /\ asleep \subseteq {"event", "control"}
  BY DEF IInv, TypeOK
<1>1. CleanerSteps("stop_event") \/ CleanerSteps("join_event") \/ CleanerSteps("join_control")
  BY DEF StopEvent, JoinStream
<1>2. UNCHANGED <<calls, accepted, todo, turn, pre_roll, gate_open, forwarder, frame, gone,
                  last_live, stragglers, opened, events, media, listeners>>
  BY <1>1 DEF CleanerSteps
<1>3. cleaner \in WithoutMedia /\ cleaner' \in WithoutMedia
  BY <1>1, CleanerMoves DEF CleanerSteps, WithoutMedia
<1>4. UNCHANGED <<sink_running, audio_queue, playout, running, consumer>>
      /\ asleep' \subseteq {"event", "control"}
  BY <1>t DEF StopEvent, JoinStream
<1>5. cleaner' \in StageName \ {"none"} /\ Joined'
  BY <1>2, <1>3, <1>4, StageNames DEF IInv, Joined, WithoutMedia
<1> QED  BY <1>2, <1>4, <1>5, <1>t, RemovalIInv

LEMMA WriterWakesIInv ==
  ASSUME IInv, NEW s \in {"event", "control"}, WriterWakes(s)
  PROVE  IInv'
<1>0. /\ UNCHANGED sink_vars /\ UNCHANGED play_vars /\ UNCHANGED stream_vars
      /\ UNCHANGED wire_vars /\ cleaner' = cleaner /\ asleep' = asleep \ {s}
  BY DEF WriterWakes
<1>1. TypeOK'
  BY <1>0 DEF IInv, TypeOK, Notifying, sink_vars, play_vars, stream_vars, wire_vars
<1>2. QueueIsNewest' /\ WrittenOnce' /\ OneInFlight' /\ NothingQueued'
  BY <1>0 DEF IInv, QueueIsNewest, CallIsCounted, WrittenOnce, OneInFlight, NothingQueued, InHand,
              sink_vars, play_vars, stream_vars
<1>3. NothingSkipped'
  BY <1>0 DEF IInv, NothingSkipped, Settled, Passing, InHand, stream_vars, wire_vars
<1>4. OneMediaCall' /\ Wiring' /\ Joined'
  BY <1>0 DEF IInv, OneMediaCall, Wiring, Wired, Joined, play_vars, stream_vars, wire_vars
<1> QED  BY <1>1, <1>2, <1>3, <1>4 DEF IInv

-----------------------------------------------------------------------------
LEMMA NextIInv == IInv /\ [Next]_vars => IInv'
<1> SUFFICES ASSUME IInv, [Next]_vars PROVE IInv'
  OBVIOUS
<1>1. CASE OnData \/ Playout
  BY <1>1, OnDataIInv, PushFrameIInv, EventIInv, CopyPreRollIInv, SendPreRollIInv, OpenGateIInv,
     CloseGateIInv DEF Playout
<1>2. CASE Forward
  BY <1>2, TestRunningIInv, GetNextFrameIInv, StorePreRollIInv, TestGateIInv, SendFrameIInv
     DEF Forward
<1>3. CASE AttachEvents \/ WireEvents \/ AttachMedia \/ WireMedia
  BY <1>3, EventsIInv, AttachMediaIInv, WireMediaIInv
<1>4. CASE AddSink \/ ListConsumer \/ HangUp
  BY <1>4, AddSinkIInv, ListConsumerIInv, HangUpIInv
<1>5. CASE RemoveSession \/ Remove
  BY <1>5, BeforePlayoutIInv, FromPlayoutIInv, WithoutMediaIInv DEF Remove
<1>7. CASE \E s \in {"event", "control"} : JoinStream(s) \/ WriterWakes(s)
  BY <1>7, WithoutMediaIInv, WriterWakesIInv
<1>6. CASE UNCHANGED vars
  <2>1. UNCHANGED sink_vars /\ UNCHANGED play_vars /\ UNCHANGED stream_vars /\ UNCHANGED wire_vars
        /\ UNCHANGED removal_vars
    BY <1>6 DEF vars
  <2>2. events' \in HandlerPc /\ media' \in HandlerPc /\ listeners' \in 0..2 /\ listeners' >= listeners
        /\ consumer' = consumer /\ consumer \in {"none", "sink", "listed"} /\ media' = media
    BY <2>1 DEF IInv, TypeOK, wire_vars
  <2>3. Wiring'
    BY <2>1 DEF IInv, Wiring, Wired, wire_vars
  <2> QED  BY <2>1, <2>2, <2>3, WiringStepIInv
<1> QED  BY <1>1, <1>2, <1>3, <1>4, <1>5, <1>6, <1>7 DEF Next

LEMMA Invariance == Spec => []IInv
<1> QED  BY InitIInv, NextIInv, PTL DEF Spec

(* Every variable keeps its type: no capacity is exceeded, no listener is
   notified twice, no frame is taken that was not accepted. *)
THEOREM TypeCorrect == Spec => []TypeOK
<1>1. IInv => TypeOK
  BY DEF IInv
<1> QED  BY <1>1, Invariance, PTL

(* After the gate is closed at most the frame whose gate was tested before is
   written. *)
THEOREM SilenceIsSuppressed == Spec => []OneStraggler
<1>1. IInv => OneStraggler
  BY DEF IInv, OneInFlight, OneStraggler, TypeOK
<1> QED  BY <1>1, Invariance, PTL

(* Whichever of the Events and the Media handler comes first, and wherever they
   are when the other runs: once both are through a listener is registered. *)
THEOREM TurnsReachTheGate == Spec => []Wired
<1>1. IInv => Wired
  BY DEF IInv, Wiring
<1> QED  BY <1>1, Invariance, PTL

(* When the stream is destroyed, the playout thread, which calls its listener,
   and the forwarding thread have ended. *)
THEOREM StreamsAreFreedInQuiet == Spec => []QuietWhenFreed
<1>1. ASSUME IInv, StageOf(cleaner) > StageOf("join_media") PROVE cleaner \in WithoutMedia
  <2>1. cleaner \in StageName
    BY <1>1 DEF IInv, TypeOK, StageName
  <2> QED  BY <2>1, <1>1, StageNames, StagesInOrder DEF WithoutMedia
<1>2. IInv => QuietWhenFreed
  BY <1>1 DEF IInv, Joined, QuietWhenFreed
<1> QED  BY <1>2, Invariance, PTL

(* Frames are written at most once, in order, and without a gap but between
   turns, whatever the playout thread, the handlers and the client do beside. *)
THEOREM FramesAreWrittenInOrder == Spec => LiveInOrder
<1> DEFINE Written == last_live' # last_live =>
                        /\ last_live' > last_live
                        /\ cleaner = "none" => last_live' = last_live + 1 \/ last_live' <= opened + 1
<1>1. ASSUME IInv, [Next]_vars PROVE Written
  <2>1. CASE SendFrame
    <3>1. last_live' # last_live => running /\ consumer = "listed" /\ ~gone /\ last_live' = frame
      BY <2>1 DEF SendFrame
    <3>2. forwarder = "send" /\ InHand /\ Settled = frame - 1
      BY <2>1 DEF SendFrame, ForwarderSteps, InHand, Settled
    <3>3. /\ frame \in Nat /\ last_live \in Nat /\ opened \in Nat
          /\ last_live < frame
      BY <3>2, <1>1 DEF IInv, TypeOK, WrittenOnce
    <3>4. running /\ consumer = "listed" /\ ~gone /\ cleaner = "none" /\ frame - 1 > opened
            => last_live = frame - 1
      BY <3>2, <1>1 DEF IInv, NothingSkipped, Passing
    <3>5. ASSUME last_live' # last_live PROVE last_live' > last_live
      BY <3>5, <3>1, <3>3
    <3>6. ASSUME last_live' # last_live, cleaner = "none"
          PROVE  last_live' = last_live + 1 \/ last_live' <= opened + 1
      BY <3>6, <3>1, <3>3, <3>4
    <3> QED  BY <3>5, <3>6
  <2>2. CASE ~SendFrame
    <3>1. last_live' = last_live
      <4>1. CASE OnData \/ Playout
        BY <4>1 DEF OnData, Playout, PushFrame, NoEvent, SpeechStarted, UserTurnComplete, CopyPreRoll,
                    SendPreRoll, OpenGate, CloseGate, stream_vars
      <4>2. CASE Forward
        BY <4>2, <2>2 DEF Forward, TestRunning, GetNextFrame, StorePreRoll, TestGate
      <4>3. CASE AttachEvents \/ WireEvents \/ AttachMedia \/ WireMedia \/ AddSink \/ ListConsumer
                   \/ HangUp
        BY <4>3 DEF AttachEvents, WireEvents, AttachMedia, WireMedia, AddSink, ListConsumer, HangUp,
                    stream_vars
      <4>4. CASE RemoveSession \/ Remove
        BY <4>4 DEF RemoveSession, Remove, StopSink, DrainSink, LockConsumers, RemoveSink, StopStreams,
                    ClearConsumers, StopPlayout, StopCommands, StopMedia, JoinMedia, StopEvent, CleanerSteps
      <4>6. CASE \E s \in {"event", "control"} : JoinStream(s) \/ WriterWakes(s)
        BY <4>6 DEF JoinStream, WriterWakes, CleanerSteps, stream_vars
      <4>5. CASE UNCHANGED vars
        BY <4>5 DEF vars, stream_vars
      <4> QED  BY <4>1, <4>2, <4>3, <4>4, <4>5, <4>6, <1>1 DEF Next
    <3> QED  BY <3>1
  <2> QED  BY <2>1, <2>2
<1>2. IInv /\ [Next]_vars => [Written]_vars
  BY <1>1
<1> QED  BY <1>2, Invariance, PTL DEF Spec, LiveInOrder
=============================================================================
