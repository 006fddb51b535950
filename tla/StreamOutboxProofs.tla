-------------------------- MODULE StreamOutboxProofs --------------------------
(***************************************************************************)
(* The order of what a stream writes, proved for any number of producers   *)
(* and messages and for both classes of stream.                            *)
(***************************************************************************)
EXTENDS StreamOutbox, SequenceTheorems, TLAPS

-----------------------------------------------------------------------------
(* The inductive invariant.  It says of each place a message can be in which
   messages are there: the wire has the oldest, the writing thread the next one,
   the queue the newest. *)
QueueInOrder ==
  /\ Len(writing) + Len(queue) <= queued
  /\ \A i \in 1..Len(queue) : queue[i] = queued - Len(queue) + i
  /\ outgoing = "write" => writing = <<queued - Len(queue)>>

Written == queued - Len(queue) - Len(writing)

WireInOrder ==
  /\ \A j, k \in 1..Len(wire) :
       j < k /\ wire[j] # Ack /\ wire[k] # Ack => wire[j] < wire[k]
  /\ \A k \in 1..Len(wire) : wire[k] <= Written
  /\ ~gone => \A m \in 1..Written : \E k \in 1..Len(wire) : wire[k] = m

IInv == TypeOK /\ QueueInOrder /\ WireInOrder

LEMMA Lengths ==
  ASSUME TypeOK
  PROVE  /\ Len(queue) \in Nat /\ Len(writing) \in Nat /\ Len(wire) \in Nat
         /\ MaxMessages \in Nat /\ queued \in Nat /\ queued <= MaxMessages
         /\ outgoing # "write" => writing = <<>> /\ Len(writing) = 0
         /\ \A k \in 1..Len(wire) : wire[k] \in Nat
<1>1. queued \in 0..MaxMessages /\ MaxMessages \in Nat
  BY OutboxAssumption DEF TypeOK
<1>2. Len(queue) \in Nat /\ Len(writing) \in Nat /\ Len(wire) \in Nat
  BY LenProperties DEF TypeOK
<1>3. Len(<<>>) = 0
  BY EmptySeq
<1>4. \A k \in 1..Len(wire) : wire[k] \in Nat
  <2>1. \A k \in 1..Len(wire) : wire[k] \in Message \cup {Ack}
    BY ElementOfSeq DEF TypeOK
  <2> QED  BY <2>1 DEF Message, Ack
<1> QED  BY <1>1, <1>2, <1>3, <1>4 DEF TypeOK

LEMMA InitIInv == Init => IInv
<1> SUFFICES ASSUME Init PROVE IInv
  OBVIOUS
<1>1. /\ <<>> \in Seq(Message) /\ <<>> \in Seq(Message \cup {Ack}) /\ Len(<<>>) = 0
  BY EmptySeq
<1>2. TypeOK
  <2>1. queued \in 0..MaxMessages /\ Len(writing) <= 1 /\ writing = <<>>
    BY <1>1, OutboxAssumption DEF Init
  <2>2. queue \in Seq(Message) /\ writing \in Seq(Message) /\ wire \in Seq(Message \cup {Ack})
    BY <1>1 DEF Init
  <2> QED  BY <2>1, <2>2 DEF Init, TypeOK, OutgoingPc, IncomingPc, HandlerPc, RemoverPc
<1>3. QueueInOrder
  BY <1>1 DEF Init, QueueInOrder
<1>4. WireInOrder
  BY <1>1 DEF Init, WireInOrder, Written
<1> QED  BY <1>2, <1>3, <1>4 DEF IInv

(* Steps of the threads that touch no message. *)
LEMMA ControlStepIInv ==
  ASSUME IInv, UNCHANGED <<kind, queue, writing, queued, wire>>,
         running' \in BOOLEAN, gone' \in BOOLEAN, gone => gone',
         outgoing' \in OutgoingPc, (outgoing' = "write") <=> (outgoing = "write"),
         incoming' \in IncomingPc, handler' \in HandlerPc, remover' \in RemoverPc,
         notifier' \subseteq Producer
  PROVE  IInv'
<1>1. TypeOK'
  BY DEF IInv, TypeOK
<1>2. QueueInOrder'
  BY DEF IInv, QueueInOrder
<1>3. WireInOrder'
  BY DEF IInv, TypeOK, WireInOrder, Written
<1> QED  BY <1>1, <1>2, <1>3 DEF IInv

LEMMA QueueMessageIInv ==
  ASSUME IInv, NEW p \in Producer, QueueMessage(p)
  PROVE  IInv'
<1>0. /\ TypeOK /\ queue' = Append(queue, queued + 1) /\ queued' = queued + 1
      /\ queued < MaxMessages /\ notifier' = notifier \cup {p}
      /\ UNCHANGED <<kind, running, outgoing, incoming, handler, remover, writing, wire, gone>>
  BY DEF IInv, QueueMessage
<1>1. queued + 1 \in Message
  BY <1>0, Lengths DEF Message
<1>2. /\ queue \in Seq(Message) /\ queue' \in Seq(Message)
      /\ Len(queue') = Len(queue) + 1
      /\ \A i \in 1..Len(queue) : queue'[i] = queue[i]
      /\ queue'[Len(queue) + 1] = queued + 1
  BY <1>0, <1>1, AppendProperties DEF TypeOK
<1>3. TypeOK'
  BY <1>0, <1>1, <1>2 DEF TypeOK, Message
<1>4. QueueInOrder'
  <2>1. \A i \in 1..Len(queue') : queue'[i] = queued' - Len(queue') + i
    <3> SUFFICES ASSUME NEW i \in 1..(Len(queue) + 1)
                 PROVE  queue'[i] = queued' - Len(queue') + i
      BY <1>2
    <3>1. i \in 1..Len(queue) \/ i = Len(queue) + 1
      BY <1>0, Lengths
    <3>2. CASE i \in 1..Len(queue)
      BY <1>0, <1>2, <3>2, Lengths DEF IInv, QueueInOrder
    <3>3. CASE i = Len(queue) + 1
      BY <1>0, <1>2, <3>3, Lengths
    <3> QED  BY <3>1, <3>2, <3>3
  <2>2. queued' - Len(queue') = queued - Len(queue)
    BY <1>0, <1>2, Lengths
  <2> QED  BY <1>0, <1>2, <2>1, <2>2, Lengths DEF IInv, QueueInOrder
<1>5. WireInOrder'
  <2>1. Written' = Written
    BY <1>0, <1>2, Lengths DEF Written
  <2> QED  BY <1>0, <2>1 DEF IInv, WireInOrder
<1> QED  BY <1>3, <1>4, <1>5 DEF IInv

LEMMA TakeIInv ==
  ASSUME IInv, Take
  PROVE  IInv'
<1>0. /\ TypeOK /\ outgoing = "drain" /\ queue # <<>> /\ queue \in Seq(Message)
      /\ writing' = <<Head(queue)>> /\ queue' = Tail(queue) /\ outgoing' = "write"
      /\ UNCHANGED <<kind, running, incoming, handler, remover, notifier, queued, wire, gone>>
  BY DEF IInv, Take, TypeOK
<1>1. /\ Len(queue) > 0 /\ Head(queue) = queue[1] /\ Head(queue) \in Message
      /\ queue' \in Seq(Message) /\ Len(queue') = Len(queue) - 1
      /\ \A i \in 1..Len(queue') : queue'[i] = queue[i + 1]
  <2>1. Len(queue) # 0
    BY <1>0, EmptySeq
  <2>2. Len(queue) > 0
    BY <1>0, <2>1, Lengths
  <2>3. 1 \in 1..Len(queue)
    BY <1>0, <2>2, Lengths
  <2>4. Head(queue) = queue[1] /\ queue[1] \in Message
    BY <1>0, <2>3, ElementOfSeq, HeadTailProperties
  <2> QED  BY <1>0, <2>2, <2>4, HeadTailProperties
<1>2. writing' \in Seq(Message) /\ Len(writing') = 1 /\ writing' # <<>> /\ Len(writing) = 0
  BY <1>0, <1>1, Lengths, EmptySeq
<1>3. TypeOK'
  BY <1>0, <1>1, <1>2 DEF TypeOK, OutgoingPc
<1>4. QueueInOrder'
  <2>1. Head(queue) = queued - (Len(queue) - 1)
    BY <1>0, <1>1, Lengths DEF IInv, QueueInOrder
  <2>2. \A i \in 1..Len(queue') : queue'[i] = queued' - Len(queue') + i
    <3> SUFFICES ASSUME NEW i \in 1..(Len(queue) - 1)
                 PROVE  queue'[i] = queued - (Len(queue) - 1) + i
      BY <1>0, <1>1
    <3>1. i + 1 \in 1..Len(queue)
      BY <1>0, Lengths
    <3>2. queue[i + 1] = queued - Len(queue) + (i + 1)
      BY <3>1 DEF IInv, QueueInOrder
    <3> QED  BY <1>0, <1>1, <3>2, Lengths
  <2>3. Len(writing') + Len(queue') <= queued'
    BY <1>0, <1>1, <1>2, Lengths DEF IInv, QueueInOrder
  <2> QED  BY <1>0, <1>1, <2>1, <2>2, <2>3 DEF QueueInOrder
<1>5. WireInOrder'
  <2>1. Written' = Written
    BY <1>0, <1>1, <1>2, Lengths DEF Written
  <2> QED  BY <1>0, <2>1 DEF IInv, WireInOrder
<1> QED  BY <1>3, <1>4, <1>5 DEF IInv

(* What is written is the message after all that were. *)
LEMMA WriteReturnsIInv ==
  ASSUME IInv, WriteReturns
  PROVE  IInv'
<1>0. /\ TypeOK /\ outgoing = "write" /\ writing' = <<>> /\ outgoing' = "drain"
      /\ wire' = IF gone THEN wire ELSE wire \o writing
      /\ UNCHANGED <<kind, running, queue, incoming, handler, remover, notifier, queued, gone>>
  BY DEF IInv, WriteReturns
<1> DEFINE m == queued - Len(queue)
<1>1. writing = <<m>> /\ Len(writing) = 1 /\ writing \in Seq(Message) /\ m \in Message
  <2>1. writing = <<m>> /\ writing \in Seq(Message)
    BY <1>0 DEF IInv, QueueInOrder, TypeOK
  <2> HIDE DEF m
  <2>2. Len(<<m>>) = 1 /\ <<m>>[1] = m
    OBVIOUS
  <2>3. 1 \in 1..Len(writing)
    BY <2>1, <2>2
  <2> QED  BY <2>1, <2>2, <2>3, ElementOfSeq
<1>2. m = Written + 1 /\ Written \in Nat /\ m # Ack /\ m \in Nat
  BY <1>0, <1>1, Lengths DEF Written, IInv, QueueInOrder, Ack, Message
<1>3. Len(writing') = 0 /\ writing' \in Seq(Message)
  BY <1>0, EmptySeq
<1>4. Written' = m
  BY <1>0, <1>3, Lengths DEF Written
<1>5. QueueInOrder'
  BY <1>0, <1>1, <1>3, Lengths DEF IInv, QueueInOrder
<1> HIDE DEF m
<1>6. CASE gone
  <2>1. TypeOK'
    BY <1>0, <1>3, <1>6 DEF TypeOK, OutgoingPc
  <2>2. WireInOrder'
    <3>1. wire' = wire /\ gone'
      BY <1>0, <1>6
    <3>2. \A k \in 1..Len(wire) : wire[k] <= Written + 1
      BY <1>0, <1>2, Lengths DEF IInv, WireInOrder
    <3> QED  BY <1>2, <1>4, <3>1, <3>2 DEF IInv, WireInOrder
  <2> QED  BY <1>5, <2>1, <2>2 DEF IInv
<1>7. CASE ~gone
  <2>1. /\ wire \in Seq(Message \cup {Ack}) /\ writing \in Seq(Message \cup {Ack})
        /\ wire' = wire \o writing
    <3>1. Message \subseteq Message \cup {Ack}
      OBVIOUS
    <3>2. writing \in Seq(Message \cup {Ack})
      BY <1>1, <3>1, SeqMonotonic
    <3> QED  BY <1>0, <1>7, <3>2 DEF TypeOK
  <2>2. /\ wire' \in Seq(Message \cup {Ack})
        /\ Len(wire') = Len(wire) + 1
        /\ \A k \in 1..(Len(wire) + 1) :
             wire'[k] = IF k <= Len(wire) THEN wire[k] ELSE writing[k - Len(wire)]
    BY <1>1, <2>1, ConcatProperties
  <2>3. /\ \A k \in 1..Len(wire) : k \in 1..(Len(wire) + 1) /\ wire'[k] = wire[k]
        /\ Len(wire) + 1 \in 1..(Len(wire) + 1) /\ wire'[Len(wire) + 1] = m
    <3>1. ~(Len(wire) + 1 <= Len(wire)) /\ Len(wire) + 1 - Len(wire) = 1
          /\ Len(wire) + 1 \in 1..(Len(wire) + 1)
          /\ \A k \in 1..Len(wire) : k \in 1..(Len(wire) + 1) /\ k <= Len(wire)
      BY <1>0, Lengths
    <3>2. writing[1] = m
      BY <1>1
    <3> QED  BY <2>2, <3>1, <3>2
  <2>4. TypeOK'
    BY <1>0, <1>3, <2>2 DEF TypeOK, OutgoingPc
  <2>5. \A k \in 1..Len(wire) : wire[k] <= Written /\ wire[k] < m /\ wire[k] <= m
    BY <1>0, <1>2, Lengths DEF IInv, WireInOrder
  <2>6. ASSUME NEW k \in 1..(Len(wire) + 1)
        PROVE  k \in 1..Len(wire) \/ k = Len(wire) + 1
    BY <1>0, Lengths
  <2>7. ASSUME NEW j \in 1..Len(wire'), NEW k \in 1..Len(wire'),
               j < k, wire'[j] # Ack, wire'[k] # Ack
        PROVE  wire'[j] < wire'[k]
    <3>1. j \in 1..Len(wire)
      BY <1>0, <2>2, <2>7, Lengths
    <3>2. CASE k \in 1..Len(wire)
      BY <2>3, <2>7, <3>1, <3>2 DEF IInv, WireInOrder
    <3>3. CASE k = Len(wire) + 1
      BY <2>3, <2>5, <3>1, <3>3
    <3> QED  BY <2>2, <2>6, <3>2, <3>3
  <2>8. \A k \in 1..Len(wire') : wire'[k] <= Written'
    BY <1>2, <1>4, <2>2, <2>3, <2>5, <2>6
  <2>9. ASSUME NEW n \in 1..Written' PROVE \E k \in 1..Len(wire') : wire'[k] = n
    <3>1. n \in 1..Written \/ n = m
      BY <1>2, <1>4
    <3>2. CASE n \in 1..Written
      <4>1. PICK k \in 1..Len(wire) : wire[k] = n
        BY <1>7, <3>2 DEF IInv, WireInOrder
      <4> QED  BY <2>2, <2>3, <4>1
    <3>3. CASE n = m
      BY <2>2, <2>3, <3>3
    <3> QED  BY <3>1, <3>2, <3>3
  <2>10. WireInOrder'
    BY <2>7, <2>8, <2>9 DEF WireInOrder
  <2> QED  BY <1>5, <2>4, <2>10 DEF IInv
<1> QED  BY <1>6, <1>7

(* The acknowledgement gets between the messages and disturbs no order. *)
LEMMA AckWrittenIInv ==
  ASSUME IInv, AckWritten
  PROVE  IInv'
<1>0. /\ TypeOK /\ ~gone /\ handler' = "poll" /\ wire' = Append(wire, Ack)
      /\ UNCHANGED <<kind, running, queue, outgoing, incoming, remover, notifier, writing, queued,
                     gone>>
  BY DEF IInv, AckWritten
<1>1. /\ wire' \in Seq(Message \cup {Ack}) /\ Len(wire') = Len(wire) + 1
      /\ \A k \in 1..Len(wire) : wire'[k] = wire[k]
      /\ wire'[Len(wire) + 1] = Ack
  BY <1>0, AppendProperties DEF TypeOK
<1>2. ASSUME NEW k \in 1..Len(wire') PROVE k \in 1..Len(wire) \/ k = Len(wire) + 1
  BY <1>0, <1>1, Lengths
<1>3. \A k \in 1..Len(wire) : k \in 1..Len(wire')
  BY <1>0, <1>1, Lengths
<1>4. TypeOK' /\ QueueInOrder'
  BY <1>0, <1>1 DEF IInv, TypeOK, QueueInOrder, HandlerPc
<1>5. Written' = Written /\ Ack <= Written
  BY <1>0, Lengths DEF IInv, QueueInOrder, Written, Ack
<1>6. WireInOrder'
  <2>1. ASSUME NEW j \in 1..Len(wire'), NEW k \in 1..Len(wire'),
               j < k, wire'[j] # Ack, wire'[k] # Ack
        PROVE  wire'[j] < wire'[k]
    <3>1. j \in 1..Len(wire) /\ k \in 1..Len(wire)
      BY <1>1, <1>2, <2>1
    <3> QED  BY <1>1, <2>1, <3>1 DEF IInv, WireInOrder
  <2>2. \A k \in 1..Len(wire') : wire'[k] <= Written'
    BY <1>1, <1>2, <1>5 DEF IInv, WireInOrder
  <2>3. \A n \in 1..Written' : \E k \in 1..Len(wire') : wire'[k] = n
    BY <1>0, <1>1, <1>3, <1>5 DEF IInv, WireInOrder
  <2> QED  BY <2>1, <2>2, <2>3 DEF WireInOrder
<1> QED  BY <1>4, <1>6 DEF IInv

LEMMA NextIInv == IInv /\ [Next]_vars => IInv'
<1> SUFFICES ASSUME IInv, [Next]_vars PROVE IInv'
  OBVIOUS
<1>0. /\ running \in BOOLEAN /\ gone \in BOOLEAN /\ outgoing \in OutgoingPc
      /\ incoming \in IncomingPc /\ handler \in HandlerPc /\ remover \in RemoverPc
      /\ notifier \subseteq Producer
  BY DEF IInv, TypeOK
<1>1. Woken \in OutgoingPc /\ (Woken = "write" <=> outgoing = "write")
  BY <1>0 DEF Woken, OutgoingPc
<1>2. ASSUME NEW p \in Producer, QueueMessage(p) \/ NotifyOne(p) PROVE IInv'
  <2>1. CASE NotifyOne(p)
    BY <1>0, <1>1, <2>1, ControlStepIInv DEF NotifyOne
  <2> QED  BY <1>2, <2>1, QueueMessageIInv
<1>3. CASE Outgoing \/ WakeSpuriously
  <2>1. ASSUME NEW from \in OutgoingPc \ {"write"}, NEW to \in OutgoingPc \ {"write"},
               OutgoingSteps(from, to)
        PROVE  IInv'
    BY <1>0, <2>1, ControlStepIInv DEF OutgoingSteps
  <2>2. CASE \/ Top \/ TestPredicate \/ Block \/ ReadyControl \/ ReadyEvent \/ Drained
             \/ WakeSpuriously
    BY <2>1, <2>2 DEF Top, TestPredicate, Block, ReadyControl, ReadyEvent, Drained,
                      WakeSpuriously, OutgoingPc
  <2> QED  BY <1>3, <2>2, TakeIInv, WriteReturnsIInv DEF Outgoing
<1>4. CASE Incoming \/ ReadMessage
  <2>1. ASSUME NEW from \in IncomingPc, NEW to \in IncomingPc, IncomingSteps(from, to)
        PROVE  IInv'
    BY <1>0, <2>1, ControlStepIInv DEF IncomingSteps
  <2>2. CASE TestRunning \/ ReadMessage \/ ReadFails \/ IncomingEndEvent
    BY <2>1, <2>2 DEF TestRunning, ReadMessage, ReadFails, IncomingEndEvent, IncomingPc
  <2>3. CASE IncomingStopControl \/ IncomingNotify
    BY <1>0, <1>1, <2>3, ControlStepIInv DEF IncomingStopControl, IncomingNotify, IncomingPc
  <2> QED  BY <1>4, <2>2, <2>3 DEF Incoming
<1>5. CASE AckFails \/ RemoveSession \/ Destroy \/ HangUp
  <2>1. ASSUME NEW from \in RemoverPc, NEW to \in RemoverPc, RemoverSteps(from, to)
        PROVE  IInv'
    BY <1>0, <2>1, ControlStepIInv DEF RemoverSteps
  <2>2. CASE RemoveSession \/ JoinIncoming \/ JoinOutgoing
    BY <2>1, <2>2 DEF RemoveSession, JoinIncoming, JoinOutgoing, RemoverPc
  <2>3. ASSUME NEW from \in RemoverPc, NEW to \in RemoverPc, NEW next \in RemoverPc,
               StopAt(from, to, next) \/ NotifyAllAt(from, next)
        PROVE  IInv'
    BY <1>0, <1>1, <2>3, ControlStepIInv DEF StopAt, NotifyAllAt
  <2>4. CASE StopAllStreams \/ StopInDestructor
    BY <2>3, <2>4 DEF StopAllStreams, StopInDestructor, RemoverPc
  <2>5. CASE AckFails \/ HangUp
    BY <1>0, <2>5, ControlStepIInv DEF AckFails, HangUp, HandlerPc
  <2> QED  BY <1>5, <2>2, <2>4, <2>5 DEF Destroy
<1>6. CASE UNCHANGED vars
  BY <1>0, <1>6, ControlStepIInv DEF vars
<1> QED  BY <1>2, <1>3, <1>4, <1>5, <1>6, AckWrittenIInv DEF Next

LEMMA Invariance == Spec => []IInv
BY InitIInv, NextIInv, PTL DEF Spec

-----------------------------------------------------------------------------
(* The outbox and its threads have their types; the writing thread has a message
   in hand just while it writes. *)
THEOREM TypeCorrect == Spec => []TypeOK
BY Invariance, PTL DEF IInv

(* However the producers, the two threads of the stream, the handler and the
   client interleave, what is written is in the order in which it was queued, no
   message twice and none skipped before the client hangs up. *)
THEOREM MessagesAreSentInOrder == Spec => []SentInOrder
<1>1. IInv => SentInOrder
  <2> SUFFICES ASSUME IInv PROVE SentInOrder
    OBVIOUS
  <2> DEFINE u == Unwritten
             n == Len(writing) + Len(queue)
  <2>0. TypeOK /\ queue \in Seq(Message) /\ writing \in Seq(Message) /\ Message \subseteq Int
    BY DEF IInv, TypeOK, Message
  <2>1. /\ u \in Seq(Message) /\ Len(u) = n
        /\ \A k \in 1..n : u[k] = IF k <= Len(writing) THEN writing[k] ELSE queue[k - Len(writing)]
        /\ DOMAIN u = 1..Len(u) /\ u \in [1..Len(u) -> Message]
    BY <2>0, ConcatProperties, LenProperties DEF Unwritten
  <2>2. Handled = Written
    BY <2>0, <2>1, Lengths DEF Handled, Written
  <2>3. ASSUME NEW k \in 1..n PROVE u[k] = Written + k
    <3>1. CASE k <= Len(writing)
      <4>0. Len(writing) <= 1 /\ Len(writing) \in Nat /\ n \in Nat
        BY <2>0, Lengths DEF TypeOK
      <4>1. outgoing = "write" /\ Len(writing) = 1 /\ k = 1
        <5>1. k \in Nat /\ k >= 1
          BY <4>0
        <5>2. Len(writing) = 1 /\ k = 1
          BY <3>1, <4>0, <5>1
        <5> QED  BY <2>0, <5>2, Lengths
      <4>2. writing[1] = queued - Len(queue)
        BY <4>1 DEF IInv, QueueInOrder
      <4> QED  BY <2>0, <2>1, <4>1, <4>2, Lengths DEF Written
    <3>2. CASE k > Len(writing)
      <4>1. k - Len(writing) \in 1..Len(queue) /\ ~(k <= Len(writing))
        BY <2>0, <3>2, Lengths
      <4>2. queue[k - Len(writing)] = queued - Len(queue) + (k - Len(writing))
        BY <4>1 DEF IInv, QueueInOrder
      <4>3. u[k] = queue[k - Len(writing)]
        BY <2>1, <4>1
      <4> QED  BY <2>0, <4>2, <4>3, Lengths DEF Written
    <3>3. k <= Len(writing) \/ k > Len(writing)
      BY <2>0, Lengths
    <3> QED  BY <3>1, <3>2, <3>3
  <2> HIDE DEF u, n
  <2>4. u = [k \in 1..Len(u) |-> Written + k]
    BY <2>1, <2>3
  <2> QED  BY <2>2, <2>4 DEF IInv, WireInOrder, SentInOrder, u
<1> QED  BY <1>1, Invariance, PTL

-----------------------------------------------------------------------------
(* What the refinement needs beside the order of the messages: the writing thread
   has ended when the stream is destroyed, and a thread that has ended is not woken. *)
Joined == remover = "destroyed" => outgoing = "done"

LEMMA JoinedInvariant == Spec => []Joined
<1>1. Init => Joined
  BY DEF Init, Joined
<1>2. Joined /\ [Next]_vars => Joined'
  <2> SUFFICES ASSUME Joined, [Next]_vars, remover' = "destroyed" PROVE outgoing' = "done"
    BY DEF Joined
  <2>1. CASE JoinOutgoing
    BY <2>1 DEF JoinOutgoing, RemoverSteps
  <2>2. CASE remover = "destroyed"
    <3>1. outgoing = "done" /\ Woken = "done"
      BY <2>2 DEF Joined, Woken
    <3>2. ASSUME NEW p \in Producer, QueueMessage(p) \/ NotifyOne(p) PROVE outgoing' = "done"
      BY <3>1, <3>2 DEF QueueMessage, NotifyOne
    <3>3. CASE Outgoing \/ WakeSpuriously
      BY <3>1, <3>3 DEF Outgoing, Top, TestPredicate, Block, ReadyControl, ReadyEvent, Take,
                        Drained, WriteReturns, WakeSpuriously, OutgoingSteps
    <3>4. CASE Incoming \/ ReadMessage
      BY <3>1, <3>4 DEF Incoming, TestRunning, ReadFails, IncomingStopControl, IncomingNotify,
                        IncomingEndEvent, ReadMessage, IncomingSteps
    <3>5. CASE AckWritten \/ AckFails \/ RemoveSession \/ Destroy
      BY <2>2, <3>1, <3>5 DEF AckWritten, AckFails, RemoveSession, Destroy, StopAllStreams,
                        StopInDestructor, StopAt, NotifyAllAt, JoinIncoming, JoinOutgoing, RemoverSteps
    <3>6. CASE HangUp \/ UNCHANGED vars
      BY <3>1, <3>6 DEF HangUp, vars
    <3> QED  BY <3>2, <3>3, <3>4, <3>5, <3>6 DEF Next
  <2>3. CASE remover # "destroyed" /\ ~JoinOutgoing
    <3>1. ASSUME NEW p \in Producer, QueueMessage(p) \/ NotifyOne(p) PROVE remover' = remover
      BY <3>1 DEF QueueMessage, NotifyOne
    <3>2. CASE Outgoing \/ WakeSpuriously
      BY <2>3, <3>2 DEF Outgoing, Top, TestPredicate, Block, ReadyControl, ReadyEvent, Take,
                  Drained, WriteReturns, WakeSpuriously, OutgoingSteps
    <3>3. CASE Incoming \/ ReadMessage
      BY <2>3, <3>3 DEF Incoming, TestRunning, ReadFails, IncomingStopControl, IncomingNotify,
                  IncomingEndEvent, ReadMessage, IncomingSteps
    <3>4. CASE AckWritten \/ AckFails \/ RemoveSession \/ Destroy
      BY <2>3, <3>4 DEF AckWritten, AckFails, RemoveSession, Destroy, StopAllStreams,
                        StopInDestructor, StopAt, NotifyAllAt, JoinIncoming, RemoverSteps
    <3>5. CASE HangUp \/ UNCHANGED vars
      BY <2>3, <3>5 DEF HangUp, vars
    <3> QED  BY <2>3, <3>1, <3>2, <3>3, <3>4, <3>5 DEF Next
  <2> QED  BY <2>1, <2>2, <2>3
<1> QED  BY <1>1, <1>2, PTL DEF Spec

(* What the abstract channel has delivered. *)
LEMMA HandledIsWritten == TypeOK => Handled = Written
<1> SUFFICES ASSUME TypeOK PROVE Handled = Written
  OBVIOUS
<1>1. queue \in Seq(Message) /\ writing \in Seq(Message)
  BY DEF TypeOK
<1>2. Len(Unwritten) = Len(writing) + Len(queue)
  BY <1>1, ConcatProperties DEF Unwritten
<1> QED  BY <1>2, Lengths DEF Handled, Written

LEMMA HandledIsWrittenNext == TypeOK' => (Handled = Written)'
BY HandledIsWritten, PTL

(* Only the return of Write delivers. *)
LEMMA DeliveredByWrite ==
  ASSUME IInv, IInv', [Next]_vars
  PROVE  /\ (\E p \in Producer : QueueMessage(p)) => Handled' = Handled
         /\ Take => Handled' = Handled
         /\ UNCHANGED <<queue, writing, queued>> => Handled' = Handled
         /\ WriteReturns => Handled' = Handled + 1 /\ Handled < queued /\ writing = <<Handled + 1>>
<1>1. TypeOK /\ TypeOK' /\ QueueInOrder
  BY DEF IInv
<1>2. Handled = Written /\ Handled' = Written'
  BY <1>1, HandledIsWritten, HandledIsWrittenNext
<1>3. queue \in Seq(Message) /\ writing \in Seq(Message)
  BY <1>1 DEF TypeOK
<1>4. /\ Len(queue) \in Nat /\ Len(writing) \in Nat /\ queued \in Nat
      /\ outgoing # "write" => Len(writing) = 0
  BY <1>1, Lengths
<1>5. ASSUME NEW p \in Producer, QueueMessage(p) PROVE Handled' = Handled
  <2>1. queued + 1 \in Message
    BY <1>4, <1>5, <1>1 DEF QueueMessage, Message, TypeOK
  <2>2. Len(queue') = Len(queue) + 1 /\ queued' = queued + 1 /\ writing' = writing
    BY <1>3, <1>5, <2>1, AppendProperties DEF QueueMessage
  <2> QED  BY <1>2, <1>4, <2>2 DEF Written
<1>6. ASSUME Take PROVE Handled' = Handled
  <2>1. queue' = Tail(queue) /\ queue # <<>> /\ writing' = <<Head(queue)>> /\ queued' = queued
        /\ outgoing = "drain"
    BY <1>6 DEF Take
  <2>2. Len(queue') = Len(queue) - 1
    BY <1>3, <2>1, HeadTailProperties
  <2>3. Len(writing') = 1 /\ Len(writing) = 0
    BY <1>4, <2>1
  <2> QED  BY <1>2, <1>4, <2>1, <2>2, <2>3 DEF Written
<1>7. ASSUME UNCHANGED <<queue, writing, queued>> PROVE Handled' = Handled
  BY <1>2, <1>7 DEF Written
<1>8. ASSUME WriteReturns
      PROVE  Handled' = Handled + 1 /\ Handled < queued /\ writing = <<Handled + 1>>
  <2>1. writing' = <<>> /\ queue' = queue /\ queued' = queued /\ outgoing = "write"
    BY <1>8 DEF WriteReturns
  <2>2. writing = <<queued - Len(queue)>>
    BY <1>1, <2>1 DEF QueueInOrder
  <2>3. Len(writing) = 1 /\ Len(writing') = 0
    BY <2>1, <2>2
  <2>4. Written = queued - Len(queue) - 1 /\ Written' = queued - Len(queue)
    BY <2>1, <2>3, <1>4 DEF Written
  <2>5. queued - Len(queue) = Written + 1 /\ Written < queued
    BY <1>4, <2>4
  <2> QED  BY <1>2, <2>2, <2>4, <2>5
<1> QED  BY <1>5, <1>6, <1>7, <1>8

(* A ControlStream and an EventStream are ordered channels: whatever their threads,
   the producers, the handler, the client and whoever removes the session do, each
   step is one of the channel or invisible in it.  No message follows the destructor;
   the greeting, which the handler of the call writes, may. *)
THEOREM Implementation == Spec => ImplementsChannel
<1>1. Init => Channel!Init
  <2> SUFFICES ASSUME Init PROVE Channel!Init
    OBVIOUS
  <2>1. IInv
    BY InitIInv
  <2>2. Handled = Written
    BY <2>1, HandledIsWritten DEF IInv
  <2>3. Written = 0
    <3>1. queued = 0 /\ Len(queue) = 0 /\ Len(writing) = 0
      BY DEF Init
    <3> QED  BY <3>1 DEF Written
  <2> QED  BY <2>2, <2>3 DEF Init, Channel!Init
<1>2. IInv /\ IInv' /\ Joined /\ Joined' /\ [Next]_vars => [Channel!Next]_(Channel!vars)
  <2> SUFFICES ASSUME IInv, IInv', Joined, Joined', [Next]_vars
               PROVE  Channel!Next \/ UNCHANGED Channel!vars
    OBVIOUS
  <2>1. ASSUME NEW p \in Producer, QueueMessage(p) PROVE Channel!Send
    <3>1. Handled' = Handled
      BY <2>1, DeliveredByWrite
    <3> QED  BY <2>1, <3>1 DEF QueueMessage, Channel!Send
  <2>2. CASE WriteReturns
    <3>1. Handled' = Handled + 1 /\ Handled < queued /\ writing = <<Handled + 1>>
      BY <2>2, DeliveredByWrite
    <3>2. remover # "destroyed"
      BY <2>2 DEF WriteReturns, Joined
    <3>3. wire' = IF gone THEN wire ELSE Append(wire, Handled + 1)
      <4>1. wire \in Seq(Message \cup {Ack}) /\ Handled + 1 \in Message \cup {Ack}
        <5>1. writing \in Seq(Message) /\ Len(writing) = 1
          BY <3>1 DEF IInv, TypeOK
        <5>2. writing[1] \in Message
          BY <5>1, ElementOfSeq
        <5> QED  BY <3>1, <5>2 DEF IInv, TypeOK
      <4>2. Append(wire, Handled + 1) = wire \o <<Handled + 1>>
        BY <4>1, AppendIsConcat
      <4> QED  BY <2>2, <3>1, <4>2 DEF WriteReturns
    <3> QED  BY <2>2, <3>1, <3>2, <3>3 DEF WriteReturns, Channel!Deliver, Channel!Next
  <2>3. CASE AckWritten
    <3>1. Handled' = Handled
      BY <2>3, DeliveredByWrite DEF AckWritten
    <3> QED  BY <2>3, <3>1 DEF AckWritten, Channel!Greet, Channel!Next
  <2>4. CASE HangUp
    <3>1. Handled' = Handled
      BY <2>4, DeliveredByWrite DEF HangUp
    <3> QED  BY <2>4, <3>1 DEF HangUp, Channel!HangUp, Channel!Next
  <2>5. CASE JoinOutgoing
    <3>1. Handled' = Handled
      BY <2>5, DeliveredByWrite DEF JoinOutgoing, RemoverSteps
    <3> QED  BY <2>5, <3>1 DEF JoinOutgoing, RemoverSteps, Channel!Close, Channel!Next
  <2>6. CASE Take
    <3>1. Handled' = Handled
      BY <2>6, DeliveredByWrite
    <3> QED  BY <2>6, <3>1 DEF Take, Channel!vars
  <2>7. ASSUME UNCHANGED <<queue, writing, queued, wire, gone>>, Handled' = Handled,
               (handler = "poll") <=> (handler' = "poll"),
               (remover = "destroyed") <=> (remover' = "destroyed")
        PROVE  UNCHANGED Channel!vars
    BY <2>7 DEF Channel!vars
  <2>8. ASSUME UNCHANGED <<queue, writing, queued, wire, gone, handler, remover>>
        PROVE  UNCHANGED Channel!vars
    BY <2>7, <2>8, DeliveredByWrite
  <2>9. ASSUME NEW p \in Producer, NotifyOne(p) PROVE UNCHANGED Channel!vars
    BY <2>8, <2>9 DEF NotifyOne
  <2>10. CASE \/ Top \/ TestPredicate \/ Block \/ ReadyControl \/ ReadyEvent \/ Drained
              \/ WakeSpuriously
    BY <2>8, <2>10 DEF Top, TestPredicate, Block, ReadyControl, ReadyEvent, Drained,
                       WakeSpuriously, OutgoingSteps
  <2>11. CASE Incoming \/ ReadMessage
    BY <2>8, <2>11 DEF Incoming, TestRunning, ReadFails, IncomingStopControl, IncomingNotify,
                       IncomingEndEvent, ReadMessage, IncomingSteps
  <2>12. CASE AckFails \/ RemoveSession \/ StopAllStreams \/ StopInDestructor \/ JoinIncoming
    <3>1. UNCHANGED <<queue, writing, queued, wire, gone>>
      BY <2>12 DEF AckFails, RemoveSession, StopAllStreams, StopInDestructor, JoinIncoming, StopAt,
                   NotifyAllAt, RemoverSteps
    <3>2. /\ (handler = "poll") <=> (handler' = "poll")
          /\ (remover = "destroyed") <=> (remover' = "destroyed")
      BY <2>12 DEF AckFails, RemoveSession, StopAllStreams, StopInDestructor, JoinIncoming, StopAt,
                   NotifyAllAt, RemoverSteps
    <3> QED  BY <2>7, <3>1, <3>2, DeliveredByWrite
  <2>13. CASE UNCHANGED vars
    BY <2>8, <2>13 DEF vars
  <2> QED
    BY <2>1, <2>2, <2>3, <2>4, <2>5, <2>6, <2>9, <2>10, <2>11, <2>12, <2>13
    DEF Next, Outgoing, Destroy, Channel!Next
<1> QED  BY <1>1, <1>2, Invariance, JoinedInvariant, PTL DEF Spec, Channel!Spec, ImplementsChannel
=============================================================================
