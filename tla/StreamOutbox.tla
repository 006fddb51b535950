---------------------------- MODULE StreamOutbox ----------------------------
(***************************************************************************)
(* ControlStream and EventStream of both engines: the queue of messages to *)
(* the orchestrator, the thread that writes them, the thread that reads,   *)
(* the gRPC handler that attaches the stream to its session and then       *)
(* acknowledges the connection itself, and the thread that removes the     *)
(* session and destroys the stream with it: this handler when its call     *)
(* ends, the handler of another call of the session, or the detached       *)
(* thread of close_session, at any moment.  The two classes are the same   *)
(* outbox and stop differently; kind says which one is meant.              *)
(*                                                                         *)
(* The wait of the condition variable is taken apart: the predicate is     *)
(* evaluated with queue_mutex_ held, and only later does the thread block  *)
(* and release it.  Stop writes running_ without the mutex.                *)
(***************************************************************************)
EXTENDS Naturals, Sequences

CONSTANTS Producer,     \* threads that call QueueMessage or QueueEvent
          MaxMessages   \* bound: messages ever queued

ASSUME OutboxAssumption == MaxMessages \in Nat

Message == 1..MaxMessages  \* numbered in the order in which they are queued
Ack     == 0               \* the acknowledgement the handler writes

VARIABLES kind,      \* "control" or "event": which class this is
          running,   \* running_
          queue,     \* outgoing_queue_, event_queue_
          outgoing,  \* where the writing thread is
          incoming,  \* where the reading thread is
          handler,   \* how far the call has come: "ack", "poll" or "failed"
          remover,   \* how far the removal of the session has come with this stream
          notifier,  \* the producers between their unlock and their notify_one
          writing,   \* the message the writing thread is in Write with
          queued,    \* history: how many messages were queued
          wire,      \* history: what was written, in order
          gone       \* whether the client has hung up

vars == <<kind, running, queue, outgoing, incoming, handler, remover, notifier, writing,
          queued, wire, gone>>

Control == kind = "control"

OutgoingPc == {"top", "test", "block", "waiting", "ready", "drain", "write", "done"}
IncomingPc == {"top", "read", "stop", "notify", "done"}
HandlerPc  == {"ack", "poll", "failed"}
RemoverPc  == {"none", "stop_all", "notify_all", "stop", "notify", "join_incoming",
               "join_outgoing", "destroyed"}

(* Where the writing thread holds queue_mutex_. *)
MutexFree == outgoing \notin {"block", "ready", "drain"}

Init ==
  /\ kind \in {"control", "event"}
  /\ running = TRUE
  /\ queue = <<>>
  /\ outgoing = "top"
  /\ incoming = "top"
  /\ handler = "ack"
  /\ remover = "none"
  /\ notifier = {}
  /\ writing = <<>>
  /\ queued = 0
  /\ wire = <<>>
  /\ gone = FALSE

(* Awakened if it sleeps; a thread that is not in the wait set hears nothing. *)
Woken == IF outgoing = "waiting" THEN "test" ELSE outgoing

-----------------------------------------------------------------------------
(* The producers. *)

(* Bug: the message is pushed without queue_mutex_. *)
QueueUnlocked(p) ==
  /\ p \notin notifier
  /\ remover # "destroyed"
  /\ queued < MaxMessages
  /\ queued' = queued + 1
  /\ queue' = Append(queue, queued + 1)
  /\ notifier' = notifier \cup {p}
  /\ UNCHANGED <<kind, running, outgoing, incoming, handler, remover, writing, wire, gone>>

(* QueueMessage: the critical section.  Nobody looks at running_.  Who calls it
   has ended when the stream is destroyed: see SessionTeardown. *)
QueueMessage(p) ==
  /\ p \notin notifier
  /\ remover # "destroyed"
  /\ queued < MaxMessages
  /\ MutexFree
  /\ queued' = queued + 1
  /\ queue' = Append(queue, queued + 1)
  /\ notifier' = notifier \cup {p}
  /\ UNCHANGED <<kind, running, outgoing, incoming, handler, remover, writing, wire, gone>>

NotifyOne(p) ==
  /\ p \in notifier
  /\ notifier' = notifier \ {p}
  /\ outgoing' = Woken
  /\ UNCHANGED <<kind, running, queue, incoming, handler, remover, writing, queued, wire, gone>>

-----------------------------------------------------------------------------
(* The writing thread. *)

OutgoingSteps(from, to) ==
  /\ outgoing = from
  /\ outgoing' = to
  /\ UNCHANGED <<kind, running, queue, incoming, handler, remover, notifier, writing, queued, wire,
                 gone>>

(* while (running_) *)
Top == OutgoingSteps("top", IF running THEN "test" ELSE "done")

(* The lock, and the predicate of the wait. *)
TestPredicate ==
  OutgoingSteps("test", IF queue # <<>> \/ ~running THEN "ready" ELSE "block")

(* The thread enters the wait set and releases queue_mutex_. *)
Block == OutgoingSteps("block", "waiting")

(* The standard lets a wait end by itself. *)
WakeSpuriously == OutgoingSteps("waiting", "test")

(* if (!running_) break, in ControlStream only: what is queued stays. *)
ReadyControl == Control /\ OutgoingSteps("ready", IF running THEN "drain" ELSE "done")

ReadyEvent == ~Control /\ OutgoingSteps("ready", "drain")

(* Bug: the newest message is taken. *)
TakeNewest ==
  /\ outgoing = "drain"
  /\ queue # <<>>
  /\ writing' = <<queue[Len(queue)]>>
  /\ queue' = SubSeq(queue, 1, Len(queue) - 1)
  /\ outgoing' = "write"
  /\ UNCHANGED <<kind, running, incoming, handler, remover, notifier, queued, wire, gone>>

(* front, pop, unlock; Write begins.  EventStream tests running_ again. *)
Take ==
  /\ outgoing = "drain"
  /\ queue # <<>>
  /\ Control \/ running
  /\ writing' = <<Head(queue)>>
  /\ queue' = Tail(queue)
  /\ outgoing' = "write"
  /\ UNCHANGED <<kind, running, incoming, handler, remover, notifier, queued, wire, gone>>

(* The end of the inner loop releases the mutex. *)
Drained == (queue = <<>> \/ (~Control /\ ~running)) /\ OutgoingSteps("drain", "top")

(* Bug: a Write that fails is tried again. *)
WriteRetries ==
  /\ outgoing = "write"
  /\ ~gone
  /\ wire' = wire \o writing
  /\ writing' = <<>>
  /\ outgoing' = "drain"
  /\ UNCHANGED <<kind, running, queue, incoming, handler, remover, notifier, queued, gone>>

(* Write returns, with false once the client is gone, which is only logged;
   the mutex is taken again. *)
WriteReturns ==
  /\ outgoing = "write"
  /\ wire' = IF gone THEN wire ELSE wire \o writing
  /\ writing' = <<>>
  /\ outgoing' = "drain"
  /\ UNCHANGED <<kind, running, queue, incoming, handler, remover, notifier, queued, gone>>

Outgoing ==
  \/ Top \/ TestPredicate \/ Block \/ ReadyControl \/ ReadyEvent \/ Take \/ Drained
  \/ WriteReturns

-----------------------------------------------------------------------------
(* The reading thread.  What a request makes the engine do is a step of a
   producer. *)

IncomingSteps(from, to) ==
  /\ incoming = from
  /\ incoming' = to
  /\ UNCHANGED <<kind, running, queue, outgoing, handler, remover, notifier, writing, queued, wire,
                 gone>>

TestRunning == IncomingSteps("top", IF running THEN "read" ELSE "stop")

ReadMessage == IncomingSteps("read", "top")

ReadFails == gone /\ IncomingSteps("read", "stop")

(* Only ControlStream stops itself when its reading ends:
   running_.exchange(false), and the notification when that was true. *)
IncomingStopControl ==
  /\ Control
  /\ incoming = "stop"
  /\ incoming' = IF running THEN "notify" ELSE "done"
  /\ running' = FALSE
  /\ UNCHANGED <<kind, queue, outgoing, handler, remover, notifier, writing, queued, wire, gone>>

IncomingNotify ==
  /\ incoming = "notify"
  /\ incoming' = "done"
  /\ outgoing' = Woken
  /\ UNCHANGED <<kind, running, queue, handler, remover, notifier, writing, queued, wire, gone>>

IncomingEndEvent == ~Control /\ IncomingSteps("stop", "done")

Incoming ==
  \/ TestRunning \/ ReadFails \/ IncomingStopControl \/ IncomingNotify \/ IncomingEndEvent

-----------------------------------------------------------------------------
(* The handler. *)

(* Write(connected_ack), on the stream the writing thread already uses, and
   which is the call's own: it is there although the session may be destroyed. *)
AckWritten ==
  /\ handler = "ack"
  /\ ~gone
  /\ handler' = "poll"
  /\ wire' = Append(wire, Ack)
  /\ UNCHANGED <<kind, running, queue, outgoing, incoming, remover, notifier, writing, queued,
                 gone>>

(* The handler returns and leaves the stream object to its session. *)
AckFails ==
  /\ handler = "ack"
  /\ gone
  /\ handler' = "failed"
  /\ UNCHANGED <<kind, running, queue, outgoing, incoming, remover, notifier, writing, queued,
                 wire, gone>>

-----------------------------------------------------------------------------
(* The removal of the session. *)

RemoverSteps(from, to) ==
  /\ remover = from
  /\ remover' = to
  /\ UNCHANGED <<kind, running, queue, outgoing, incoming, handler, notifier, writing, queued,
                 wire, gone>>

(* RemoveSession, in whatever thread: Cleanup begins. *)
RemoveSession == RemoverSteps("none", "stop_all")

(* Stop, from StopAllStreams and again from the destructor. *)
StopAt(from, notify, next) ==
  /\ remover = from
  /\ remover' = IF ~Control \/ running THEN notify ELSE next
  /\ running' = FALSE
  /\ UNCHANGED <<kind, queue, outgoing, incoming, handler, notifier, writing, queued, wire, gone>>

NotifyAllAt(from, next) ==
  /\ remover = from
  /\ remover' = next
  /\ outgoing' = Woken
  /\ UNCHANGED <<kind, running, queue, incoming, handler, notifier, writing, queued, wire, gone>>

StopAllStreams == StopAt("stop_all", "notify_all", "stop") \/ NotifyAllAt("notify_all", "stop")

StopInDestructor ==
  StopAt("stop", "notify", "join_incoming") \/ NotifyAllAt("notify", "join_incoming")

JoinIncoming == incoming = "done" /\ RemoverSteps("join_incoming", "join_outgoing")

(* Bug: the destructor does not wait for the writing thread. *)
DestroyUnjoined == RemoverSteps("join_outgoing", "destroyed")

JoinOutgoing == outgoing = "done" /\ RemoverSteps("join_outgoing", "destroyed")

Destroy == StopAllStreams \/ StopInDestructor \/ JoinIncoming \/ JoinOutgoing

HangUp ==
  /\ ~gone
  /\ gone' = TRUE
  /\ UNCHANGED <<kind, running, queue, outgoing, incoming, handler, remover, notifier, writing,
                 queued, wire>>

-----------------------------------------------------------------------------
Next ==
  \/ \E p \in Producer : QueueMessage(p) \/ NotifyOne(p)
  \/ Outgoing \/ WakeSpuriously
  \/ Incoming \/ ReadMessage
  \/ AckWritten \/ AckFails \/ RemoveSession \/ Destroy
  \/ HangUp

Spec == Init /\ [][Next]_vars

(* Threads run and Write returns.  No wait ends by itself, no call need end,
   and a client hangs up once the engine destroys its stream. *)
Fairness ==
  /\ WF_vars(Outgoing)
  /\ WF_vars(Incoming)
  /\ WF_vars(AckWritten \/ AckFails)
  /\ WF_vars(Destroy)
  /\ \A p \in Producer : WF_vars(NotifyOne(p))
  /\ WF_vars(remover = "join_incoming" /\ HangUp)

FairSpec == Spec /\ Fairness

-----------------------------------------------------------------------------
(* The messages not yet written, and the number of the others. *)
Unwritten == writing \o queue
Handled   == queued - Len(Unwritten)

TypeOK ==
  /\ kind \in {"control", "event"}
  /\ running \in BOOLEAN
  /\ gone \in BOOLEAN
  /\ queue \in Seq(Message)
  /\ writing \in Seq(Message) /\ Len(writing) <= 1
  /\ (outgoing = "write") <=> (writing # <<>>)
  /\ outgoing \in OutgoingPc
  /\ incoming \in IncomingPc
  /\ handler \in HandlerPc
  /\ remover \in RemoverPc
  /\ notifier \subseteq Producer
  /\ queued \in 0..MaxMessages
  /\ wire \in Seq(Message \cup {Ack})

(* What reaches the client is in the order in which it was queued, no message
   twice and none skipped while the client is there; what is yet to be written are
   the newest messages, all of them and in order. *)
SentInOrder ==
  /\ \A j, k \in 1..Len(wire) :
       j < k /\ wire[j] # Ack /\ wire[k] # Ack => wire[j] < wire[k]
  /\ \A k \in 1..Len(wire) : wire[k] <= Handled
  /\ ~gone => \A m \in 1..Handled : \E k \in 1..Len(wire) : wire[k] = m
  /\ Unwritten = [k \in 1..Len(Unwritten) |-> Handled + k]

(* With that, a stream is an ordered channel, whoever removes its session and
   whenever: of what was queued nothing is written when the destructor has
   returned.  The greeting is the handler's, which may write it later still. *)
Channel == INSTANCE OrderedChannel WITH
  Greeting  <- Ack,
  sent      <- queued,
  delivered <- Handled,
  received  <- wire,
  greeted   <- handler = "poll",
  closed    <- remover = "destroyed"

ImplementsChannel == Channel!Spec

(* A queued message is written, unless the stream is stopped or the client
   leaves: no notification of a producer is lost. *)
QueuedIsSent ==
  \A m \in Message :
    (queued >= m) ~> (\/ ~running \/ gone
                      \/ \E k \in 1..Len(wire) : wire[k] = m)

(* The destructor returns, or the writing thread sleeps for good: the last
   notification fell between its predicate and its wait.  There is no other
   place where the destructor can hang, on either class. *)
HangsOnlyAsleep ==
  (remover = "join_incoming") ~> (remover = "destroyed" \/ [](outgoing = "waiting"))
=============================================================================
