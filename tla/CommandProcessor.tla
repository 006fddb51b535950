-------------------------- MODULE CommandProcessor --------------------------
(***************************************************************************)
(* common/src/command_framework.cpp: the queue of commands of a session,  *)
(* the worker thread that executes them, and its owner (the Session),     *)
(* which starts the worker once, stops it in Cleanup and stops it again   *)
(* from ~CommandProcessor.  Clients are the threads that call             *)
(* CommandQueue::Push; the queue is shared, so they may still do so after *)
(* the processor is gone.                                                  *)
(*                                                                         *)
(* One action is one critical section of CommandQueue::mutex_, one access *)
(* to running_, or one wait.                                               *)
(***************************************************************************)
EXTENDS Naturals, Sequences

CONSTANTS Command,     \* the requests, told apart by identity only
          MaxPushes    \* bound: how many Push calls a behaviour makes

ASSUME MaxPushesAssumption == MaxPushes \in Nat

VARIABLES running,    \* CommandProcessor::running_
          stopped,    \* CommandQueue::stopped_
          queue,      \* CommandQueue::queue_
          worker,     \* where RunLoop is
          owner,      \* where the thread that owns the processor is
          pushes,     \* Push calls made so far
          accepted,   \* history: the commands Push put in the queue
          performed,  \* history: the commands the worker took, in order
          finished    \* history: how many of them returned from Execute

vars == <<running, stopped, queue, worker, owner, pushes, accepted, performed, finished>>

history == <<accepted, performed, finished>>

WorkerPc == {"none", "test", "pop", "execute", "sleep", "exited"}
OwnerPc  == {"new", "started", "stopping", "joining", "stopped", "destroyed"}

Init ==
  /\ running = FALSE
  /\ stopped = FALSE
  /\ queue = <<>>
  /\ worker = "none"
  /\ owner = "new"
  /\ pushes = 0
  /\ accepted = <<>>
  /\ performed = <<>>
  /\ finished = 0

-----------------------------------------------------------------------------
(* The clients. *)

(* Bug: a Push that does not look at stopped_. *)
PushUnguarded(c) ==
  /\ owner # "new"
  /\ pushes < MaxPushes
  /\ pushes' = pushes + 1
  /\ queue' = Append(queue, c)
  /\ accepted' = Append(accepted, c)
  /\ UNCHANGED <<running, stopped, worker, owner, performed, finished>>

(* CommandQueue::Push: after Stop the command is dropped without a word, so
   the callback it carries is never invoked. *)
Push(c) ==
  /\ owner # "new"
  /\ pushes < MaxPushes
  /\ pushes' = pushes + 1
  /\ IF stopped
     THEN UNCHANGED <<queue, accepted>>
     ELSE /\ queue' = Append(queue, c)
          /\ accepted' = Append(accepted, c)
  /\ UNCHANGED <<running, stopped, worker, owner, performed, finished>>

-----------------------------------------------------------------------------
(* The worker: RunLoop. *)

(* while (running_) *)
TestRunning ==
  /\ worker = "test"
  /\ worker' = IF running THEN "pop" ELSE "exited"
  /\ UNCHANGED <<running, stopped, queue, owner, pushes, history>>

(* Bug: RunLoop leaves its loop when it finds nothing to do. *)
TryPopExits ==
  /\ worker = "pop"
  /\ IF queue = <<>> \/ stopped
     THEN worker' = "exited" /\ UNCHANGED <<queue, performed>>
     ELSE /\ performed' = Append(performed, Head(queue))
          /\ queue' = Tail(queue)
          /\ worker' = "execute"
  /\ UNCHANGED <<running, stopped, owner, pushes, accepted, finished>>

(* CommandQueue::TryPop, and the branch RunLoop takes on its result. *)
TryPop ==
  /\ worker = "pop"
  /\ IF queue = <<>> \/ stopped
     THEN worker' = "sleep" /\ UNCHANGED <<queue, performed>>
     ELSE /\ performed' = Append(performed, Head(queue))
          /\ queue' = Tail(queue)
          /\ worker' = "execute"
  /\ UNCHANGED <<running, stopped, owner, pushes, accepted, finished>>

(* wrapper->Execute() returns. *)
ExecuteReturns ==
  /\ worker = "execute"
  /\ worker' = "sleep"
  /\ finished' = finished + 1
  /\ UNCHANGED <<running, stopped, queue, owner, pushes, accepted, performed>>

(* sleep_for(1ms) *)
Wake ==
  /\ worker = "sleep"
  /\ worker' = "test"
  /\ UNCHANGED <<running, stopped, queue, owner, pushes, history>>

RunLoop == TestRunning \/ TryPop \/ ExecuteReturns \/ Wake

-----------------------------------------------------------------------------
(* The owner. *)

(* CommandProcessor::Start, called once, from the Session's constructor. *)
Start ==
  /\ owner = "new"
  /\ owner' = "started"
  /\ running' = TRUE
  /\ worker' = "test"
  /\ UNCHANGED <<stopped, queue, pushes, history>>

(* Bug: Stop tests running_ and does not clear it. *)
StopLoads ==
  /\ owner = "started"
  /\ running
  /\ owner' = "stopping"
  /\ UNCHANGED <<running, stopped, queue, worker, pushes, history>>

(* Stop: running_.exchange(false), whose old value decides the early return. *)
StopExchange ==
  /\ owner = "started"
  /\ running
  /\ running' = FALSE
  /\ owner' = "stopping"
  /\ UNCHANGED <<stopped, queue, worker, pushes, history>>

(* CommandQueue::Stop *)
QueueStop ==
  /\ owner = "stopping"
  /\ owner' = "joining"
  /\ stopped' = TRUE
  /\ queue' = <<>>
  /\ UNCHANGED <<running, worker, pushes, history>>

(* Bug: the join is skipped. *)
JoinSkipped ==
  /\ owner = "joining"
  /\ owner' = "stopped"
  /\ UNCHANGED <<running, stopped, queue, worker, pushes, history>>

(* command_thread_.join() *)
Join ==
  /\ owner = "joining"
  /\ worker = "exited"
  /\ owner' = "stopped"
  /\ UNCHANGED <<running, stopped, queue, worker, pushes, history>>

(* ~CommandProcessor: Stop() finds running_ false and returns. *)
Destroy ==
  /\ owner = "stopped"
  /\ ~running
  /\ owner' = "destroyed"
  /\ UNCHANGED <<running, stopped, queue, worker, pushes, history>>

Stop == StopExchange \/ QueueStop \/ Join

Next ==
  \/ \E c \in Command : Push(c)
  \/ RunLoop
  \/ Start
  \/ Stop
  \/ Destroy

Spec == Init /\ [][Next]_vars

(* The threads are scheduled fairly and every Execute returns; nothing makes
   the owner start or stop the processor, or a client push. *)
Fairness == WF_vars(RunLoop) /\ WF_vars(QueueStop) /\ WF_vars(Join)

FairSpec == Spec /\ Fairness

-----------------------------------------------------------------------------
TypeOK ==
  /\ running \in BOOLEAN
  /\ stopped \in BOOLEAN
  /\ queue \in Seq(Command)
  /\ worker \in WorkerPc
  /\ owner \in OwnerPc
  /\ pushes \in 0..MaxPushes
  /\ accepted \in Seq(Command)
  /\ performed \in Seq(Command)
  /\ finished \in 0..Len(performed)

(* When CommandProcessor::Stop has returned, no command is executing, none
   waits, and the thread is gone: ~Session may free what commands use. *)
QuietAfterStop ==
  owner \in {"stopped", "destroyed"} =>
    /\ worker = "exited"
    /\ finished = Len(performed)
    /\ queue = <<>>

(* The processor is an ordered executor: commands are performed one at a
   time, in the order they were pushed, and none begins after
   CommandQueue::Stop. *)
Abstract == INSTANCE OrderedExecutor
              WITH log <- accepted, open <- ~stopped

ImplementsExecutor == Abstract!Spec

(* CommandProcessor::Stop returns, although it joins a thread that may be
   executing a command when Stop is called. *)
StopReturns == (owner = "stopping") ~> (owner = "stopped")

(* A command accepted by a processor that is never stopped is executed to its
   end: the response its callback sends is not forgotten in the queue. *)
EveryCommandPerformed ==
  \A n \in 1..MaxPushes :
     (owner = "started" /\ Len(accepted) >= n) ~> (finished >= n \/ owner # "started")
=============================================================================
