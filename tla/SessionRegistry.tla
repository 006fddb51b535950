-------------------------- MODULE SessionRegistry --------------------------
(***************************************************************************)
(* The sessions_ map of SpeakingEngineServiceImpl and                      *)
(* ListeningEngineServiceImpl (the two are the same code), the gRPC        *)
(* handlers that hold raw pointers into it, and the detached threads that  *)
(* close_session spawns.                                                   *)
(*                                                                         *)
(* A Session object is an incarnation, numbered in order of construction;  *)
(* `freed` are those whose destructor has run.  Everything RemoveSession   *)
(* does between taking sessions_mutex_ and erasing the entry (Cleanup and  *)
(* the joins of the destructor) is one interval, during which the mutex is *)
(* held; SessionTeardown looks inside it.                                  *)
(***************************************************************************)
EXTENDS Naturals, FiniteSets

CONSTANTS Id,            \* the session ids clients use
          NoId,          \* no id: the request of a handler that has none
          Controller,    \* handler threads that run Control
          Attacher,      \* handler threads that run Events or Media
          kMaxSessions,  \* the capacity of the map
          MaxSessions    \* bound: Session objects ever constructed

ASSUME RegistryAssumption ==
  /\ kMaxSessions \in Nat
  /\ MaxSessions \in Nat
  /\ NoId \notin Id
  /\ Controller \cap Attacher = {}
  /\ (Controller \cup Attacher) \cap (0..MaxSessions) = {}  \* who holds the mutex

Handler     == Controller \cup Attacher
Incarnation == 1..MaxSessions
None        == 0

VARIABLES
  sessions,           \* sessions_: the incarnation of each id, or None
  mutex,              \* who holds sessions_mutex_: a handler, an incarnation's
                      \* detached thread, or None
  id_of,              \* the id each incarnation was constructed with
  created,            \* how many incarnations there have been
  controlled,         \* the incarnations that have had a control stream
  freed,              \* the incarnations that were destroyed
  removal_requested,  \* the incarnations on which RequestRemoval was called
  detached,           \* where the detached thread of each incarnation is
  pc,                 \* where each handler is
  request,            \* the id in the metadata of each handler's call
  session,            \* the raw pointer each handler holds
  cancelled           \* the handlers whose call the client cancelled

registry ==
  <<sessions, mutex, id_of, created, controlled, freed, removal_requested, detached>>

calls == <<pc, request, session, cancelled>>

vars == <<registry, calls>>

HandlerPc == {"idle", "lookup", "attach", "ack", "poll", "remove", "destroy"}

Init ==
  /\ sessions = [i \in Id |-> None]
  /\ mutex = None
  /\ id_of = [n \in Incarnation |-> NoId]
  /\ created = 0
  /\ controlled = {}
  /\ freed = {}
  /\ removal_requested = {}
  /\ detached = [n \in Incarnation |-> "none"]
  /\ pc = [h \in Handler |-> "idle"]
  /\ request = [h \in Handler |-> NoId]
  /\ session = [h \in Handler |-> None]
  /\ cancelled = {}

Goto(h, l) == pc' = [pc EXCEPT ![h] = l] /\ UNCHANGED <<request, session, cancelled>>

(* The handler has its session and goes on. *)
Hold(h, n) ==
  /\ pc' = [pc EXCEPT ![h] = "attach"]
  /\ session' = [session EXCEPT ![h] = n]
  /\ UNCHANGED <<request, cancelled>>

(* The handler returns its status. *)
Return(h) ==
  /\ pc' = [pc EXCEPT ![h] = "idle"]
  /\ request' = [request EXCEPT ![h] = NoId]
  /\ session' = [session EXCEPT ![h] = None]
  /\ cancelled' = cancelled \ {h}

Stored == {sessions[i] : i \in Id} \ {None}

-----------------------------------------------------------------------------
(* The client. *)

Call(h, i) ==
  /\ pc[h] = "idle"
  /\ pc' = [pc EXCEPT ![h] = "lookup"]
  /\ request' = [request EXCEPT ![h] = i]
  /\ UNCHANGED <<registry, session, cancelled>>

Cancel(h) ==
  /\ pc[h] # "idle"
  /\ cancelled' = cancelled \cup {h}
  /\ UNCHANGED <<registry, pc, request, session>>

-----------------------------------------------------------------------------
(* The handlers. *)

Fresh == created + 1

(* GetOrCreateSession; a full map answers RESOURCE_EXHAUSTED. *)
GetOrCreateSession(h) ==
  /\ h \in Controller
  /\ pc[h] = "lookup"
  /\ mutex = None
  /\ LET i == request[h] IN
       \/ /\ sessions[i] # None
          /\ Hold(h, sessions[i])
          /\ UNCHANGED <<sessions, id_of, created>>
       \/ /\ sessions[i] = None
          /\ Cardinality(Stored) >= kMaxSessions
          /\ Return(h)
          /\ UNCHANGED <<sessions, id_of, created>>
       \/ /\ sessions[i] = None
          /\ Cardinality(Stored) < kMaxSessions
          /\ created < MaxSessions
          /\ created' = Fresh
          /\ id_of' = [id_of EXCEPT ![Fresh] = i]
          /\ sessions' = [sessions EXCEPT ![i] = Fresh]
          /\ Hold(h, Fresh)
  /\ UNCHANGED <<mutex, controlled, freed, removal_requested, detached>>

(* Events and Media look the id up and answer NOT_FOUND when it is absent. *)
FindSession(h) ==
  /\ h \in Attacher
  /\ pc[h] = "lookup"
  /\ mutex = None
  /\ IF sessions[request[h]] = None THEN Return(h) ELSE Hold(h, sessions[request[h]])
  /\ UNCHANGED registry

(* The stream object is built, started and given to session->streams. *)
AttachStream(h) ==
  /\ pc[h] = "attach"
  /\ Goto(h, "ack")
  /\ controlled' = IF h \in Controller THEN controlled \cup {session[h]} ELSE controlled
  /\ UNCHANGED <<sessions, mutex, id_of, created, freed, removal_requested, detached>>

(* The connected acknowledgement.  When the client is gone the write may fail,
   and then the handler returns without RemoveSession. *)
WriteAck(h) ==
  /\ pc[h] = "ack"
  /\ Goto(h, "poll") \/ (h \in cancelled /\ Return(h))
  /\ UNCHANGED registry

(* The polling loop is over: a cancelled call does not look at the session;
   any other reads removal_requested_ of its session, which gives an arbitrary
   answer once that session is freed. *)
MayLeaveLoop(h) == h \in cancelled \/ session[h] \in removal_requested \cup freed

(* Bug: the handler ends its call without removing the session. *)
PollReturns(h) ==
  /\ pc[h] = "poll"
  /\ MayLeaveLoop(h)
  /\ Return(h)
  /\ UNCHANGED registry

PollEnds(h) ==
  /\ pc[h] = "poll"
  /\ MayLeaveLoop(h)
  /\ Goto(h, "remove")
  /\ UNCHANGED registry

(* RemoveSession(session_id): the lock and the lookup.  Cleanup begins. *)
RemoveSession(h) ==
  /\ pc[h] = "remove"
  /\ mutex = None
  /\ IF sessions[request[h]] = None
     THEN Return(h) /\ UNCHANGED mutex
     ELSE Goto(h, "destroy") /\ mutex' = h
  /\ UNCHANGED <<sessions, id_of, created, controlled, freed, removal_requested, detached>>

(* sessions_.erase(it): the destructor runs, then the lock is released. *)
EraseSession(h) ==
  /\ pc[h] = "destroy"
  /\ freed' = freed \cup {sessions[request[h]]}
  /\ sessions' = [sessions EXCEPT ![request[h]] = None]
  /\ mutex' = None
  /\ Return(h)
  /\ UNCHANGED <<id_of, created, controlled, removal_requested, detached>>

-----------------------------------------------------------------------------
(* close_session, handled by the incoming thread of a control stream, which
   lives until the destructor of its session joins it. *)

(* Session::RequestRemoval: removal_requested_.exchange(true), and the removal
   callback, which spawns a detached thread. *)
RequestRemoval(n) ==
  /\ n \in controlled \ freed
  /\ n \notin removal_requested
  /\ removal_requested' = removal_requested \cup {n}
  /\ detached' = [detached EXCEPT ![n] = "remove"]
  /\ UNCHANGED <<sessions, mutex, id_of, created, controlled, freed, calls>>

(* Bug: the detached thread drops the entry and destroys nothing. *)
DetachedForgets(n) ==
  /\ detached[n] = "remove"
  /\ mutex = None
  /\ sessions' = [sessions EXCEPT ![id_of[n]] = None]
  /\ detached' = [detached EXCEPT ![n] = "done"]
  /\ UNCHANGED <<mutex, id_of, created, controlled, freed, removal_requested, calls>>

(* RemoveSession(sid) in the detached thread: again by id. *)
DetachedRemove(n) ==
  /\ detached[n] = "remove"
  /\ mutex = None
  /\ IF sessions[id_of[n]] = None
     THEN detached' = [detached EXCEPT ![n] = "done"] /\ UNCHANGED mutex
     ELSE detached' = [detached EXCEPT ![n] = "destroy"] /\ mutex' = n
  /\ UNCHANGED <<sessions, id_of, created, controlled, freed, removal_requested, calls>>

DetachedErase(n) ==
  /\ detached[n] = "destroy"
  /\ freed' = freed \cup {sessions[id_of[n]]}
  /\ sessions' = [sessions EXCEPT ![id_of[n]] = None]
  /\ mutex' = None
  /\ detached' = [detached EXCEPT ![n] = "done"]
  /\ UNCHANGED <<id_of, created, controlled, removal_requested, calls>>

-----------------------------------------------------------------------------
Handle(h) ==
  \/ GetOrCreateSession(h) \/ FindSession(h) \/ AttachStream(h) \/ WriteAck(h)
  \/ PollEnds(h) \/ RemoveSession(h) \/ EraseSession(h)

Detached(n) == DetachedRemove(n) \/ DetachedErase(n)

Next ==
  \/ \E h \in Handler, i \in Id : Call(h, i)
  \/ \E h \in Handler : Cancel(h) \/ Handle(h)
  \/ \E n \in Incarnation : RequestRemoval(n) \/ Detached(n)

Spec == Init /\ [][Next]_vars

(* Threads are scheduled, and a thread waiting for sessions_mutex_ gets it in
   the end; nothing makes a client call or close a session, and nothing makes
   the read of a freed session say that the loop may end.  A destructor joins
   the reading threads of its streams, so it ends once their clients have hung
   up, and a client does hang up on a session that is being destroyed.
   SessionTeardown and GateForward have the joins for which that is not enough. *)
Reads(h) == h \in cancelled \/ session[h] \in removal_requested \ freed

Destroying ==
  {sessions[request[h]] : h \in {g \in Handler : pc[g] = "destroy"}}
    \cup {sessions[id_of[n]] : n \in {m \in Incarnation : detached[m] = "destroy"}}

HungUp == \A h \in Handler : session[h] \in Destroying => h \in cancelled

Fairness ==
  /\ \A h \in Handler :
       /\ SF_vars(/\ Handle(h)
                  /\ pc[h] = "poll" => Reads(h)
                  /\ pc[h] = "destroy" => HungUp)
       /\ WF_vars(session[h] \in Destroying /\ h \notin cancelled /\ Cancel(h))
  /\ \A n \in Incarnation :
       SF_vars(Detached(n) /\ (detached[n] = "destroy" => HungUp))

FairSpec == Spec /\ Fairness

-----------------------------------------------------------------------------
TypeOK ==
  /\ sessions \in [Id -> Incarnation \cup {None}]
  /\ mutex \in Handler \cup Incarnation \cup {None}
  /\ id_of \in [Incarnation -> Id \cup {NoId}]
  /\ created \in 0..MaxSessions
  /\ controlled \subseteq 1..created
  /\ freed \subseteq 1..created
  /\ removal_requested \subseteq 1..created
  /\ detached \in [Incarnation -> {"none", "remove", "destroy", "done"}]
  /\ pc \in [Handler -> HandlerPc]
  /\ request \in [Handler -> Id \cup {NoId}]
  /\ session \in [Handler -> Incarnation \cup {None}]
  /\ cancelled \subseteq Handler
  /\ \A h \in Handler : (pc[h] = "destroy") <=> (mutex = h)
  /\ \A n \in Incarnation : (detached[n] = "destroy") <=> (mutex = n)

(* Every Session ever constructed is destroyed or is the entry of its id:
   none is leaked by the races between handlers and detached threads, and
   none is reachable after its destructor. *)
NoOrphan ==
  \A n \in 1..created : (n \in freed) <=> (sessions[id_of[n]] # n)

(* A session that asked for its removal, or one of whose calls is cancelled
   while it polls, is destroyed. *)
RemovalCompletes ==
  \A n \in Incarnation :
    (\/ n \in removal_requested
     \/ \E h \in cancelled : pc[h] = "poll" /\ session[h] = n) ~> (n \in freed)

-----------------------------------------------------------------------------
(* What the source says of the code and the code does not do. *)

(* speaking_engine_service.cpp:142 "Safe if already removed via close_session"
   supposes that a call whose session was removed may go on: no handler is
   about to dereference the pointer of a destroyed session. *)
NoDanglingSession ==
  \A h \in Handler :
    pc[h] \in {"attach", "poll"} /\ h \notin cancelled => session[h] \notin freed
=============================================================================
