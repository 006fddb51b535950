---------------------------- MODULE SessionProofs ----------------------------
(***************************************************************************)
(* The life of a session, proved for any number of ids, handlers, Session  *)
(* objects and productions and any capacity: first the map of sessions     *)
(* (SessionRegistry), then the removal of one of them (SessionTeardown),   *)
(* which the map takes as a single interval.                               *)
(***************************************************************************)
EXTENDS SessionRegistry, SessionTeardown, SequenceTheorems, FiniteSetTheorems, TLAPS

-----------------------------------------------------------------------------
(* The inductive invariant.  An entry and its Session object know each other;
   a Session that was not destroyed is the entry of its id. *)
EntryIsAlive ==
  \A i \in Id : sessions[i] # None =>
    /\ sessions[i] \in (1..created) \ freed
    /\ id_of[sessions[i]] = i

AliveIsEntry ==
  \A n \in 1..created : id_of[n] \in Id /\ (n \notin freed => sessions[id_of[n]] = n)

(* Who holds the mutex to destroy found an entry, and it is still there. *)
HolderHasEntry ==
  /\ \A h \in Handler : pc[h] = "destroy" => sessions[request[h]] # None
  /\ \A n \in Incarnation : detached[n] = "destroy" => sessions[id_of[n]] # None

(* A call has an id, and once it has passed the lookup a pointer; a session has a
   detached thread because it asked for its removal. *)
CallsHaveSessions ==
  /\ \A h \in Handler : pc[h] # "idle" => request[h] \in Id
  /\ \A h \in Handler : pc[h] \notin {"idle", "lookup"} => session[h] \in 1..created
  /\ \A n \in Incarnation : detached[n] # "none" => n \in removal_requested

IInv == TypeOK /\ EntryIsAlive /\ AliveIsEntry /\ HolderHasEntry /\ CallsHaveSessions

(* The handlers, the Session objects and None are different holders. *)
LEMMA Holders ==
  /\ MaxSessions \in Nat /\ NoId \notin Id
  /\ None \notin Incarnation /\ None \notin Handler
  /\ \A h \in Handler : h \notin Incarnation
BY RegistryAssumption DEF Handler, Incarnation, None

LEMMA InitIInv == Init => IInv
BY Holders DEF Init, IInv, TypeOK, EntryIsAlive, AliveIsEntry, HolderHasEntry, CallsHaveSessions,
   HandlerPc, Incarnation, None

(* A step of a call that leaves the registry alone. *)
LEMMA CallStepIInv ==
  ASSUME IInv, NEW h \in Handler, UNCHANGED registry,
         NEW l \in HandlerPc \ {"destroy"}, pc[h] # "destroy",
         NEW i \in Id \cup {NoId}, NEW n \in Incarnation \cup {None},
         pc' = [pc EXCEPT ![h] = l],
         request' = [request EXCEPT ![h] = i], session' = [session EXCEPT ![h] = n],
         cancelled' \subseteq Handler,
         l # "idle" => i \in Id,
         l \notin {"idle", "lookup"} => n \in 1..created
  PROVE  IInv'
<1>1. TypeOK'
  <2>1. \A g \in Handler : (pc'[g] = "destroy") <=> (mutex' = g)
    BY DEF IInv, TypeOK, registry
  <2> QED  BY <2>1 DEF IInv, TypeOK, registry
<1>2. EntryIsAlive' /\ AliveIsEntry'
  BY DEF IInv, EntryIsAlive, AliveIsEntry, registry
<1>3. HolderHasEntry'
  BY DEF IInv, TypeOK, HolderHasEntry, registry
<1>4. CallsHaveSessions'
  BY DEF IInv, TypeOK, CallsHaveSessions, registry
<1> QED  BY <1>1, <1>2, <1>3, <1>4 DEF IInv

LEMMA CallsIInv ==
  ASSUME IInv, NEW h \in Handler,
         \/ \E i \in Id : Call(h, i)
         \/ Cancel(h) \/ FindSession(h) \/ WriteAck(h) \/ PollEnds(h)
  PROVE  IInv'
<1>0. /\ pc \in [Handler -> HandlerPc] /\ request \in [Handler -> Id \cup {NoId}]
      /\ session \in [Handler -> Incarnation \cup {None}] /\ cancelled \subseteq Handler
      /\ pc[h] # "idle" => request[h] \in Id
      /\ pc[h] \notin {"idle", "lookup"} => session[h] \in 1..created
  BY DEF IInv, TypeOK, CallsHaveSessions
<1>1. ASSUME NEW i \in Id, Call(h, i) PROVE IInv'
  <2>1. /\ UNCHANGED registry /\ pc[h] = "idle" /\ pc' = [pc EXCEPT ![h] = "lookup"]
        /\ request' = [request EXCEPT ![h] = i] /\ cancelled' \subseteq Handler
        /\ session' = [session EXCEPT ![h] = session[h]]
        /\ session[h] \in Incarnation \cup {None} /\ "lookup" \in HandlerPc \ {"destroy"}
    BY <1>0, <1>1 DEF Call, HandlerPc
  <2> QED  BY <2>1, CallStepIInv
<1>2. CASE Cancel(h)
  <2>1. /\ UNCHANGED <<registry, pc, request, session>> /\ cancelled' \subseteq Handler
    BY <1>0, <1>2 DEF Cancel
  <2> QED  BY <2>1 DEF IInv, TypeOK, EntryIsAlive, AliveIsEntry, HolderHasEntry,
                       CallsHaveSessions, registry
<1>3. CASE /\ Return(h) /\ UNCHANGED registry /\ pc[h] # "destroy"
  <2>1. /\ pc' = [pc EXCEPT ![h] = "idle"] /\ request' = [request EXCEPT ![h] = NoId]
        /\ session' = [session EXCEPT ![h] = None] /\ cancelled' \subseteq Handler
        /\ "idle" \in HandlerPc \ {"destroy"} /\ NoId \in Id \cup {NoId}
        /\ None \in Incarnation \cup {None}
    BY <1>0, <1>3 DEF Return, HandlerPc
  <2> QED  BY <1>3, <2>1, CallStepIInv
<1>4. ASSUME NEW l \in {"poll", "remove"}, Goto(h, l), UNCHANGED registry, pc[h] \in {"ack", "poll"}
      PROVE  IInv'
  <2>1. /\ pc' = [pc EXCEPT ![h] = l] /\ request' = [request EXCEPT ![h] = request[h]]
        /\ session' = [session EXCEPT ![h] = session[h]] /\ cancelled' \subseteq Handler
        /\ l \in HandlerPc \ {"destroy"} /\ request[h] \in Id /\ session[h] \in 1..created
        /\ session[h] \in Incarnation \cup {None}
    BY <1>0, <1>4 DEF Goto, HandlerPc
  <2> QED  BY <1>4, <2>1, CallStepIInv
<1>5. CASE FindSession(h) /\ sessions[request[h]] # None
  <2> DEFINE n == sessions[request[h]]
  <2>1. /\ UNCHANGED registry /\ pc[h] = "lookup" /\ pc' = [pc EXCEPT ![h] = "attach"]
        /\ session' = [session EXCEPT ![h] = n]
        /\ request' = [request EXCEPT ![h] = request[h]] /\ cancelled' \subseteq Handler
        /\ "attach" \in HandlerPc \ {"destroy"} /\ request[h] \in Id
    BY <1>0, <1>5 DEF FindSession, Hold, HandlerPc
  <2>2. n \in 1..created /\ n \in Incarnation \cup {None}
    BY <1>5, <2>1 DEF IInv, EntryIsAlive, TypeOK
  <2> HIDE DEF n
  <2> QED  BY <2>1, <2>2, CallStepIInv
<1>6. CASE FindSession(h) /\ sessions[request[h]] = None
  BY <1>3, <1>6 DEF FindSession
<1>7. CASE WriteAck(h)
  BY <1>3, <1>4, <1>7 DEF WriteAck
<1>8. CASE PollEnds(h)
  BY <1>4, <1>8 DEF PollEnds
<1> QED  BY <1>1, <1>2, <1>5, <1>6, <1>7, <1>8

LEMMA GetOrCreateSessionIInv ==
  ASSUME IInv, NEW h \in Handler, GetOrCreateSession(h)
  PROVE  IInv'
<1> DEFINE i == request[h]
<1>0. /\ TypeOK /\ pc[h] = "lookup" /\ mutex = None /\ i \in Id
      /\ UNCHANGED <<mutex, controlled, freed, removal_requested, detached>>
      /\ request[h] \in Id \cup {NoId} /\ cancelled \subseteq Handler
  BY DEF IInv, CallsHaveSessions, GetOrCreateSession, TypeOK
<1>1. CASE sessions[i] # None /\ Hold(h, sessions[i]) /\ UNCHANGED <<sessions, id_of, created>>
  <2> DEFINE n == sessions[i]
  <2>1. /\ UNCHANGED registry /\ pc' = [pc EXCEPT ![h] = "attach"]
        /\ session' = [session EXCEPT ![h] = n]
        /\ request' = [request EXCEPT ![h] = i] /\ cancelled' \subseteq Handler
        /\ "attach" \in HandlerPc \ {"destroy"}
    BY <1>0, <1>1 DEF registry, Hold, HandlerPc, TypeOK
  <2>2. n \in 1..created /\ n \in Incarnation \cup {None}
    BY <1>0, <1>1 DEF IInv, EntryIsAlive, TypeOK
  <2> HIDE DEF n, i
  <2> QED  BY <1>0, <2>1, <2>2, CallStepIInv
<1>2. CASE Return(h) /\ UNCHANGED <<sessions, id_of, created>>
  <2>1. /\ UNCHANGED registry
        /\ pc' = [pc EXCEPT ![h] = "idle"] /\ request' = [request EXCEPT ![h] = NoId]
        /\ session' = [session EXCEPT ![h] = None] /\ cancelled' \subseteq Handler
        /\ "idle" \in HandlerPc \ {"destroy"} /\ NoId \in Id \cup {NoId}
        /\ None \in Incarnation \cup {None}
    BY <1>0, <1>2 DEF registry, Return, HandlerPc
  <2> QED  BY <1>0, <2>1, CallStepIInv
<1>3. CASE /\ sessions[i] = None /\ created < MaxSessions
           /\ created' = Fresh
           /\ id_of' = [id_of EXCEPT ![Fresh] = i]
           /\ sessions' = [sessions EXCEPT ![i] = Fresh]
           /\ Hold(h, Fresh)
  <2>1. /\ created \in Nat /\ created' = created + 1 /\ Fresh = created + 1
        /\ Fresh \in Incarnation /\ Fresh # None /\ created' \in 0..MaxSessions
        /\ 1..created' = (1..created) \cup {Fresh} /\ Fresh \notin 1..created
        /\ 1..created \subseteq Incarnation /\ None \notin 1..created
    BY <1>0, <1>3, Holders DEF TypeOK, Fresh, Incarnation, None
  <2> HIDE DEF i, Fresh
  <2>2. /\ pc' = [pc EXCEPT ![h] = "attach"] /\ session' = [session EXCEPT ![h] = Fresh]
        /\ UNCHANGED <<request, cancelled>> /\ "attach" \in HandlerPc
    BY <1>3 DEF Hold, HandlerPc
  <2>3. TypeOK'
    <3>1. /\ sessions' \in [Id -> Incarnation \cup {None}]
          /\ id_of' \in [Incarnation -> Id \cup {NoId}]
          /\ created' \in 0..MaxSessions
          /\ controlled' \subseteq 1..created' /\ freed' \subseteq 1..created'
          /\ removal_requested' \subseteq 1..created'
      BY <1>0, <1>3, <2>1 DEF TypeOK
    <3>2. /\ pc' \in [Handler -> HandlerPc] /\ session' \in [Handler -> Incarnation \cup {None}]
          /\ \A g \in Handler : (pc'[g] = "destroy") <=> (mutex' = g)
      BY <1>0, <2>1, <2>2 DEF TypeOK
    <3> QED  BY <1>0, <2>2, <3>1, <3>2 DEF TypeOK
  <2>4. \A n \in 1..created : id_of'[n] = id_of[n] /\ (n \notin freed => id_of[n] # i)
    <3> SUFFICES ASSUME NEW n \in 1..created
                 PROVE  id_of'[n] = id_of[n] /\ (n \notin freed => id_of[n] # i)
      OBVIOUS
    <3>1. n \in Incarnation /\ n # Fresh /\ n # None
      BY <2>1
    <3>2. id_of'[n] = id_of[n]
      BY <1>0, <1>3, <3>1 DEF TypeOK
    <3>3. n \notin freed => sessions[id_of[n]] = n
      BY DEF IInv, AliveIsEntry
    <3> QED  BY <1>3, <3>1, <3>2, <3>3
  <2>5. /\ id_of'[Fresh] = i /\ sessions'[i] = Fresh /\ Fresh \notin freed
        /\ \A j \in Id : j # i => sessions'[j] = sessions[j]
    BY <1>0, <1>3, <2>1 DEF TypeOK
  <2>6. EntryIsAlive'
    BY <1>0, <2>1, <2>4, <2>5 DEF IInv, EntryIsAlive
  <2>7. AliveIsEntry'
    BY <1>0, <2>1, <2>4, <2>5 DEF IInv, AliveIsEntry
  <2>8. HolderHasEntry'
    <3>1. (\A g \in Handler : pc'[g] # "destroy") /\ (\A n \in Incarnation : detached'[n] # "destroy")
      BY <1>0, <2>3, Holders DEF TypeOK
    <3> QED  BY <3>1 DEF HolderHasEntry
  <2>9. CallsHaveSessions'
    BY <1>0, <2>1, <2>2 DEF IInv, CallsHaveSessions, TypeOK
  <2> QED  BY <2>3, <2>6, <2>7, <2>8, <2>9 DEF IInv
<1> QED  BY <1>1, <1>2, <1>3 DEF GetOrCreateSession

(* The stream is attached; a control stream makes its session controlled. *)
LEMMA AttachIInv ==
  ASSUME IInv, NEW h \in Handler, AttachStream(h)
  PROVE  IInv'
<1>1. /\ TypeOK /\ pc[h] = "attach" /\ pc' = [pc EXCEPT ![h] = "ack"]
      /\ UNCHANGED <<request, session, cancelled>>
      /\ controlled' \in {controlled, controlled \cup {session[h]}}
      /\ UNCHANGED <<sessions, mutex, id_of, created, freed, removal_requested, detached>>
      /\ session[h] \in 1..created /\ request[h] \in Id /\ pc' \in [Handler -> HandlerPc]
  BY DEF AttachStream, Goto, IInv, TypeOK, HandlerPc, CallsHaveSessions
<1>2. TypeOK'
  <2>1. controlled' \subseteq 1..created
    BY <1>1 DEF TypeOK
  <2>2. \A g \in Handler : (pc'[g] = "destroy") <=> (mutex' = g)
    BY <1>1 DEF TypeOK
  <2> QED  BY <1>1, <2>1, <2>2 DEF TypeOK
<1>3. EntryIsAlive' /\ AliveIsEntry'
  BY <1>1 DEF IInv, EntryIsAlive, AliveIsEntry
<1>4. HolderHasEntry' /\ CallsHaveSessions'
  BY <1>1 DEF IInv, HolderHasEntry, CallsHaveSessions, TypeOK
<1> QED  BY <1>2, <1>3, <1>4 DEF IInv

(* The lock is taken to destroy, and the entry is there. *)
LEMMA RemoveSessionIInv ==
  ASSUME IInv, NEW h \in Handler, RemoveSession(h)
  PROVE  IInv'
<1>1. /\ TypeOK /\ pc[h] = "remove" /\ mutex = None /\ request[h] \in Id
      /\ UNCHANGED <<sessions, id_of, created, controlled, freed, removal_requested, detached>>
      /\ session[h] \in 1..created /\ cancelled \subseteq Handler
  BY DEF RemoveSession, IInv, CallsHaveSessions, TypeOK
<1>2. CASE sessions[request[h]] = None
  <2>1. /\ UNCHANGED registry
        /\ pc' = [pc EXCEPT ![h] = "idle"] /\ request' = [request EXCEPT ![h] = NoId]
        /\ session' = [session EXCEPT ![h] = None] /\ cancelled' \subseteq Handler
        /\ "idle" \in HandlerPc \ {"destroy"} /\ NoId \in Id \cup {NoId}
        /\ None \in Incarnation \cup {None}
    BY <1>1, <1>2 DEF RemoveSession, registry, Return, HandlerPc
  <2> QED  BY <1>1, <2>1, CallStepIInv
<1>3. CASE sessions[request[h]] # None
  <2>1. /\ pc' = [pc EXCEPT ![h] = "destroy"] /\ mutex' = h
        /\ UNCHANGED <<request, session, cancelled>> /\ pc' \in [Handler -> HandlerPc]
    BY <1>1, <1>3 DEF RemoveSession, Goto, TypeOK, HandlerPc
  <2>2. TypeOK'
    <3>1. \A g \in Handler : (pc'[g] = "destroy") <=> (mutex' = g)
      BY <1>1, <2>1, Holders DEF TypeOK
    <3>2. \A n \in Incarnation : (detached'[n] = "destroy") <=> (mutex' = n)
      BY <1>1, <2>1, Holders DEF TypeOK
    <3> QED  BY <1>1, <2>1, <3>1, <3>2 DEF TypeOK
  <2>3. EntryIsAlive' /\ AliveIsEntry'
    BY <1>1 DEF IInv, EntryIsAlive, AliveIsEntry
  <2>4. HolderHasEntry' /\ CallsHaveSessions'
    BY <1>1, <1>3, <2>1 DEF IInv, HolderHasEntry, CallsHaveSessions, TypeOK
  <2> QED  BY <2>2, <2>3, <2>4 DEF IInv
<1> QED  BY <1>2, <1>3

LEMMA RequestRemovalIInv ==
  ASSUME IInv, NEW n \in Incarnation, RequestRemoval(n)
  PROVE  IInv'
<1>1. /\ TypeOK /\ n \in 1..created /\ detached[n] = "none"
      /\ removal_requested' = removal_requested \cup {n}
      /\ detached' = [detached EXCEPT ![n] = "remove"]
      /\ UNCHANGED <<sessions, mutex, id_of, created, controlled, freed, calls>>
  BY DEF RequestRemoval, IInv, TypeOK, CallsHaveSessions
<1>2. TypeOK'
  <2>1. \A m \in Incarnation : (detached'[m] = "destroy") <=> (mutex' = m)
    BY <1>1 DEF TypeOK
  <2> QED  BY <1>1, <2>1 DEF TypeOK, calls
<1>3. EntryIsAlive' /\ AliveIsEntry'
  BY <1>1 DEF IInv, EntryIsAlive, AliveIsEntry
<1>4. HolderHasEntry' /\ CallsHaveSessions'
  BY <1>1 DEF IInv, HolderHasEntry, CallsHaveSessions, TypeOK, calls
<1> QED  BY <1>2, <1>3, <1>4 DEF IInv

(* Who destroys, i being the id: the entry goes, and its Session with it. *)
LEMMA EraseEntry ==
  ASSUME IInv, NEW i \in Id, sessions[i] # None,
         freed' = freed \cup {sessions[i]}, sessions' = [sessions EXCEPT ![i] = None],
         UNCHANGED <<id_of, created>>
  PROVE  /\ EntryIsAlive' /\ AliveIsEntry'
         /\ sessions' \in [Id -> Incarnation \cup {None}] /\ freed' \subseteq 1..created
<1>1. /\ sessions[i] \in 1..created /\ id_of[sessions[i]] = i
      /\ sessions \in [Id -> Incarnation \cup {None}] /\ freed \subseteq 1..created
  BY DEF IInv, EntryIsAlive, TypeOK
<1>2. EntryIsAlive'
  <2> SUFFICES ASSUME NEW j \in Id, sessions'[j] # None
               PROVE  sessions'[j] \in (1..created) \ freed' /\ id_of[sessions'[j]] = j
    BY DEF EntryIsAlive
  <2>1. j # i /\ sessions'[j] = sessions[j]
    BY <1>1
  <2>2. sessions[j] \in (1..created) \ freed /\ id_of[sessions[j]] = j
    BY <2>1 DEF IInv, EntryIsAlive
  <2> QED  BY <1>1, <2>1, <2>2
<1>3. AliveIsEntry'
  <2> SUFFICES ASSUME NEW n \in 1..created
               PROVE  id_of[n] \in Id /\ (n \notin freed' => sessions'[id_of[n]] = n)
    BY DEF AliveIsEntry
  <2>1. id_of[n] \in Id /\ (n \notin freed => sessions[id_of[n]] = n)
    BY DEF IInv, AliveIsEntry
  <2> QED  BY <1>1, <2>1
<1> QED  BY <1>1, <1>2, <1>3

LEMMA EraseSessionIInv ==
  ASSUME IInv, NEW h \in Handler, EraseSession(h)
  PROVE  IInv'
<1> DEFINE i == request[h]
<1>1. /\ TypeOK /\ pc[h] = "destroy" /\ mutex = h /\ i \in Id /\ sessions[i] # None
      /\ freed' = freed \cup {sessions[i]} /\ sessions' = [sessions EXCEPT ![i] = None]
      /\ mutex' = None /\ cancelled' \subseteq Handler
      /\ pc' = [pc EXCEPT ![h] = "idle"] /\ request' = [request EXCEPT ![h] = NoId]
      /\ session' = [session EXCEPT ![h] = None]
      /\ UNCHANGED <<id_of, created, controlled, removal_requested, detached>>
  BY DEF EraseSession, Return, IInv, TypeOK, HolderHasEntry, CallsHaveSessions
<1> HIDE DEF i
<1>2. /\ EntryIsAlive' /\ AliveIsEntry'
      /\ sessions' \in [Id -> Incarnation \cup {None}] /\ freed' \subseteq 1..created
  BY <1>1, EraseEntry
<1>3. /\ \A g \in Handler : pc'[g] # "destroy"
      /\ \A n \in Incarnation : detached'[n] # "destroy"
  BY <1>1, Holders DEF TypeOK
<1>4. TypeOK'
  <2>1. /\ \A g \in Handler : (pc'[g] = "destroy") <=> (mutex' = g)
        /\ \A n \in Incarnation : (detached'[n] = "destroy") <=> (mutex' = n)
    BY <1>1, <1>3, Holders
  <2> QED  BY <1>1, <1>2, <2>1 DEF TypeOK, HandlerPc
<1>5. HolderHasEntry'
  BY <1>3 DEF HolderHasEntry
<1>6. CallsHaveSessions'
  BY <1>1 DEF IInv, TypeOK, CallsHaveSessions
<1> QED  BY <1>2, <1>4, <1>5, <1>6 DEF IInv

LEMMA DetachedIInv ==
  ASSUME IInv, NEW n \in Incarnation, Detached(n)
  PROVE  IInv'
<1>1. CASE DetachedRemove(n)
  <2>1. /\ TypeOK /\ detached[n] = "remove" /\ mutex = None
        /\ UNCHANGED <<sessions, id_of, created, controlled, freed, removal_requested>>
        /\ UNCHANGED <<pc, request, session, cancelled>>
        /\ \/ detached' = [detached EXCEPT ![n] = "done"] /\ mutex' = None
           \/ /\ detached' = [detached EXCEPT ![n] = "destroy"] /\ mutex' = n
              /\ sessions[id_of[n]] # None
    BY <1>1 DEF DetachedRemove, calls, IInv
  <2>2. TypeOK'
    <3>1. \A g \in Handler : (pc'[g] = "destroy") <=> (mutex' = g)
      BY <2>1, Holders DEF TypeOK
    <3>2. \A m \in Incarnation : (detached'[m] = "destroy") <=> (mutex' = m)
      BY <2>1, Holders DEF TypeOK
    <3> QED  BY <2>1, <3>1, <3>2 DEF TypeOK
  <2>3. EntryIsAlive' /\ AliveIsEntry'
    BY <2>1 DEF IInv, EntryIsAlive, AliveIsEntry
  <2>4. HolderHasEntry' /\ CallsHaveSessions'
    BY <2>1 DEF IInv, HolderHasEntry, CallsHaveSessions, TypeOK
  <2> QED  BY <2>2, <2>3, <2>4 DEF IInv
<1>2. CASE DetachedErase(n)
  <2> DEFINE i == id_of[n]
  <2>1. /\ TypeOK /\ detached[n] = "destroy" /\ mutex = n
        /\ i \in Id /\ sessions[i] # None
        /\ freed' = freed \cup {sessions[i]} /\ sessions' = [sessions EXCEPT ![i] = None]
        /\ mutex' = None /\ detached' = [detached EXCEPT ![n] = "done"]
        /\ UNCHANGED <<id_of, created, controlled, removal_requested>>
        /\ UNCHANGED <<pc, request, session, cancelled>>
    BY <1>2 DEF DetachedErase, calls, IInv, TypeOK, HolderHasEntry, CallsHaveSessions, AliveIsEntry
  <2> HIDE DEF i
  <2>2. /\ EntryIsAlive' /\ AliveIsEntry'
        /\ sessions' \in [Id -> Incarnation \cup {None}] /\ freed' \subseteq 1..created
    BY <2>1, EraseEntry
  <2>3. /\ \A g \in Handler : pc'[g] # "destroy"
        /\ \A m \in Incarnation : detached'[m] # "destroy"
    BY <2>1, Holders DEF TypeOK
  <2>4. TypeOK'
    <3>1. /\ \A g \in Handler : (pc'[g] = "destroy") <=> (mutex' = g)
          /\ \A m \in Incarnation : (detached'[m] = "destroy") <=> (mutex' = m)
      BY <2>1, <2>3, Holders
    <3> QED  BY <2>1, <2>2, <3>1 DEF TypeOK
  <2>5. HolderHasEntry'
    BY <2>3 DEF HolderHasEntry
  <2>6. CallsHaveSessions'
    BY <2>1 DEF IInv, TypeOK, CallsHaveSessions
  <2> QED  BY <2>2, <2>4, <2>5, <2>6 DEF IInv
<1> QED  BY <1>1, <1>2 DEF Detached

LEMMA NextIInv == IInv /\ [Next]_vars => IInv'
<1> SUFFICES ASSUME IInv, [Next]_vars PROVE IInv'
  OBVIOUS
<1>1. ASSUME NEW h \in Handler, NEW i \in Id, Call(h, i) PROVE IInv'
  BY <1>1, CallsIInv
<1>2. ASSUME NEW h \in Handler, Cancel(h) \/ Handle(h) PROVE IInv'
  BY <1>2, CallsIInv, GetOrCreateSessionIInv, AttachIInv, RemoveSessionIInv, EraseSessionIInv
     DEF Handle
<1>3. ASSUME NEW n \in Incarnation, RequestRemoval(n) \/ Detached(n) PROVE IInv'
  BY <1>3, RequestRemovalIInv, DetachedIInv
<1>4. CASE UNCHANGED vars
  BY <1>4 DEF IInv, TypeOK, EntryIsAlive, AliveIsEntry, HolderHasEntry, CallsHaveSessions,
              vars, registry, calls
<1> QED  BY <1>1, <1>2, <1>3, <1>4 DEF Next

LEMMA Invariance == Spec => []IInv
BY InitIInv, NextIInv, PTL DEF Spec

-----------------------------------------------------------------------------
(* The map, the handlers and the detached threads have their types, and the mutex
   is held by whoever is destroying, and by nobody else. *)
THEOREM TypeCorrect == Spec => []TypeOK
BY Invariance, PTL DEF IInv

(* No Session object is leaked and none is reachable after its destructor, for
   all the ids, handlers and removals there may be: a Session is destroyed just
   when it is not the entry of its id. *)
THEOREM SessionsAreNotOrphaned == Spec => []NoOrphan
<1>1. IInv => NoOrphan
  <2> SUFFICES ASSUME IInv, NEW n \in 1..created
               PROVE  (n \in freed) <=> (sessions[id_of[n]] # n)
    BY DEF NoOrphan
  <2>1. id_of[n] \in Id /\ (n \notin freed => sessions[id_of[n]] = n)
    BY DEF IInv, AliveIsEntry
  <2>2. n # None
    BY DEF None
  <2> QED  BY <2>1, <2>2 DEF IInv, EntryIsAlive
<1> QED  BY <1>1, Invariance, PTL

(* A destructor runs once: whoever destroys a session destroys one that was not
   destroyed before, though two calls and the detached thread may all have found
   it under its id. *)
DestroyedOnce ==
  [][/\ \A h \in Handler : EraseSession(h) => sessions[request[h]] \in Incarnation \ freed
     /\ \A n \in Incarnation : DetachedErase(n) => sessions[id_of[n]] \in Incarnation \ freed]_vars

(* DestroyedOnce holds of every step, for all the calls and threads there are. *)
THEOREM SessionsAreDestroyedOnce == Spec => DestroyedOnce
<1> DEFINE ByCall   == \A h \in Handler :
                         EraseSession(h) => sessions[request[h]] \in Incarnation \ freed
           ByThread == \A n \in Incarnation :
                         DetachedErase(n) => sessions[id_of[n]] \in Incarnation \ freed
<1>1. ASSUME IInv, NEW h \in Handler, EraseSession(h)
      PROVE  sessions[request[h]] \in Incarnation \ freed
  <2>1. request[h] \in Id /\ sessions[request[h]] # None
    BY <1>1 DEF EraseSession, IInv, CallsHaveSessions, HolderHasEntry
  <2> QED  BY <1>1, <2>1 DEF IInv, EntryIsAlive, TypeOK
<1>2. ASSUME IInv, NEW n \in Incarnation, DetachedErase(n)
      PROVE  sessions[id_of[n]] \in Incarnation \ freed
  <2>1. id_of[n] \in Id /\ sessions[id_of[n]] # None
    BY <1>2 DEF DetachedErase, IInv, TypeOK, CallsHaveSessions, HolderHasEntry, AliveIsEntry
  <2> QED  BY <1>2, <2>1 DEF IInv, EntryIsAlive, TypeOK
<1>3. IInv => ByCall /\ ByThread
  BY <1>1, <1>2
<1> QED  BY <1>3, Invariance, PTL DEF Spec, DestroyedOnce

-----------------------------------------------------------------------------
(* The stages of a removal, in order. *)

LEMMA StageNumbers ==
  /\ Len(Stage) = 14
  /\ Stage[1] = "none" /\ Stage[2] = "stop_streams" /\ Stage[3] = "close_transport"
  /\ Stage[4] = "drop_adm" /\ Stage[5] = "drop_queue" /\ Stage[6] = "stop_processor"
  /\ Stage[7] = "join_worker" /\ Stage[8] = "join_media" /\ Stage[9] = "stop_event"
  /\ Stage[10] = "join_event" /\ Stage[11] = "join_event_writer"
  /\ Stage[12] = "join_control" /\ Stage[13] = "join_control_writer"
  /\ Stage[14] = "freed"
BY DEF Stage

LEMMA StageIsCounted ==
  ASSUME NEW k \in 1..14, NEW name, Stage[k] = name
  PROVE  StageOf(name) = k
<1>1. \A j \in 1..14 : Stage[j] = Stage[k] => j = k
  BY StageNumbers
<1>2. Len(Stage) = 14
  BY StageNumbers
<1> QED  BY <1>1, <1>2 DEF StageOf

LEMMA StagesInOrder ==
  /\ StageOf("none") = 1 /\ StageOf("stop_streams") = 2 /\ StageOf("close_transport") = 3
  /\ StageOf("drop_adm") = 4 /\ StageOf("drop_queue") = 5 /\ StageOf("stop_processor") = 6
  /\ StageOf("join_worker") = 7 /\ StageOf("join_media") = 8 /\ StageOf("stop_event") = 9
  /\ StageOf("join_event") = 10 /\ StageOf("join_event_writer") = 11
  /\ StageOf("join_control") = 12 /\ StageOf("join_control_writer") = 13
  /\ StageOf("freed") = 14
BY StageIsCounted, StageNumbers

StageName == {Stage[k] : k \in 1..Len(Stage)}

(* The stages of the destructors, from the one after the join of the worker on. *)
FromControl == {"join_control", "join_control_writer", "freed"}
FromEvent   == {"join_event", "join_event_writer"} \cup FromControl
FromMedia   == {"join_media", "stop_event"} \cup FromEvent

LEMMA StageNames ==
  StageName = {"none", "stop_streams", "close_transport", "drop_adm", "drop_queue",
               "stop_processor", "join_worker"} \cup FromMedia
<1>1. 1..Len(Stage) = {1, 2, 3, 4, 5, 6, 7, 8, 9, 10, 11, 12, 13, 14}
  BY StageNumbers
<1> QED  BY <1>1, StageNumbers DEF StageName, FromMedia, FromEvent, FromControl

(* What is done in which stage. *)
LEMMA StagesPast ==
  ASSUME remover \in StageName
  PROVE  /\ Past("join_worker") <=> (remover \in FromMedia)
         /\ Past("join_media") <=> (remover \in FromMedia \ {"join_media"})
         /\ Past("stop_event") <=> (remover \in FromEvent)
         /\ Past("join_event") <=> (remover \in FromEvent \ {"join_event"})
         /\ Past("join_event_writer") <=> (remover \in FromControl)
         /\ Past("join_control") <=> (remover \in FromControl \ {"join_control"})
         /\ Past("join_control_writer") <=> (remover = "freed")
BY StagesInOrder, StageNames DEF Past, FromMedia, FromEvent, FromControl

(* The removal goes from each stage to the next. *)
LEMMA RemoverGoesOn ==
  /\ RemoverSteps("none") => remover' = "stop_streams"
  /\ RemoverSteps("stop_streams") => remover' = "close_transport"
  /\ RemoverSteps("close_transport") => remover' = "drop_adm"
  /\ RemoverSteps("drop_adm") => remover' = "drop_queue"
  /\ RemoverSteps("drop_queue") => remover' = "stop_processor"
  /\ RemoverSteps("stop_processor") => remover' = "join_worker"
  /\ RemoverSteps("join_worker") => remover' = "join_media"
  /\ RemoverSteps("join_media") => remover' = "stop_event"
  /\ RemoverSteps("stop_event") => remover' = "join_event"
  /\ RemoverSteps("join_event") => remover' = "join_event_writer"
  /\ RemoverSteps("join_event_writer") => remover' = "join_control"
  /\ RemoverSteps("join_control") => remover' = "join_control_writer"
  /\ RemoverSteps("join_control_writer") => remover' = "freed"
<1>1. /\ 1 + 1 = 2 /\ 2 + 1 = 3 /\ 3 + 1 = 4 /\ 4 + 1 = 5 /\ 5 + 1 = 6 /\ 6 + 1 = 7
      /\ 7 + 1 = 8 /\ 8 + 1 = 9 /\ 9 + 1 = 10 /\ 10 + 1 = 11 /\ 11 + 1 = 12
      /\ 12 + 1 = 13 /\ 13 + 1 = 14
  OBVIOUS
<1> QED  BY <1>1, StagesInOrder, StageNumbers DEF RemoverSteps

-----------------------------------------------------------------------------
(* The commands that wait. *)

(* The productions among the commands of q. *)
ProductionsIn(q) == {i \in 1..Len(q) : q[i] = "produce"}

LEMMA ProductionsAreFinite ==
  ASSUME NEW q \in Seq({"produce", "flush"})
  PROVE  IsFiniteSet(ProductionsIn(q)) /\ Cardinality(ProductionsIn(q)) \in Nat
<1>1. Len(q) \in Int /\ 1 \in Int
  BY LenProperties
<1>2. IsFiniteSet(1..Len(q))
  BY <1>1, FS_Interval, Zenon
<1>3. ProductionsIn(q) \in SUBSET (1..Len(q))
  BY DEF ProductionsIn
<1> QED  BY <1>2, <1>3, FS_Subset, FS_CardinalityType

(* A command that is pushed adds at most itself. *)
LEMMA PushedProduction ==
  ASSUME NEW q \in Seq({"produce", "flush"}), NEW c \in {"produce", "flush"}
  PROVE  /\ Append(q, c) \in Seq({"produce", "flush"})
         /\ Cardinality(ProductionsIn(Append(q, c))) =
              Cardinality(ProductionsIn(q)) + (IF c = "produce" THEN 1 ELSE 0)
<1> DEFINE qc == Append(q, c)
           n  == Len(q) + 1
<1>1. /\ qc \in Seq({"produce", "flush"}) /\ Len(qc) = n /\ Len(q) \in Nat
      /\ \A i \in 1..Len(q) : qc[i] = q[i]
      /\ qc[n] = c
  BY AppendProperties, LenProperties
<1>2. n \notin ProductionsIn(q)
  BY <1>1 DEF ProductionsIn
<1>3. \A i \in 1..n : i \in 1..Len(q) \/ i = n
  BY <1>1
<1>4. 1..Len(q) \subseteq 1..n /\ n \in 1..n
  BY <1>1
<1> HIDE DEF qc, n
<1>5. ProductionsIn(qc) = IF c = "produce" THEN ProductionsIn(q) \cup {n} ELSE ProductionsIn(q)
  BY <1>1, <1>3, <1>4 DEF ProductionsIn
<1>6. IsFiniteSet(ProductionsIn(q)) /\ Cardinality(ProductionsIn(q)) \in Nat
  BY ProductionsAreFinite
<1>7. Cardinality(ProductionsIn(q) \cup {n}) = Cardinality(ProductionsIn(q)) + 1
  BY <1>2, <1>6, FS_AddElement
<1>8. Cardinality(ProductionsIn(qc)) =
        Cardinality(ProductionsIn(q)) + (IF c = "produce" THEN 1 ELSE 0)
  BY <1>5, <1>6, <1>7
<1> QED  BY <1>1, <1>8 DEF qc

(* A production that is taken no longer waits. *)
LEMMA TakenProduction ==
  ASSUME NEW q \in Seq({"produce", "flush"}), q # <<>>
  PROVE  /\ Tail(q) \in Seq({"produce", "flush"}) /\ Head(q) \in {"produce", "flush"}
         /\ Cardinality(ProductionsIn(Tail(q))) + (IF Head(q) = "produce" THEN 1 ELSE 0)
              <= Cardinality(ProductionsIn(q))
<1> DEFINE t == Tail(q)
           P == ProductionsIn(q) \ {1}
           Q == ProductionsIn(t)
           f == [i \in Q |-> i + 1]
<1>1. /\ Head(q) \in {"produce", "flush"} /\ Head(q) = q[1]
      /\ t \in Seq({"produce", "flush"}) /\ Len(t) = Len(q) - 1
      /\ Len(q) \in Nat /\ Len(t) \in Nat
      /\ \A i \in 1..Len(t) : t[i] = q[i + 1]
  BY HeadTailProperties, LenProperties
<1>2. \A i \in 1..Len(t) : i + 1 \in 1..Len(q) /\ i + 1 # 1
  BY <1>1
<1>3. 1 \in 1..Len(q)
  BY <1>1
<1> HIDE DEF t
<1>4. \A i \in Q : i + 1 \in P
  BY <1>1, <1>2 DEF ProductionsIn
<1>5. \A i, j \in Q : i + 1 = j + 1 => i = j
  BY DEF ProductionsIn
<1> HIDE DEF P, Q
<1>6. f \in Injection(Q, P)
  <2>1. f \in [Q -> P]
    BY <1>4
  <2>2. \A i, j \in Q : f[i] = f[j] => i = j
    BY <1>5
  <2> HIDE DEF f
  <2> QED  BY <2>1, <2>2 DEF Injection, IsInjective
<1> HIDE DEF f
<1>7. IsFiniteSet(ProductionsIn(q)) /\ Cardinality(ProductionsIn(q)) \in Nat
  BY ProductionsAreFinite
<1>8. /\ IsFiniteSet(P) /\ Cardinality(P) \in Nat
      /\ Cardinality(P) = IF 1 \in ProductionsIn(q) THEN Cardinality(ProductionsIn(q)) - 1
                                                    ELSE Cardinality(ProductionsIn(q))
  BY <1>7, FS_RemoveElement, FS_CardinalityType DEF P
<1>9. Cardinality(Q) <= Cardinality(P) /\ Cardinality(Q) \in Nat
  BY <1>6, <1>8, FS_Injection, FS_CardinalityType
<1>10. (1 \in ProductionsIn(q)) <=> (Head(q) = "produce")
  BY <1>1, <1>3 DEF ProductionsIn
<1>11. Cardinality(Q) + (IF Head(q) = "produce" THEN 1 ELSE 0) <= Cardinality(ProductionsIn(q))
  BY <1>7, <1>8, <1>9, <1>10
<1> QED  BY <1>1, <1>11 DEF t, Q

-----------------------------------------------------------------------------
(* The inductive invariant.  The engine asks once for each production it was
   sent, ... *)
ProductionsCounted ==
  counter + Cardinality(ProductionsIn(commands)) + (IF worker = "produce" THEN 1 ELSE 0)
    <= productions

(* ... a request is registered before it is queued and queued before it is
   sent, one that was sent is pending or answered, ... *)
RequestsInOrder ==
  /\ pending \cap answered = {} /\ sent \cap outbox = {}
  /\ sent \subseteq pending \cup answered
  /\ worker = "register" => counter \in Request \ (pending \cup sent)
  /\ worker = "queue" => counter \in pending \ (outbox \cup sent)

(* ... and what a stage of the removal has joined has ended. *)
JoinedHasEnded ==
  /\ Past("join_worker") => worker = "exited"
  /\ Past("join_media") => reader["media"] = "done"
  /\ Past("join_event") => reader["event"] = "done"
  /\ Past("join_event_writer") => writer["event"] = "done"
  /\ Past("join_control") => reader["control"] = "done"
  /\ Past("join_control_writer") => writer["control"] = "done"

TeardownIInv ==
  /\ TeardownTypeOK /\ AnswersReachTheirPromise
  /\ ProductionsCounted /\ RequestsInOrder /\ JoinedHasEnded

LEMMA TeardownInitIInv == TeardownInit => TeardownIInv
<1> SUFFICES ASSUME TeardownInit PROVE TeardownIInv
  OBVIOUS
<1> USE DEF TeardownInit
<1>1. /\ commands \in Seq({"produce", "flush"}) /\ Len(commands) = 0
      /\ Cardinality(ProductionsIn(commands)) = 0
  <2>1. <<>> \in Seq({"produce", "flush"}) /\ Len(<<>>) = 0
    BY EmptySeq
  <2>2. ProductionsIn(<<>>) = {}
    BY <2>1 DEF ProductionsIn
  <2> QED  BY <2>1, <2>2, FS_EmptySet
<1>2. remover \in StageName
  BY StageNames
<1>3. TeardownTypeOK
  <2>1. /\ counter \in 0..productions /\ productions \in 0..MaxProductions
        /\ flushes \in 0..MaxFlushes /\ satisfied \in [Request -> 0..2]
    BY TeardownAssumption DEF TeardownAssumption
  <2>2. reader \in [Stream -> ReaderPc] /\ worker \in WorkerPc
    BY DEF ReaderPc, WorkerPc
  <2>3. /\ running \in [Stream -> BOOLEAN] /\ gone \in [Stream -> BOOLEAN]
        /\ writer \in [Writing -> WriterPc]
    BY DEF WriterPc
  <2> QED  BY <1>1, <1>2, <2>1, <2>2, <2>3 DEF TeardownTypeOK, StageName
<1>4. AnswersReachTheirPromise /\ RequestsInOrder
  BY DEF AnswersReachTheirPromise, RequestsInOrder
<1>5. ProductionsCounted
  BY <1>1 DEF ProductionsCounted
<1>6. JoinedHasEnded
  BY <1>2, StagesPast DEF JoinedHasEnded, FromMedia, FromEvent, FromControl
<1> QED  BY <1>3, <1>4, <1>5, <1>6 DEF TeardownIInv

(* A reading thread or a client moves, and the worker and the removal do not. *)
LEMMA StreamsMove ==
  ASSUME TeardownIInv, UNCHANGED <<stopped, worker, writer, counter, outbox, sent, remover>>,
         NEW s \in Stream, NEW to \in ReaderPc, reader[s] # "done",
         reader' = [reader EXCEPT ![s] = to] \/ reader' = reader
  PROVE  JoinedHasEnded' /\ reader' \in [Stream -> ReaderPc]
<1>1. reader \in [Stream -> ReaderPc] /\ remover \in StageName /\ remover' \in StageName
  BY DEF TeardownIInv, TeardownTypeOK, StageName
<1>2. \A r \in Stream : reader[r] = "done" => reader'[r] = "done"
  BY <1>1
<1>3. reader' \in [Stream -> ReaderPc]
  BY <1>1
<1> QED  BY <1>1, <1>2, <1>3, StagesPast DEF TeardownIInv, JoinedHasEnded, Past, Stream

LEMMA ReadersTeardownIInv ==
  ASSUME TeardownIInv,
         \/ \E s \in Stream : TestRunning(s) \/ ReadFails(s) \/ HangUp(s)
         \/ ReadCloseSession \/ ReadMediaFrame \/ PushMediaFrame
  PROVE  TeardownIInv'
<1> USE DEF worker_vars, answer_vars, client_vars
<1>0. /\ running \in [Stream -> BOOLEAN] /\ reader \in [Stream -> ReaderPc]
      /\ gone \in [Stream -> BOOLEAN] /\ closing \in BOOLEAN
  BY DEF TeardownIInv, TeardownTypeOK
<1>1. /\ UNCHANGED <<writer, worker_vars, answer_vars, productions, flushes, remover>>
      /\ running' \in [Stream -> BOOLEAN] /\ gone' \in [Stream -> BOOLEAN] /\ closing' \in BOOLEAN
  BY <1>0 DEF TestRunning, ReadFails, HangUp, ReadCloseSession, Read, ReadMediaFrame, PushMediaFrame
<1>2. PICK s \in Stream, to \in ReaderPc :
        \/ reader[s] # "done" /\ reader' = [reader EXCEPT ![s] = to]
        \/ reader' = reader
  BY DEF TestRunning, ReadFails, HangUp, ReadCloseSession, Read, ReadMediaFrame, PushMediaFrame,
     Stream, ReaderPc
<1>3. JoinedHasEnded' /\ reader' \in [Stream -> ReaderPc]
  <2>1. CASE reader' = reader
    BY <1>0, <1>1, <2>1 DEF TeardownIInv, JoinedHasEnded, Past
  <2>2. CASE reader[s] # "done" /\ reader' = [reader EXCEPT ![s] = to]
    BY <1>1, <2>2, StreamsMove
  <2> QED  BY <1>2, <2>1, <2>2
<1>4. TeardownTypeOK'
  BY <1>1, <1>3 DEF TeardownIInv, TeardownTypeOK
<1>5. AnswersReachTheirPromise' /\ ProductionsCounted' /\ RequestsInOrder'
  BY <1>1 DEF TeardownIInv, AnswersReachTheirPromise, ProductionsCounted, RequestsInOrder
<1> QED  BY <1>3, <1>4, <1>5 DEF TeardownIInv

(* A command that was read is pushed, or dropped by a stopped queue. *)
LEMMA ReadCommandsTeardownIInv ==
  ASSUME TeardownIInv, ReadStartProduction \/ ReadFlushAudio
  PROVE  TeardownIInv'
<1> USE DEF worker_vars, answer_vars, client_vars
<1>0. /\ commands \in Seq({"produce", "flush"}) /\ counter \in Nat /\ productions \in Nat
      /\ counter \in 0..productions
      /\ productions \in 0..MaxProductions /\ flushes \in 0..MaxFlushes
      /\ MaxProductions \in Nat /\ MaxFlushes \in Nat
      /\ Cardinality(ProductionsIn(commands)) \in Nat /\ "control" \in Stream /\ "top" \in ReaderPc
  BY TeardownAssumption, ProductionsAreFinite
  DEF TeardownIInv, TeardownTypeOK, TeardownAssumption, Stream, ReaderPc
<1>1. /\ UNCHANGED <<running, writer, gone, stopped, worker, counter, outbox, pending, sent,
                     answered, satisfied, closing, remover>>
      /\ reader["control"] # "done" /\ reader' = [reader EXCEPT !["control"] = "top"]
  BY DEF ReadStartProduction, ReadFlushAudio, ReadCommand, Read
<1>2. JoinedHasEnded' /\ reader' \in [Stream -> ReaderPc]
  BY <1>0, <1>1, StreamsMove
<1>3. PICK c \in {"produce", "flush"} :
        /\ commands' = IF stopped THEN commands ELSE Append(commands, c)
        /\ \/ /\ c = "produce" /\ productions < MaxProductions
              /\ productions' = productions + 1 /\ flushes' = flushes
           \/ /\ c = "flush" /\ flushes < MaxFlushes
              /\ productions' = productions /\ flushes' = flushes + 1
  BY DEF ReadStartProduction, ReadFlushAudio, ReadCommand
<1>4. /\ productions' \in 0..MaxProductions /\ flushes' \in 0..MaxFlushes
      /\ productions' = productions + (IF c = "produce" THEN 1 ELSE 0)
  BY <1>0, <1>3
<1>5. /\ commands' \in Seq({"produce", "flush"})
      /\ Cardinality(ProductionsIn(commands')) \in Nat
      /\ Cardinality(ProductionsIn(commands'))
           <= Cardinality(ProductionsIn(commands)) + (IF c = "produce" THEN 1 ELSE 0)
  <2>1. CASE stopped
    BY <1>0, <1>3, <2>1
  <2>2. CASE ~stopped
    <3>1. commands' = Append(commands, c)
      BY <1>3, <2>2
    <3>2. /\ Append(commands, c) \in Seq({"produce", "flush"})
          /\ Cardinality(ProductionsIn(Append(commands, c))) =
               Cardinality(ProductionsIn(commands)) + (IF c = "produce" THEN 1 ELSE 0)
      BY <1>0, PushedProduction
    <3> QED  BY <1>0, <3>1, <3>2
  <2> QED  BY <2>1, <2>2
<1>6. ProductionsCounted'
  <2> DEFINE m == Cardinality(ProductionsIn(commands))
             n == Cardinality(ProductionsIn(commands'))
             busy == IF worker = "produce" THEN 1 ELSE 0
             more == IF c = "produce" THEN 1 ELSE 0
  <2>1. counter + m + busy <= productions
    BY DEF TeardownIInv, ProductionsCounted
  <2>2. busy \in Nat /\ more \in Nat /\ m \in Nat /\ n \in Nat
    BY <1>0, <1>5
  <2>3. n <= m + more /\ productions' = productions + more
    BY <1>4, <1>5
  <2>4. counter' = counter /\ worker' = worker
    BY <1>1
  <2> HIDE DEF m, n, busy, more
  <2>5. counter + n + busy <= productions'
    BY <1>0, <2>1, <2>2, <2>3
  <2> QED  BY <2>4, <2>5 DEF n, busy, ProductionsCounted
<1>7. TeardownTypeOK'
  <2>1. counter' \in 0..productions'
    BY <1>0, <1>1, <1>4
  <2> QED  BY <1>1, <1>2, <1>4, <1>5, <2>1 DEF TeardownIInv, TeardownTypeOK
<1>8. AnswersReachTheirPromise' /\ RequestsInOrder'
  BY <1>1 DEF TeardownIInv, AnswersReachTheirPromise, RequestsInOrder
<1> QED  BY <1>2, <1>6, <1>7, <1>8 DEF TeardownIInv

(* A response sets the promise of its request, which is pending then, or has been
   set before. *)
LEMMA ReadResponseTeardownIInv ==
  ASSUME TeardownIInv, NEW k \in Request, ReadResponse(k)
  PROVE  TeardownIInv'
<1> USE DEF worker_vars, client_vars
<1>1. /\ UNCHANGED <<running, writer, gone, worker_vars, client_vars, remover, sent>> /\ k \in sent
      /\ reader["control"] # "done" /\ reader' = [reader EXCEPT !["control"] = "top"]
      /\ answered' = answered \cup {k} /\ pending' = pending \ {k}
      /\ satisfied' = IF k \in pending THEN [satisfied EXCEPT ![k] = @ + 1] ELSE satisfied
  BY DEF ReadResponse, Read
<1>2. /\ satisfied \in [Request -> 0..2] /\ RequestsInOrder
      /\ \A r \in Request : satisfied[r] = (IF r \in answered THEN 1 ELSE 0)
      /\ "control" \in Stream /\ "top" \in ReaderPc
      /\ outbox \subseteq pending
  BY DEF TeardownIInv, TeardownTypeOK, AnswersReachTheirPromise, Stream, ReaderPc
<1>3. (k \in pending) <=> (k \notin answered)
  BY <1>1, <1>2 DEF RequestsInOrder
<1>4. AnswersReachTheirPromise' /\ satisfied' \in [Request -> 0..2]
  <2>1. CASE k \in pending
    BY <1>1, <1>2, <1>3, <2>1 DEF AnswersReachTheirPromise
  <2>2. CASE k \notin pending
    BY <1>1, <1>2, <1>3, <2>2 DEF AnswersReachTheirPromise
  <2> QED  BY <2>1, <2>2
<1>5. JoinedHasEnded' /\ reader' \in [Stream -> ReaderPc]
  BY <1>1, <1>2, StreamsMove
<1>6. RequestsInOrder'
  BY <1>1, <1>2 DEF RequestsInOrder
<1>7. TeardownTypeOK'
  <2>1. outbox' \subseteq pending'
    BY <1>1, <1>2 DEF RequestsInOrder
  <2> QED  BY <1>1, <1>4, <1>5, <2>1 DEF TeardownIInv, TeardownTypeOK
<1>8. ProductionsCounted'
  BY <1>1 DEF TeardownIInv, ProductionsCounted
<1> QED  BY <1>4, <1>5, <1>6, <1>7, <1>8 DEF TeardownIInv

(* A request is written. *)
LEMMA WriteTeardownIInv ==
  ASSUME TeardownIInv, NEW k \in Request, WriteRequest(k)
  PROVE  TeardownIInv'
<1> USE DEF streams_vars, client_vars
<1>1. /\ UNCHANGED <<commands, stopped, worker, counter, pending, answered, satisfied,
                     streams_vars, client_vars, remover>>
      /\ k \in outbox /\ outbox' = outbox \ {k}
      /\ sent' = sent \/ sent' = sent \cup {k}
  BY DEF WriteRequest
<1>2. /\ RequestsInOrder /\ outbox \subseteq pending /\ pending \subseteq 1..counter
      /\ answered \subseteq sent /\ sent \subseteq 1..counter
  BY DEF TeardownIInv, TeardownTypeOK
<1>3. RequestsInOrder'
  BY <1>1, <1>2 DEF RequestsInOrder
<1>4. TeardownTypeOK'
  BY <1>1, <1>2 DEF TeardownIInv, TeardownTypeOK
<1>5. AnswersReachTheirPromise' /\ ProductionsCounted' /\ JoinedHasEnded'
  BY <1>1 DEF TeardownIInv, AnswersReachTheirPromise, ProductionsCounted, JoinedHasEnded, Past
<1> QED  BY <1>3, <1>4, <1>5 DEF TeardownIInv

(* A writing thread goes on, and one that has ended does not. *)
LEMMA WritersTeardownIInv ==
  ASSUME TeardownIInv, ControlWriter \/ \E s \in Writing : Writer(s) \/ WriterWakes(s)
  PROVE  TeardownIInv'
<1> USE DEF worker_vars, answer_vars, client_vars
<1>1. PICK s \in Writing, from \in WriterPc \ {"done"}, to \in WriterPc : WriterSteps(s, from, to)
  <2>1. ASSUME NEW s \in Writing, Writer(s) \/ WriterWakes(s)
        PROVE  \E from \in WriterPc \ {"done"}, to \in WriterPc : WriterSteps(s, from, to)
    BY <2>1 DEF Writer, WriterEnds, WriterWaits, WriterWakes, WriterPc
  <2>2. ASSUME ControlWriter
        PROVE  /\ "control" \in Writing
               /\ \E from \in WriterPc \ {"done"}, to \in WriterPc :
                    WriterSteps("control", from, to)
    BY <2>2 DEF ControlWriter, WriterDrains, WriterBlocks, Drained, WriterPc, Writing
  <2> QED  BY <2>1, <2>2
<1>2. /\ UNCHANGED <<running, reader, gone, worker_vars, answer_vars, client_vars, remover>>
      /\ writer[s] # "done" /\ writer' = [writer EXCEPT ![s] = to]
      /\ writer \in [Writing -> WriterPc]
  BY <1>1 DEF WriterSteps, TeardownIInv, TeardownTypeOK
<1>3. \A w \in Writing : writer[w] = "done" => writer'[w] = "done"
  BY <1>2
<1>4. JoinedHasEnded'
  BY <1>2, <1>3 DEF TeardownIInv, JoinedHasEnded, Past, Writing
<1>5. TeardownTypeOK'
  BY <1>2 DEF TeardownIInv, TeardownTypeOK
<1>6. AnswersReachTheirPromise' /\ ProductionsCounted' /\ RequestsInOrder'
  BY <1>2 DEF TeardownIInv, AnswersReachTheirPromise, ProductionsCounted, RequestsInOrder
<1> QED  BY <1>4, <1>5, <1>6 DEF TeardownIInv

-----------------------------------------------------------------------------
(* The worker. *)

LEMMA TakeTeardownIInv ==
  ASSUME TeardownIInv, TakeCommand
  PROVE  TeardownIInv'
<1> USE DEF streams_vars, answer_vars, client_vars
<1>1. /\ UNCHANGED <<stopped, streams_vars, client_vars, remover, counter, outbox, answer_vars>>
      /\ worker = "idle" /\ commands # <<>> /\ commands' = Tail(commands)
      /\ worker' = CASE Head(commands) = "flush" ->
                          IF Past("drop_adm") THEN "idle" ELSE "flush"
                     [] Head(commands) = "produce" ->
                          IF Past("close_transport") THEN "idle" ELSE "produce"
  BY DEF TakeCommand, WorkerSteps
<1>2. /\ commands \in Seq({"produce", "flush"}) /\ productions \in Nat /\ counter \in Nat
      /\ Cardinality(ProductionsIn(commands)) \in Nat
      /\ Cardinality(ProductionsIn(Tail(commands))) \in Nat
      /\ Tail(commands) \in Seq({"produce", "flush"}) /\ Head(commands) \in {"produce", "flush"}
      /\ Cardinality(ProductionsIn(Tail(commands))) + (IF Head(commands) = "produce" THEN 1 ELSE 0)
           <= Cardinality(ProductionsIn(commands))
  <2>1. commands \in Seq({"produce", "flush"}) /\ productions \in Nat /\ counter \in Nat
    BY TeardownAssumption DEF TeardownIInv, TeardownTypeOK, TeardownAssumption
  <2>2. /\ Tail(commands) \in Seq({"produce", "flush"}) /\ Head(commands) \in {"produce", "flush"}
        /\ Cardinality(ProductionsIn(Tail(commands))) + (IF Head(commands) = "produce" THEN 1 ELSE 0)
             <= Cardinality(ProductionsIn(commands))
    BY <1>1, <2>1, TakenProduction
  <2>3. /\ Cardinality(ProductionsIn(commands)) \in Nat
        /\ Cardinality(ProductionsIn(Tail(commands))) \in Nat
    BY <2>1, <2>2, ProductionsAreFinite
  <2> QED  BY <2>1, <2>2, <2>3
<1>3. /\ worker' \in {"idle", "flush", "produce"}
      /\ worker' = "produce" => Head(commands) = "produce"
  BY <1>1, <1>2
<1>4. ProductionsCounted'
  <2> DEFINE m == Cardinality(ProductionsIn(commands))
             n == Cardinality(ProductionsIn(Tail(commands)))
             busy == IF worker' = "produce" THEN 1 ELSE 0
             less == IF Head(commands) = "produce" THEN 1 ELSE 0
  <2>1. counter + m + 0 <= productions
    BY <1>1 DEF TeardownIInv, ProductionsCounted
  <2>2. n + less <= m /\ busy <= less /\ busy \in Nat /\ less \in Nat /\ m \in Nat /\ n \in Nat
    BY <1>2, <1>3
  <2> HIDE DEF m, n, busy, less
  <2>3. counter + n + busy <= productions
    BY <1>2, <2>1, <2>2
  <2>4. counter' = counter /\ productions' = productions /\ commands' = Tail(commands)
    BY <1>1
  <2> QED  BY <2>3, <2>4 DEF n, busy, ProductionsCounted
<1>5. TeardownTypeOK'
  BY <1>1, <1>2, <1>3 DEF TeardownIInv, TeardownTypeOK, WorkerPc
<1>6. AnswersReachTheirPromise' /\ RequestsInOrder'
  BY <1>1, <1>3 DEF TeardownIInv, AnswersReachTheirPromise, RequestsInOrder
<1>7. JoinedHasEnded'
  BY <1>1 DEF TeardownIInv, JoinedHasEnded, Past
<1> QED  BY <1>4, <1>5, <1>6, <1>7 DEF TeardownIInv

(* Produce numbers its request when the transport is open. *)
LEMMA ProduceTeardownIInv ==
  ASSUME TeardownIInv, Produce
  PROVE  TeardownIInv'
<1> USE DEF streams_vars, answer_vars, client_vars
<1>1. /\ UNCHANGED <<commands, stopped, streams_vars, client_vars, remover, outbox, answer_vars>>
      /\ worker = "produce"
      /\ \/ worker' = "idle" /\ counter' = counter
         \/ worker' = "register" /\ counter' = counter + 1
  BY DEF Produce, WorkerSteps
<1>2. /\ productions \in Nat /\ counter \in Nat /\ Cardinality(ProductionsIn(commands)) \in Nat
      /\ MaxProductions \in Nat /\ productions <= MaxProductions
      /\ pending \subseteq 1..counter /\ sent \subseteq 1..counter
  BY ProductionsAreFinite, TeardownAssumption
  DEF TeardownIInv, TeardownTypeOK, TeardownAssumption
<1>3. counter + Cardinality(ProductionsIn(commands)) + 1 <= productions
  BY <1>1 DEF TeardownIInv, ProductionsCounted
<1>4. counter' \in 0..productions /\ counter' \in Nat /\ counter <= counter'
  BY <1>1, <1>2, <1>3
<1>5. ProductionsCounted'
  <2> DEFINE m == Cardinality(ProductionsIn(commands))
  <2> HIDE DEF m
  <2>1. counter' + m + 0 <= productions
    BY <1>1, <1>2, <1>3 DEF m
  <2>2. worker' # "produce" /\ UNCHANGED <<commands, productions>>
    BY <1>1
  <2> QED  BY <2>1, <2>2 DEF m, ProductionsCounted
<1>6. TeardownTypeOK'
  <2>1. 1..counter \subseteq 1..counter'
    BY <1>2, <1>4
  <2>2. worker' \in WorkerPc
    BY <1>1 DEF WorkerPc
  <2> QED  BY <1>1, <1>4, <2>1, <2>2 DEF TeardownIInv, TeardownTypeOK
<1>7. RequestsInOrder'
  <2>1. CASE worker' = "idle"
    BY <1>1, <2>1 DEF TeardownIInv, RequestsInOrder
  <2>2. CASE worker' = "register"
    <3>1. counter' = counter + 1
      BY <1>1, <2>2
    <3>2. counter' \in Request
      BY <1>2, <1>3, <3>1 DEF Request
    <3>3. counter' \notin 1..counter
      BY <1>2, <3>1
    <3> QED  BY <1>1, <1>2, <2>2, <3>2, <3>3 DEF TeardownIInv, RequestsInOrder
  <2> QED  BY <1>1, <2>1, <2>2
<1>8. AnswersReachTheirPromise' /\ JoinedHasEnded'
  BY <1>1 DEF TeardownIInv, AnswersReachTheirPromise, JoinedHasEnded, Past
<1> QED  BY <1>5, <1>6, <1>7, <1>8 DEF TeardownIInv

(* The callback is registered, then the request queued. *)
LEMMA RequestTeardownIInv ==
  ASSUME TeardownIInv, RegisterCallback \/ QueueRequest
  PROVE  TeardownIInv'
<1> USE DEF streams_vars, answer_vars, client_vars
<1>1. /\ UNCHANGED <<commands, counter, stopped, streams_vars, client_vars, remover, sent,
                     answered, satisfied>>
      /\ \/ /\ worker = "register" /\ worker' = "queue"
            /\ pending' = pending \cup {counter} /\ outbox' = outbox
         \/ /\ worker = "queue" /\ worker' = "await"
            /\ outbox' = outbox \cup {counter} /\ pending' = pending
  BY DEF RegisterCallback, QueueRequest, WorkerSteps
<1>2. /\ RequestsInOrder /\ pending \subseteq 1..counter /\ outbox \subseteq pending
      /\ answered \subseteq sent /\ counter \in Nat /\ sent \subseteq 1..counter
  BY DEF TeardownIInv, TeardownTypeOK
<1>3. worker = "register" => counter \in 1..counter
  BY <1>2 DEF RequestsInOrder, Request
<1>4. TeardownTypeOK'
  <2>1. worker' \in WorkerPc
    BY <1>1 DEF WorkerPc
  <2>2. pending' \subseteq 1..counter'
    BY <1>1, <1>2, <1>3
  <2>3. outbox' \subseteq pending'
    <3>1. CASE worker = "register"
      BY <1>1, <1>2, <3>1
    <3>2. CASE worker = "queue"
      <4>1. counter \in pending
        BY <1>2, <3>2 DEF RequestsInOrder
      <4>2. outbox' = outbox \cup {counter} /\ pending' = pending
        BY <1>1, <3>2
      <4> QED  BY <1>2, <4>1, <4>2
    <3> QED  BY <1>1, <3>1, <3>2
  <2> QED  BY <1>1, <2>1, <2>2, <2>3 DEF TeardownIInv, TeardownTypeOK
<1>5. RequestsInOrder'
  BY <1>1, <1>2 DEF RequestsInOrder
<1>6. AnswersReachTheirPromise' /\ ProductionsCounted' /\ JoinedHasEnded'
  BY <1>1 DEF TeardownIInv, AnswersReachTheirPromise, ProductionsCounted, JoinedHasEnded, Past
<1> QED  BY <1>4, <1>5, <1>6 DEF TeardownIInv

LEMMA WorkerTeardownIInv ==
  ASSUME TeardownIInv, FlushReturns \/ ProduceReturns \/ WorkerExits
  PROVE  TeardownIInv'
<1> USE DEF streams_vars, answer_vars, client_vars
<1>1. /\ UNCHANGED <<commands, counter, outbox, stopped, streams_vars, client_vars, remover,
                     answer_vars>>
      /\ worker \in {"flush", "await", "idle"} /\ worker' \in {"idle", "exited"}
  BY DEF FlushReturns, ProduceReturns, WorkerExits, WorkerSteps
<1>2. TeardownTypeOK'
  BY <1>1 DEF TeardownIInv, TeardownTypeOK, WorkerPc
<1>3. AnswersReachTheirPromise' /\ RequestsInOrder' /\ ProductionsCounted' /\ JoinedHasEnded'
  BY <1>1 DEF TeardownIInv, AnswersReachTheirPromise, RequestsInOrder, ProductionsCounted,
     JoinedHasEnded, Past
<1> QED  BY <1>2, <1>3 DEF TeardownIInv

-----------------------------------------------------------------------------
(* The removal. *)

LEMMA RemoveTeardownIInv ==
  ASSUME TeardownIInv, Remove
  PROVE  TeardownIInv'
<1> USE DEF answer_vars
<1>0. /\ remover \in StageName /\ running \in [Stream -> BOOLEAN] /\ stopped \in BOOLEAN
      /\ writer \in [Writing -> WriterPc]
  BY DEF TeardownIInv, TeardownTypeOK, StageName
<1>1. /\ UNCHANGED <<reader, gone, commands, worker, counter, outbox, answer_vars, productions,
                     flushes>>
      /\ closing' = FALSE
      /\ running' \in [Stream -> BOOLEAN] /\ stopped' \in BOOLEAN
  BY <1>0 DEF Remove, RemovalBegins, StopAllStreams, CleanupSteps, StopProcessor, JoinWorker,
     StopEvent, JoinReader, JoinWriter, RemoverSteps
<1>2. /\ writer' \in [Writing -> WriterPc]
      /\ remover # "stop_event" => writer' = writer
      /\ writer'["control"] = writer["control"]
  <2>1. CASE StopEvent
    BY <1>0, <2>1 DEF StopEvent, RemoverSteps, Writing, WriterPc
  <2>2. CASE ~StopEvent
    BY <1>0, <2>2 DEF Remove, RemovalBegins, StopAllStreams, CleanupSteps, StopProcessor,
       JoinWorker, JoinReader, JoinWriter
  <2> QED  BY <2>1, <2>2
<1>3. \/ remover' \in {"stop_streams", "close_transport", "drop_adm", "drop_queue",
                       "stop_processor", "join_worker"}
      \/ remover = "join_worker" /\ remover' = "join_media" /\ worker = "exited"
      \/ remover = "join_media" /\ remover' = "stop_event" /\ reader["media"] = "done"
      \/ remover = "stop_event" /\ remover' = "join_event"
      \/ remover = "join_event" /\ remover' = "join_event_writer" /\ reader["event"] = "done"
      \/ remover = "join_event_writer" /\ remover' = "join_control" /\ writer["event"] = "done"
      \/ remover = "join_control" /\ remover' = "join_control_writer"
         /\ reader["control"] = "done"
      \/ remover = "join_control_writer" /\ remover' = "freed" /\ writer["control"] = "done"
  <2>1. CASE RemovalBegins \/ StopAllStreams \/ CleanupSteps \/ StopProcessor
    BY <2>1, RemoverGoesOn DEF RemovalBegins, StopAllStreams, CleanupSteps, StopProcessor
  <2>2. CASE JoinWorker \/ StopEvent
    BY <2>2, RemoverGoesOn DEF JoinWorker, StopEvent, RemoverSteps
  <2>3. ASSUME JoinReader("media")
        PROVE  remover = "join_media" /\ remover' = "stop_event" /\ reader["media"] = "done"
    BY <2>3, RemoverGoesOn DEF JoinReader, RemoverSteps
  <2>4. ASSUME JoinReader("event")
        PROVE  /\ remover = "join_event" /\ remover' = "join_event_writer"
               /\ reader["event"] = "done"
    BY <2>4, RemoverGoesOn DEF JoinReader, RemoverSteps
  <2>5. ASSUME JoinReader("control")
        PROVE  /\ remover = "join_control" /\ remover' = "join_control_writer"
               /\ reader["control"] = "done"
    BY <2>5, RemoverGoesOn DEF JoinReader, RemoverSteps
  <2>6. ASSUME JoinWriter("event")
        PROVE  /\ remover = "join_event_writer" /\ remover' = "join_control"
               /\ writer["event"] = "done"
    BY <2>6, RemoverGoesOn DEF JoinWriter, WriterJoin, RemoverSteps
  <2>7. ASSUME JoinWriter("control")
        PROVE  /\ remover = "join_control_writer" /\ remover' = "freed"
               /\ writer["control"] = "done"
    BY <2>7, RemoverGoesOn DEF JoinWriter, WriterJoin, RemoverSteps
  <2> QED  BY <2>1, <2>2, <2>3, <2>4, <2>5, <2>6, <2>7 DEF Remove, Stream, Writing
<1>4. remover' \in StageName
  BY <1>3, StageNames DEF FromMedia, FromEvent, FromControl
<1>5. JoinedHasEnded'
  <2> USE DEF FromMedia, FromEvent, FromControl
  <2>1. /\ remover \in FromMedia => worker = "exited"
        /\ remover \in FromMedia \ {"join_media"} => reader["media"] = "done"
        /\ remover \in FromEvent \ {"join_event"} => reader["event"] = "done"
        /\ remover \in FromControl => writer["event"] = "done"
        /\ remover \in FromControl \ {"join_control"} => reader["control"] = "done"
        /\ remover = "freed" => writer["control"] = "done"
    BY <1>0, StagesPast DEF TeardownIInv, JoinedHasEnded
  <2>2. /\ remover' \in FromMedia => worker' = "exited"
        /\ remover' \in FromMedia \ {"join_media"} => reader'["media"] = "done"
        /\ remover' \in FromEvent \ {"join_event"} => reader'["event"] = "done"
        /\ remover' \in FromControl \ {"join_control"} => reader'["control"] = "done"
    BY <1>1, <1>3, <2>1
  <2>3. /\ remover' \in FromControl => writer'["event"] = "done"
        /\ remover' = "freed" => writer'["control"] = "done"
    BY <1>2, <1>3, <2>1
  <2>4. /\ Past("join_worker")' => remover' \in FromMedia
        /\ Past("join_media")' => remover' \in FromMedia \ {"join_media"}
        /\ Past("join_event")' => remover' \in FromEvent \ {"join_event"}
        /\ Past("join_event_writer")' => remover' \in FromControl
        /\ Past("join_control")' => remover' \in FromControl \ {"join_control"}
        /\ Past("join_control_writer")' => remover' = "freed"
    BY <1>4, StagesInOrder, StageNames DEF Past
  <2> QED  BY <2>2, <2>3, <2>4 DEF JoinedHasEnded
<1>6. TeardownTypeOK'
  BY <1>1, <1>2, <1>4 DEF TeardownIInv, TeardownTypeOK, StageName
<1>7. AnswersReachTheirPromise' /\ RequestsInOrder' /\ ProductionsCounted'
  BY <1>1 DEF TeardownIInv, AnswersReachTheirPromise, RequestsInOrder, ProductionsCounted
<1> QED  BY <1>5, <1>6, <1>7 DEF TeardownIInv

LEMMA TeardownInvariance == TeardownSpec => []TeardownIInv
<1>1. TeardownIInv /\ [TeardownNext]_teardown_vars => TeardownIInv'
  <2> SUFFICES ASSUME TeardownIInv, [TeardownNext]_teardown_vars PROVE TeardownIInv'
    OBVIOUS
  <2>1. CASE TeardownNext
    BY <2>1, ReadersTeardownIInv, ReadCommandsTeardownIInv, ReadResponseTeardownIInv,
       WriteTeardownIInv, WritersTeardownIInv, TakeTeardownIInv, ProduceTeardownIInv, RequestTeardownIInv,
       WorkerTeardownIInv, RemoveTeardownIInv
    DEF TeardownNext, Worker
  <2>2. CASE UNCHANGED teardown_vars
    BY <2>2 DEF teardown_vars, streams_vars, worker_vars, answer_vars, client_vars, TeardownIInv,
       TeardownTypeOK, AnswersReachTheirPromise, ProductionsCounted, RequestsInOrder,
       JoinedHasEnded, Past
  <2> QED  BY <2>1, <2>2
<1> QED  BY <1>1, TeardownInitIInv, PTL DEF TeardownSpec

-----------------------------------------------------------------------------
(* Every variable of a removal keeps its type: the engine numbers no more
   requests than it was sent productions. *)
THEOREM TeardownTypeCorrect == TeardownSpec => []TeardownTypeOK
<1>1. TeardownIInv => TeardownTypeOK
  BY DEF TeardownIInv
<1> QED  BY <1>1, TeardownInvariance, PTL

(* A promise is set once by the first response to its request, however many
   come, and no response is lost because its callback was not yet there. *)
THEOREM AnswersAreDelivered == TeardownSpec => []AnswersReachTheirPromise
<1>1. TeardownIInv => AnswersReachTheirPromise
  BY DEF TeardownIInv
<1> QED  BY <1>1, TeardownInvariance, PTL

(* When the session is freed its worker, its three readers and its two writers have
   ended. *)
THEOREM FreedInQuiet == TeardownSpec => []QuietWhenFreed
<1>1. TeardownIInv => QuietWhenFreed
  <2> SUFFICES ASSUME TeardownIInv, remover = "freed"
               PROVE  /\ worker = "exited"
                      /\ \A s \in Stream : reader[s] = "done"
                      /\ \A s \in Writing : writer[s] = "done"
    BY DEF QuietWhenFreed
  <2>1. remover \in StageName
    BY DEF TeardownIInv, TeardownTypeOK, StageName
  <2> QED
    BY <2>1, StagesPast
    DEF TeardownIInv, JoinedHasEnded, Stream, Writing, FromMedia, FromEvent, FromControl
<1> QED  BY <1>1, TeardownInvariance, PTL
=============================================================================
