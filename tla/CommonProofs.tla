---------------------------- MODULE CommonProofs ----------------------------
(***************************************************************************)
(* The two parts of common/.                                               *)
(*                                                                         *)
(* What TLC checks of CommandProcessor on two commands and four pushes,    *)
(* proved for any set of commands and any number of pushes; and what it    *)
(* checks of RtpConverters on a few descriptions, proved for every one of  *)
(* any length, with any names, fields and values.                          *)
(***************************************************************************)
EXTENDS CommandProcessor, RtpConverters, SequenceTheorems, WellFoundedInduction, TLAPS

(* Moving the head of the second sequence to the end of the first leaves
   their concatenation alone. *)
LEMMA ConcatTake ==
  ASSUME NEW S, NEW s \in Seq(S), NEW t \in Seq(S), t # <<>>
  PROVE  /\ s \o t = Append(s, Head(t)) \o Tail(t)
         /\ (s \o t)[Len(s) + 1] = Head(t)
         /\ Len(s) < Len(s \o t)
<1>1. /\ Head(t) \in S
      /\ Tail(t) \in Seq(S)
      /\ Len(Tail(t)) = Len(t) - 1
      /\ \A i \in 1 .. Len(Tail(t)) : Tail(t)[i] = t[i+1]
  BY HeadTailProperties
<1>2. Head(t) = t[1]
  OBVIOUS
<1>3. Len(s) \in Nat /\ Len(t) \in Nat /\ Len(t) > 0
  BY EmptySeq, LenProperties
<1> DEFINE a == Append(s, Head(t))
<1>4. /\ a \in Seq(S)
      /\ Len(a) = Len(s) + 1
      /\ \A i \in 1 .. Len(s) : a[i] = s[i]
      /\ a[Len(s) + 1] = Head(t)
  BY <1>1, AppendProperties
<1>5. /\ s \o t \in Seq(S)
      /\ Len(s \o t) = Len(s) + Len(t)
      /\ \A i \in 1 .. Len(s) + Len(t) :
            (s \o t)[i] = IF i <= Len(s) THEN s[i] ELSE t[i - Len(s)]
  BY ConcatProperties
<1> HIDE DEF a
<1>6. /\ a \o Tail(t) \in Seq(S)
      /\ Len(a \o Tail(t)) = Len(a) + Len(Tail(t))
      /\ \A i \in 1 .. Len(a) + Len(Tail(t)) :
            (a \o Tail(t))[i] = IF i <= Len(a) THEN a[i] ELSE Tail(t)[i - Len(a)]
  BY <1>1, <1>4, ConcatProperties
<1>7. Len(s \o t) = Len(a \o Tail(t))
  BY <1>1, <1>3, <1>4, <1>5, <1>6
<1>8. \A i \in 1 .. Len(s \o t) : (s \o t)[i] = (a \o Tail(t))[i]
  BY <1>1, <1>2, <1>3, <1>4, <1>5, <1>6
<1>9. s \o t = a \o Tail(t)
  BY <1>5, <1>6, <1>7, <1>8, SeqEqual
<1>10. (s \o t)[Len(s) + 1] = Head(t)
  BY <1>2, <1>3, <1>5
<1> QED  BY <1>3, <1>5, <1>9, <1>10 DEF a

-----------------------------------------------------------------------------
(* The inductive invariant.  NothingLost alone is not inductive: that TryPop
   takes a command only while the queue is open and that the count of
   finished executions lags by at most the one being executed both come from
   where the two threads are. *)
Positions ==
  /\ (worker = "none") <=> (owner = "new")
  /\ running <=> owner = "started"
  /\ stopped <=> owner \in {"joining", "stopped", "destroyed"}
  /\ owner \in {"stopped", "destroyed"} => worker = "exited"

OneAtATime ==
  finished = IF worker = "execute" THEN Len(performed) - 1 ELSE Len(performed)

Drained == stopped => queue = <<>>

(* While the queue is open nothing is lost between Push and Execute: what was
   accepted is what was taken followed by what waits (Push and TryPop of
   CommandQueue keep one FIFO between them). *)
NothingLost == ~stopped => accepted = performed \o queue

IInv == TypeOK /\ Positions /\ OneAtATime /\ Drained /\ NothingLost

LEMMA InitIInv == Init => IInv
<1> SUFFICES ASSUME Init PROVE IInv
  OBVIOUS
<1>1. <<>> \in Seq(Command) /\ Len(<<>>) = 0
  BY EmptySeq
<1>2. <<>> \o <<>> = <<>>
  BY <1>1, ConcatEmptySeq
<1>3. 0 \in 0..MaxPushes
  BY MaxPushesAssumption
<1>4. TypeOK
  <2>1. Init => /\ queue \in Seq(Command)
                /\ accepted \in Seq(Command)
                /\ performed \in Seq(Command)
                /\ finished \in 0..Len(performed)
    BY <1>1 DEF Init
  <2> QED  BY <1>3, <2>1 DEF Init, TypeOK, WorkerPc, OwnerPc
<1>5. Positions /\ Drained
  BY DEF Init, Positions, Drained
<1>6. OneAtATime
  BY <1>1 DEF Init, OneAtATime
<1>7. NothingLost
  BY <1>2 DEF Init, NothingLost
<1> QED  BY <1>4, <1>5, <1>6, <1>7 DEF IInv

LEMMA NextIInv == IInv /\ [Next]_vars => IInv'
<1> SUFFICES ASSUME IInv, [Next]_vars PROVE IInv'
  OBVIOUS
<1> USE DEF WorkerPc, OwnerPc
<1>0. /\ performed \in Seq(Command) /\ queue \in Seq(Command) /\ accepted \in Seq(Command)
      /\ Len(performed) \in Nat
  BY LenProperties DEF IInv, TypeOK
<1>1. ASSUME NEW c \in Command, Push(c) PROVE IInv'
  <2>0. pushes' \in 0..MaxPushes
    BY <1>1, MaxPushesAssumption DEF Push, IInv, TypeOK
  <2>1. CASE stopped
    BY <1>1, <2>0, <2>1 DEF Push, IInv, TypeOK, Positions, OneAtATime, Drained, NothingLost
  <2>2. CASE ~stopped
    <3>1. Append(queue, c) \in Seq(Command) /\ Append(accepted, c) \in Seq(Command)
      BY <1>0, AppendProperties
    <3>2. TypeOK'
      BY <1>1, <2>0, <2>2, <3>1 DEF Push, IInv, TypeOK
    <3>3. NothingLost'
      <4>1. accepted' = Append(accepted, c) /\ queue' = Append(queue, c) /\ performed' = performed
        BY <1>1, <2>2 DEF Push
      <4>2. accepted = performed \o queue
        BY <2>2 DEF IInv, NothingLost
      <4>3. Append(accepted, c) = performed \o Append(queue, c)
        <5>1. <<c>> \in Seq(Command) /\ accepted \in Seq(Command)
          BY <1>0, <1>1
        <5>2. Append(accepted, c) = accepted \o <<c>> /\ Append(queue, c) = queue \o <<c>>
          BY <1>0, <1>1, AppendIsConcat
        <5> QED  BY <1>0, <4>2, <5>1, <5>2, ConcatAssociative
      <4> QED  BY <4>1, <4>3 DEF NothingLost
    <3> QED
      BY <1>1, <2>2, <3>2, <3>3 DEF Push, IInv, Positions, OneAtATime, Drained
  <2> QED  BY <2>1, <2>2
<1>2. CASE TestRunning
  BY <1>2 DEF TestRunning, history, IInv, TypeOK, Positions, OneAtATime, Drained, NothingLost
<1>3. CASE TryPop
  <2>1. CASE queue = <<>> \/ stopped
    BY <1>3, <2>1 DEF TryPop, IInv, TypeOK, Positions, OneAtATime, Drained, NothingLost
  <2>2. CASE ~(queue = <<>> \/ stopped)
    <3>1. /\ Head(queue) \in Command
          /\ Tail(queue) \in Seq(Command)
      BY <1>0, <2>2, HeadTailProperties
    <3>2. /\ Append(performed, Head(queue)) \in Seq(Command)
          /\ Len(Append(performed, Head(queue))) = Len(performed) + 1
      BY <1>0, <3>1, AppendProperties
    <3>3. TypeOK'
      <4>1. finished' \in 0..Len(performed')
        BY <1>0, <1>3, <2>2, <3>2 DEF TryPop, IInv, TypeOK
      <4> QED
        BY <1>0, <1>3, <2>2, <3>1, <3>2, <4>1 DEF TryPop, IInv, TypeOK
    <3>4. OneAtATime'
      BY <1>0, <1>3, <2>2, <3>2 DEF TryPop, IInv, OneAtATime
    <3>5. NothingLost'
      BY <1>0, <1>3, <2>2, ConcatTake DEF TryPop, IInv, NothingLost
    <3> QED
      BY <1>3, <2>2, <3>3, <3>4, <3>5 DEF TryPop, IInv, Positions, Drained
  <2> QED  BY <2>1, <2>2
<1>4. CASE ExecuteReturns
  BY <1>0, <1>4 DEF ExecuteReturns, IInv, TypeOK, Positions, OneAtATime, Drained, NothingLost
<1>5. CASE Wake
  BY <1>5 DEF Wake, history, IInv, TypeOK, Positions, OneAtATime, Drained, NothingLost
<1>6. CASE Start
  BY <1>6 DEF Start, history, IInv, TypeOK, Positions, OneAtATime, Drained, NothingLost
<1>7. CASE StopExchange
  BY <1>7 DEF StopExchange, history, IInv, TypeOK, Positions, OneAtATime, Drained, NothingLost
<1>8. CASE QueueStop
  BY <1>8, EmptySeq DEF QueueStop, history, IInv, TypeOK, Positions, OneAtATime, Drained, NothingLost
<1>9. CASE Join
  BY <1>9 DEF Join, history, IInv, TypeOK, Positions, OneAtATime, Drained, NothingLost
<1>10. CASE Destroy
  BY <1>10 DEF Destroy, history, IInv, TypeOK, Positions, OneAtATime, Drained, NothingLost
<1>11. CASE UNCHANGED vars
  BY <1>11 DEF vars, IInv, TypeOK, Positions, OneAtATime, Drained, NothingLost
<1> QED
  BY <1>1, <1>2, <1>3, <1>4, <1>5, <1>6, <1>7, <1>8, <1>9, <1>10, <1>11 DEF Next, RunLoop, Stop

LEMMA Invariance == Spec => []IInv
  BY InitIInv, NextIInv, PTL DEF Spec

-----------------------------------------------------------------------------
(* Every variable keeps its type, and no more executions return than began. *)
THEOREM TypeCorrect == Spec => []TypeOK
<1>1. IInv => TypeOK
  BY DEF IInv
<1> QED  BY <1>1, Invariance, PTL

(* Between Push and Execute the open queue loses, repeats and reorders
   nothing. *)
THEOREM NothingIsLost == Spec => []NothingLost
<1>1. IInv => NothingLost
  BY DEF IInv
<1> QED  BY <1>1, Invariance, PTL

(* CommandProcessor::Stop returns only when nothing executes, nothing waits
   and the worker thread has ended. *)
THEOREM QuietWhenStopped == Spec => []QuietAfterStop
<1>1. IInv => QuietAfterStop
  BY DEF IInv, Positions, OneAtATime, Drained, QuietAfterStop
<1> QED  BY <1>1, Invariance, PTL

(* The threads, the flags and the locked queue implement the ordered
   executor: one command at a time, in the order of the pushes, none begun
   after CommandQueue::Stop. *)
THEOREM Implementation == Spec => ImplementsExecutor
<1>1. Init => Abstract!Init
  BY DEF Init, Abstract!Init
<1>2. IInv /\ [Next]_vars => [Abstract!Next]_Abstract!vars
  <2> SUFFICES ASSUME IInv, [Next]_vars PROVE [Abstract!Next]_Abstract!vars
    OBVIOUS
  <2>0. performed \in Seq(Command) /\ queue \in Seq(Command) /\ Len(performed) \in Nat
    BY LenProperties DEF IInv, TypeOK
  <2>1. ASSUME NEW c \in Command, Push(c) PROVE Abstract!Accept(c) \/ UNCHANGED Abstract!vars
    BY <2>1 DEF Push, Abstract!Accept, Abstract!vars
  <2>2. CASE TryPop
    <3>1. CASE queue = <<>> \/ stopped
      BY <2>2, <3>1 DEF TryPop, Abstract!vars
    <3>2. CASE ~(queue = <<>> \/ stopped)
      <4>1. /\ accepted = performed \o queue
            /\ accepted[Len(performed) + 1] = Head(queue)
            /\ Len(performed) < Len(accepted)
        BY <2>0, <3>2, ConcatTake DEF IInv, NothingLost
      <4>2. finished = Len(performed)
        BY <2>2 DEF TryPop, IInv, OneAtATime
      <4> QED
        BY <2>2, <3>2, <4>1, <4>2 DEF TryPop, Abstract!Next, Abstract!Begin
    <3> QED  BY <3>1, <3>2
  <2>3. CASE ExecuteReturns
    <3>1. finished < Len(performed)
      BY <2>0, <2>3 DEF ExecuteReturns, IInv, OneAtATime
    <3> QED
      BY <2>3, <3>1 DEF ExecuteReturns, Abstract!Next, Abstract!Return
  <2>4. CASE QueueStop
    <3>1. ~stopped
      BY <2>4 DEF QueueStop, IInv, Positions
    <3> QED
      BY <2>4, <3>1 DEF QueueStop, history, Abstract!Next, Abstract!Close
  <2>5. CASE TestRunning \/ Wake \/ Start \/ StopExchange \/ Join \/ Destroy
    BY <2>5 DEF TestRunning, Wake, Start, StopExchange, Join, Destroy, history, Abstract!vars
  <2>6. CASE UNCHANGED vars
    BY <2>6 DEF vars, Abstract!vars
  <2> QED
    BY <2>1, <2>2, <2>3, <2>4, <2>5, <2>6 DEF Next, RunLoop, Stop, Abstract!Next
<1> QED  BY <1>1, <1>2, Invariance, PTL DEF Spec, Abstract!Spec, ImplementsExecutor

-----------------------------------------------------------------------------
(* No name stands in two rows of a table. *)
FunctionTable(table) == \A row, other \in table : row[1] = other[1] => row = other

(* A name that a case lists has the value of its row ... *)
LEMMA LookupFinds ==
  ASSUME NEW table, FunctionTable(table), NEW row \in table, NEW default
  PROVE  Lookup(table, row[1], default) = row[2]
BY DEF Lookup, FunctionTable

(* ... and one that no case lists has the default. *)
LEMMA LookupFails ==
  ASSUME NEW table, NEW name, NEW default, \A row \in table : row[1] # name
  PROVE  Lookup(table, name, default) = default
BY DEF Lookup

(* When each row read is written the other way round, a listed name comes back, and any other
   becomes what is written for the unknown. *)
LEMMA TablesInvert ==
  ASSUME NEW read, NEW write, NEW s, NEW unknown, NEW default,
         FunctionTable(read), FunctionTable(write),
         \A row \in read : <<row[2], row[1]>> \in write
  PROVE  /\ (\E row \in read : row[1] = s) => Lookup(write, Lookup(read, s, unknown), default) = s
         /\ ~(\E row \in read : row[1] = s) =>
              Lookup(write, Lookup(read, s, unknown), default) = Lookup(write, unknown, default)
<1>1. ASSUME NEW row \in read, row[1] = s
      PROVE  Lookup(write, Lookup(read, s, unknown), default) = s
  <2>1. Lookup(read, s, unknown) = row[2]
    BY <1>1, LookupFinds
  <2>2. Lookup(write, <<row[2], row[1]>>[1], default) = <<row[2], row[1]>>[2]
    BY LookupFinds
  <2> QED  BY <2>1, <2>2, <1>1
<1> QED  BY <1>1, LookupFails

(* So it is with each pair of the name functions: a name of the standard set comes back, and
   whatever was read, what is written is in the set.  The roles of DTLS ... *)
LEMMA RoleNames ==
  ASSUME NEW s
  PROVE  /\ s \in Roles => DtlsRoleToString(StringToDtlsRole(s)) = s
         /\ DtlsRoleToString(StringToDtlsRole(s)) \in Roles
<1>1. /\ FunctionTable(DtlsRoleRead)
      /\ FunctionTable(DtlsRoleWritten)
      /\ \A row \in DtlsRoleRead : <<row[2], row[1]>> \in DtlsRoleWritten
  BY DEF FunctionTable, DtlsRoleRead, DtlsRoleWritten
<1>2. s \in Roles => \E row \in DtlsRoleRead : row[1] = s
  BY DEF Roles, DtlsRoleRead
<1>3. \A row \in DtlsRoleRead : row[1] \in Roles
  BY DEF Roles, DtlsRoleRead
<1>4. DtlsRoleToString("AUTO") \in Roles
  <2>1. <<"AUTO", "auto">> \in DtlsRoleWritten
    BY DEF DtlsRoleWritten
  <2>2. Lookup(DtlsRoleWritten, <<"AUTO", "auto">>[1], "auto") = <<"AUTO", "auto">>[2]
    BY <1>1, <2>1, LookupFinds
  <2> QED  BY <2>2 DEF Roles, DtlsRoleToString
<1> QED  BY <1>1, <1>2, <1>3, <1>4, TablesInvert DEF StringToDtlsRole, DtlsRoleToString

(* ... the algorithms of fingerprints ... *)
LEMMA AlgorithmNames ==
  ASSUME NEW s
  PROVE  /\ s \in Algorithms => DtlsFingerprintAlgorithmToString(StringToDtlsFingerprintAlgorithm(s)) = s
         /\ DtlsFingerprintAlgorithmToString(StringToDtlsFingerprintAlgorithm(s)) \in Algorithms
<1>1. /\ FunctionTable(DtlsFingerprintAlgorithmRead)
      /\ FunctionTable(DtlsFingerprintAlgorithmWritten)
      /\ \A row \in DtlsFingerprintAlgorithmRead : <<row[2], row[1]>> \in DtlsFingerprintAlgorithmWritten
  BY DEF FunctionTable, DtlsFingerprintAlgorithmRead, DtlsFingerprintAlgorithmWritten
<1>2. s \in Algorithms => \E row \in DtlsFingerprintAlgorithmRead : row[1] = s
  BY DEF Algorithms, DtlsFingerprintAlgorithmRead
<1>3. \A row \in DtlsFingerprintAlgorithmRead : row[1] \in Algorithms
  BY DEF Algorithms, DtlsFingerprintAlgorithmRead
<1>4. DtlsFingerprintAlgorithmToString("SHA256") \in Algorithms
  <2>1. <<"SHA256", "sha-256">> \in DtlsFingerprintAlgorithmWritten
    BY DEF DtlsFingerprintAlgorithmWritten
  <2>2. Lookup(DtlsFingerprintAlgorithmWritten, <<"SHA256", "sha-256">>[1], "sha-256")
          = <<"SHA256", "sha-256">>[2]
    BY <1>1, <2>1, LookupFinds
  <2> QED  BY <2>2 DEF Algorithms, DtlsFingerprintAlgorithmToString
<1> QED  BY <1>1, <1>2, <1>3, <1>4, TablesInvert DEF StringToDtlsFingerprintAlgorithm, DtlsFingerprintAlgorithmToString

(* ... the URIs of header extensions, where an unknown one becomes empty and stays so ... *)
LEMMA UriNames ==
  ASSUME NEW s
  PROVE  /\ s \in Uris => RtpHeaderExtensionUriToString(StringToRtpHeaderExtensionUri(s)) = s
         /\ RtpHeaderExtensionUriToString(StringToRtpHeaderExtensionUri(s)) \in Uris
<1>1. /\ FunctionTable(RtpHeaderExtensionUriRead)
      /\ FunctionTable(RtpHeaderExtensionUriWritten)
      /\ \A row \in RtpHeaderExtensionUriRead : <<row[2], row[1]>> \in RtpHeaderExtensionUriWritten
  BY DEF FunctionTable, RtpHeaderExtensionUriRead, RtpHeaderExtensionUriWritten
<1>2. /\ s \in Uris \ {Empty} => \E row \in RtpHeaderExtensionUriRead : row[1] = s
      /\ \A row \in RtpHeaderExtensionUriRead : row[1] # Empty
  BY DEF Empty, Uris, RtpHeaderExtensionUriRead
<1>3. \A row \in RtpHeaderExtensionUriRead : row[1] \in Uris
  BY DEF Empty, Uris, RtpHeaderExtensionUriRead
<1>4. RtpHeaderExtensionUriToString("UNSPECIFIED") = Empty /\ Empty \in Uris
  BY LookupFails DEF Empty, Uris, RtpHeaderExtensionUriToString, RtpHeaderExtensionUriWritten
<1> QED  BY <1>1, <1>2, <1>3, <1>4, TablesInvert DEF StringToRtpHeaderExtensionUri, RtpHeaderExtensionUriToString

(* ... their directions ... *)
LEMMA DirectionNames ==
  ASSUME NEW s
  PROVE  /\ s \in Directions => RtpHeaderExtensionDirectionToString(StringToRtpHeaderExtensionDirection(s)) = s
         /\ RtpHeaderExtensionDirectionToString(StringToRtpHeaderExtensionDirection(s)) \in Directions
<1>1. /\ FunctionTable(RtpHeaderExtensionDirectionRead)
      /\ FunctionTable(RtpHeaderExtensionDirectionWritten)
      /\ \A row \in RtpHeaderExtensionDirectionRead : <<row[2], row[1]>> \in RtpHeaderExtensionDirectionWritten
  BY DEF FunctionTable, RtpHeaderExtensionDirectionRead, RtpHeaderExtensionDirectionWritten
<1>2. s \in Directions => \E row \in RtpHeaderExtensionDirectionRead : row[1] = s
  BY DEF Directions, RtpHeaderExtensionDirectionRead
<1>3. \A row \in RtpHeaderExtensionDirectionRead : row[1] \in Directions
  BY DEF Directions, RtpHeaderExtensionDirectionRead
<1>4. RtpHeaderExtensionDirectionToString("UNSPECIFIED") \in Directions
  BY LookupFails DEF Directions, RtpHeaderExtensionDirectionToString, RtpHeaderExtensionDirectionWritten
<1> QED  BY <1>1, <1>2, <1>3, <1>4, TablesInvert DEF StringToRtpHeaderExtensionDirection, RtpHeaderExtensionDirectionToString

(* ... the kinds of media ... *)
LEMMA KindNames ==
  ASSUME NEW s
  PROVE  /\ s \in MediaKinds => MediaKindToString(StringToMediaKind(s)) = s
         /\ MediaKindToString(StringToMediaKind(s)) \in MediaKinds
<1>1. /\ FunctionTable(MediaKindRead)
      /\ FunctionTable(MediaKindWritten)
      /\ \A row \in MediaKindRead : <<row[2], row[1]>> \in MediaKindWritten
  BY DEF FunctionTable, MediaKindRead, MediaKindWritten
<1>2. s \in MediaKinds => \E row \in MediaKindRead : row[1] = s
  BY DEF MediaKinds, MediaKindRead
<1>3. \A row \in MediaKindRead : row[1] \in MediaKinds
  BY DEF MediaKinds, MediaKindRead
<1>4. MediaKindToString("UNSPECIFIED") \in MediaKinds
  BY LookupFails DEF MediaKinds, MediaKindToString, MediaKindWritten
<1> QED  BY <1>1, <1>2, <1>3, <1>4, TablesInvert DEF StringToMediaKind, MediaKindToString

(* ... the codecs of audio ... *)
LEMMA AudioNames ==
  ASSUME NEW s
  PROVE  /\ s \in AudioTypes => MimeTypeAudioToString(StringToMimeTypeAudio(s)) = s
         /\ MimeTypeAudioToString(StringToMimeTypeAudio(s)) \in AudioTypes
<1>1. /\ FunctionTable(MimeTypeAudioRead)
      /\ FunctionTable(MimeTypeAudioWritten)
      /\ \A row \in MimeTypeAudioRead : <<row[2], row[1]>> \in MimeTypeAudioWritten
  BY DEF FunctionTable, MimeTypeAudioRead, MimeTypeAudioWritten
<1>2. s \in AudioTypes => \E row \in MimeTypeAudioRead : row[1] = s
  BY DEF AudioTypes, MimeTypeAudioRead
<1>3. \A row \in MimeTypeAudioRead : row[1] \in AudioTypes
  BY DEF AudioTypes, MimeTypeAudioRead
<1>4. MimeTypeAudioToString("UNSPECIFIED") \in AudioTypes
  BY LookupFails DEF AudioTypes, MimeTypeAudioToString, MimeTypeAudioWritten
<1> QED  BY <1>1, <1>2, <1>3, <1>4, TablesInvert DEF StringToMimeTypeAudio, MimeTypeAudioToString

(* ... and of video ... *)
LEMMA VideoNames ==
  ASSUME NEW s
  PROVE  /\ s \in VideoTypes => MimeTypeVideoToString(StringToMimeTypeVideo(s)) = s
         /\ MimeTypeVideoToString(StringToMimeTypeVideo(s)) \in VideoTypes
<1>1. /\ FunctionTable(MimeTypeVideoRead)
      /\ FunctionTable(MimeTypeVideoWritten)
      /\ \A row \in MimeTypeVideoRead : <<row[2], row[1]>> \in MimeTypeVideoWritten
  BY DEF FunctionTable, MimeTypeVideoRead, MimeTypeVideoWritten
<1>2. s \in VideoTypes => \E row \in MimeTypeVideoRead : row[1] = s
  BY DEF VideoTypes, MimeTypeVideoRead
<1>3. \A row \in MimeTypeVideoRead : row[1] \in VideoTypes
  BY DEF VideoTypes, MimeTypeVideoRead
<1>4. MimeTypeVideoToString("UNSPECIFIED") \in VideoTypes
  BY LookupFails DEF VideoTypes, MimeTypeVideoToString, MimeTypeVideoWritten
<1> QED  BY <1>1, <1>2, <1>3, <1>4, TablesInvert DEF StringToMimeTypeVideo, MimeTypeVideoToString

(* ... and the scalability modes. *)
LEMMA ModeNames ==
  ASSUME NEW s
  PROVE  /\ s \in ScalabilityModes => ScalabilityModeEnumToString(StringToScalabilityModeEnum(s)) = s
         /\ ScalabilityModeEnumToString(StringToScalabilityModeEnum(s)) \in ScalabilityModes
<1>1. /\ FunctionTable(ScalabilityModeRead)
      /\ FunctionTable(ScalabilityModeWritten)
      /\ \A row \in ScalabilityModeRead : <<row[2], row[1]>> \in ScalabilityModeWritten
  BY DEF FunctionTable, ScalabilityModeRead, ScalabilityModeWritten
<1>2. s \in ScalabilityModes => \E row \in ScalabilityModeRead : row[1] = s
  BY DEF ScalabilityModes, ScalabilityModeRead
<1>3. \A row \in ScalabilityModeRead : row[1] \in ScalabilityModes
  BY DEF ScalabilityModes, ScalabilityModeRead
<1>4. ScalabilityModeEnumToString("UNSPECIFIED") \in ScalabilityModes
  BY LookupFails DEF ScalabilityModes, ScalabilityModeEnumToString, ScalabilityModeWritten
<1> QED  BY <1>1, <1>2, <1>3, <1>4, TablesInvert DEF StringToScalabilityModeEnum, ScalabilityModeEnumToString

-----------------------------------------------------------------------------
(* Induction over the natural numbers, for a set that holds what is to be shown. *)
LEMMA NatSetInduction ==
  ASSUME NEW S \in SUBSET Nat, 0 \in S, \A n \in S : n + 1 \in S
  PROVE  S = Nat
<1> SUFFICES ASSUME S # Nat PROVE FALSE
  OBVIOUS
<1> DEFINE T == Nat \ S
<1>1. T \subseteq Nat /\ T # {}
  OBVIOUS
<1>2. PICK m \in T : \A k \in T : <<k, m>> \notin OpToRel(<, Nat)
  <2> HIDE DEF T
  <2> QED  BY <1>1, WFMin, NatLessThanWellFounded, Zenon
<1>3. m \in Nat /\ m # 0
  OBVIOUS
<1>4. m - 1 \in Nat /\ m - 1 < m
  BY <1>3
<1>5. <<m - 1, m>> \in OpToRel(<, Nat)
  BY <1>3, <1>4, Zenon DEF OpToRel
<1>6. m - 1 \in S
  BY <1>2, <1>4, <1>5, Zenon
<1> QED  BY <1>6, <1>3

(* clean is what Digits computes, up to the first k characters. *)
Cleans(hex, clean, k) ==
  clean = [n \in 0..k |->
    IF n = 0 THEN <<>>
    ELSE IF hex[n] = Colon THEN clean[n - 1] ELSE Append(clean[n - 1], hex[n])]

(* There is such a function for every length, ... *)
LEMMA CleansExists ==
  ASSUME NEW hex, NEW l \in Nat
  PROVE  \E clean : Cleans(hex, clean, l)
<1> DEFINE S == {k \in Nat : \E clean : Cleans(hex, clean, k)}
<1>1. 0 \in S
  <2>1. Cleans(hex, [n \in 0..0 |-> <<>>], 0)
    BY DEF Cleans
  <2> QED  BY <2>1
<1>2. ASSUME NEW k \in S PROVE k + 1 \in S
  <2>1. PICK clean : Cleans(hex, clean, k)
    OBVIOUS
  <2> DEFINE next == [n \in 0..(k + 1) |-> IF n <= k THEN clean[n]
                        ELSE IF hex[n] = Colon THEN clean[n - 1] ELSE Append(clean[n - 1], hex[n])]
  <2>2. \A n \in 0..k : clean[n] = IF n = 0 THEN <<>>
    ELSE IF hex[n] = Colon THEN clean[n - 1] ELSE Append(clean[n - 1], hex[n])
    BY <2>1 DEF Cleans
  <2>3. Cleans(hex, next, k + 1)
    <3>1. \A n \in 0..(k + 1) : next[n] = IF n = 0 THEN <<>>
            ELSE IF hex[n] = Colon THEN next[n - 1] ELSE Append(next[n - 1], hex[n])
      BY <2>2
    <3>2. next = [n \in 0..(k + 1) |-> next[n]]
      OBVIOUS
    <3> HIDE DEF next
    <3> QED  BY <3>1, <3>2, Zenon DEF Cleans
  <2> HIDE DEF next
  <2> QED  BY <2>3
<1>3. S = Nat
  <2> HIDE DEF S
  <2>1. S \in SUBSET Nat  BY DEF S
  <2> QED  BY <1>1, <1>2, <2>1, NatSetInduction
<1> QED  BY <1>3

(* ... so Digits erases the colons one character at a time, as HexStringToBytes does. *)
LEMMA DigitsClean ==
  ASSUME NEW hex \in Seq(0..kHexBase)
  PROVE  \E clean : /\ Digits(hex) = clean[Len(hex)]
                    /\ clean[0] = <<>>
                    /\ \A n \in 1..Len(hex) :
                         clean[n] = IF hex[n] = Colon THEN clean[n - 1]
                                    ELSE Append(clean[n - 1], hex[n])
<1> DEFINE clean == CHOOSE c : Cleans(hex, c, Len(hex))
<1>1. Cleans(hex, clean, Len(hex))
  <2>1. Len(hex) \in Nat
    OBVIOUS
  <2> QED  BY <2>1, CleansExists
<1>2. Digits(hex) = clean[Len(hex)]
  BY DEF Digits, Cleans
<1>3. \A n \in 0..Len(hex) : clean[n] = IF n = 0 THEN <<>>
       ELSE IF hex[n] = Colon THEN clean[n - 1] ELSE Append(clean[n - 1], hex[n])
  <2> HIDE DEF clean
  <2> QED  BY <1>1 DEF Cleans
<1> HIDE DEF clean
<1> QED  BY <1>2, <1>3

(* What is left are digits. *)
LEMMA DigitsAreDigits ==
  ASSUME NEW hex \in Seq(0..kHexBase), kHexBase \in Nat \ {0}
  PROVE  Digits(hex) \in Seq(0..(kHexBase - 1))
<1>1. PICK clean : /\ Digits(hex) = clean[Len(hex)]
                   /\ clean[0] = <<>>
                   /\ \A n \in 1..Len(hex) :
                        clean[n] = IF hex[n] = Colon THEN clean[n - 1]
                                   ELSE Append(clean[n - 1], hex[n])
  BY DigitsClean
<1> DEFINE S == {n \in Nat : n <= Len(hex) => clean[n] \in Seq(0..(kHexBase - 1))}
<1>2. 0 \in S
  <2>1. clean[0] \in Seq(0..(kHexBase - 1))
    BY <1>1, EmptySeq
  <2> QED  BY <2>1
<1>3. ASSUME NEW n \in S PROVE n + 1 \in S
  <2>1. CASE n + 1 <= Len(hex)
    <3>1. clean[n] \in Seq(0..(kHexBase - 1)) /\ n + 1 \in 1..Len(hex)
      BY <2>1
    <3>2. hex[n + 1] \in 0..kHexBase
      BY <3>1, ElementOfSeq
    <3>3. clean[n + 1] = IF hex[n + 1] = Colon THEN clean[n] ELSE Append(clean[n], hex[n + 1])
      BY <1>1, <3>1
    <3>4. hex[n + 1] # Colon => hex[n + 1] \in 0..(kHexBase - 1)
      BY <3>2 DEF Colon
    <3>5. clean[n + 1] \in Seq(0..(kHexBase - 1))
      <4>1. hex[n + 1] = Colon => clean[n + 1] = clean[n]
        BY <3>3
      <4>2. hex[n + 1] # Colon => clean[n + 1] = Append(clean[n], hex[n + 1])
        BY <3>3
      <4> DEFINE D == 0..(kHexBase - 1)
      <4>3. clean[n] \in Seq(D) /\ (hex[n + 1] # Colon => hex[n + 1] \in D)
        BY <3>1, <3>4
      <4> HIDE DEF D
      <4>4. clean[n + 1] \in Seq(D)
        <5>1. CASE hex[n + 1] = Colon
          BY <5>1, <4>1, <4>3
        <5>2. CASE hex[n + 1] # Colon
          <6>1. hex[n + 1] \in D /\ clean[n] \in Seq(D)
            BY <5>2, <4>3
          <6>2. Append(clean[n], hex[n + 1]) \in Seq(D)
            BY ONLY <6>1, AppendProperties
          <6> QED  BY <6>2, <5>2, <4>2
        <5> QED  BY <5>1, <5>2
      <4> QED  BY <4>4 DEF D
    <3> QED  BY <3>5
  <2> QED  BY <2>1
<1>4. S = Nat
  <2> HIDE DEF S
  <2>1. S \in SUBSET Nat  BY DEF S
  <2> QED  BY <1>2, <1>3, <2>1, NatSetInduction
<1>5. Len(hex) \in S
  BY <1>4, LenProperties
<1> QED  BY <1>1, <1>5

(* Where the digits of canonical hex stand when every third character is erased. *)
LEMMA DigitPlace ==
  ASSUME NEW n \in Nat
  PROVE  /\ (n + 1) % 3 = 0 => (n + 1) - (n + 1) \div 3 = n - n \div 3
         /\ (n + 1) % 3 # 0 => /\ (n + 1) - (n + 1) \div 3 = n - n \div 3 + 1
                               /\ (n - n \div 3 + 1) + (n - n \div 3) \div 2 = n + 1
         /\ n - n \div 3 \in Nat
<1>1. PICK q \in Nat : n = 3 * q \/ n = 3 * q + 1 \/ n = 3 * q + 2
  <2>1. n \div 3 \in Nat /\ n = 3 * (n \div 3) + (n % 3) /\ n % 3 \in 0..2
    OBVIOUS
  <2> QED  BY <2>1
<1>2. CASE n = 3 * q
  <2>1. n \div 3 = q /\ (n + 1) \div 3 = q /\ (2 * q) \div 2 = q
    BY <1>2
  <2> QED  BY <1>2, <2>1
<1>3. CASE n = 3 * q + 1
  <2>1. n \div 3 = q /\ (n + 1) \div 3 = q /\ (2 * q + 1) \div 2 = q
    BY <1>3
  <2> QED  BY <1>3, <2>1
<1>4. CASE n = 3 * q + 2
  <2>1. n \div 3 = q /\ (n + 1) \div 3 = q + 1 /\ (n + 1) % 3 = 0
    BY <1>4
  <2> QED  BY <1>4, <2>1
<1> QED  BY <1>1, <1>2, <1>3, <1>4

(* Of canonical hex, the colons at every third place are gone. *)
LEMMA DigitsOfHex ==
  ASSUME NEW hex, IsHex(hex), kHexBase \in Nat \ {0}
  PROVE  /\ Len(Digits(hex)) = Len(hex) - Len(hex) \div 3
         /\ \A i \in 1..Len(Digits(hex)) : Digits(hex)[i] = hex[i + (i - 1) \div 2]
<1>0. hex \in Seq(0..kHexBase) /\ Len(hex) \in Nat
  BY LenProperties DEF IsHex
<1>1. PICK clean : /\ Digits(hex) = clean[Len(hex)]
                   /\ clean[0] = <<>>
                   /\ \A n \in 1..Len(hex) :
                        clean[n] = IF hex[n] = Colon THEN clean[n - 1]
                                   ELSE Append(clean[n - 1], hex[n])
  BY <1>0, DigitsClean
<1> DEFINE Cleaned(n) == /\ clean[n] \in Seq(0..kHexBase)
                         /\ Len(clean[n]) = n - n \div 3
                         /\ \A i \in 1..(n - n \div 3) : clean[n][i] = hex[i + (i - 1) \div 2]
           S == {n \in Nat : n <= Len(hex) => Cleaned(n)}
<1>2. 0 \in S
  <2>1. clean[0] \in Seq(0..kHexBase) /\ Len(clean[0]) = 0 /\ 0 - 0 \div 3 = 0
    BY <1>1, EmptySeq
  <2>2. Cleaned(0)
    BY <2>1
  <2> HIDE DEF Cleaned
  <2> QED  BY <2>2
<1>3. ASSUME NEW n \in S PROVE n + 1 \in S
  <2>1. CASE n + 1 <= Len(hex)
    <3>1. Cleaned(n) /\ n + 1 \in 1..Len(hex) /\ n \in Nat
      <4>1. n \in Nat /\ (n <= Len(hex) => Cleaned(n))
        OBVIOUS
      <4> HIDE DEF Cleaned, S
      <4> QED  BY <4>1, <2>1, <1>0
    <3>2. hex[n + 1] \in 0..kHexBase
      BY <3>1, <1>0, ElementOfSeq
    <3>3. clean[n + 1] = IF hex[n + 1] = Colon THEN clean[n] ELSE Append(clean[n], hex[n + 1])
      BY <1>1, <3>1
    <3>4. hex[n + 1] = Colon <=> (n + 1) % 3 = 0
      BY <3>1, <1>0 DEF IsHex
    <3>5. CASE (n + 1) % 3 = 0
      <4>1. (n + 1) - (n + 1) \div 3 = n - n \div 3
        BY <3>5, <3>1, DigitPlace
      <4>2. clean[n + 1] = clean[n]
        BY <3>3, <3>4, <3>5
      <4>3. Cleaned(n + 1)
        BY <4>1, <4>2, <3>1
      <4> HIDE DEF Cleaned
      <4> QED  BY <4>3
    <3>6. CASE (n + 1) % 3 # 0
      <4>1. (n + 1) - (n + 1) \div 3 = (n - n \div 3) + 1
        BY <3>6, <3>1, DigitPlace
      <4>2. clean[n + 1] = Append(clean[n], hex[n + 1])
        BY <3>3, <3>4, <3>6
      <4> DEFINE m == (n - n \div 3) + 1
      <4>3. m + (m - 1) \div 2 = n + 1 /\ m \in Nat \ {0}
        BY <3>6, <3>1, DigitPlace
      <4>4. /\ clean[n + 1] \in Seq(0..kHexBase)
            /\ Len(clean[n + 1]) = m
            /\ clean[n + 1][m] = hex[n + 1]
            /\ \A i \in 1..(m - 1) : clean[n + 1][i] = clean[n][i]
        <5>1. clean[n] \in Seq(0..kHexBase) /\ Len(clean[n]) = m - 1
          BY <3>1, <4>3
        <5> HIDE DEF m
        <5> QED  BY <4>2, <4>3, <5>1, <3>2, AppendProperties
      <4>5. \A i \in 1..m : clean[n + 1][i] = hex[i + (i - 1) \div 2]
        <5> SUFFICES ASSUME NEW i \in 1..m PROVE clean[n + 1][i] = hex[i + (i - 1) \div 2]
          OBVIOUS
        <5>1. CASE i = m
          BY <5>1, <4>3, <4>4
        <5>2. CASE i # m
          <6>1. i \in 1..(m - 1) /\ i \in 1..(n - n \div 3)
            BY <5>2, <4>3
          <6> QED  BY <6>1, <4>4, <3>1
        <5> QED  BY <5>1, <5>2
      <4>6. Cleaned(n + 1)
        BY <4>1, <4>4, <4>5
      <4> HIDE DEF Cleaned
      <4> QED  BY <4>6, <3>1
    <3> QED  BY <3>5, <3>6
  <2>2. n \in Nat
    OBVIOUS
  <2> HIDE DEF Cleaned
  <2> QED  BY <2>1, <2>2
<1>4. S = Nat
  <2> HIDE DEF S
  <2>1. S \in SUBSET Nat  BY DEF S
  <2> QED  BY <1>2, <1>3, <2>1, NatSetInduction
<1>5. Cleaned(Len(hex))
  <2>1. Len(hex) \in S
    BY <1>4, <1>0
  <2> HIDE DEF Cleaned
  <2> QED  BY <2>1, <1>0
<1> QED  BY <1>1, <1>5

(* A byte and its two digits determine each other. *)
LEMMA DivMod ==
  ASSUME NEW b \in Nat \ {0}, NEW q \in Nat, NEW r \in 0..(b - 1)
  PROVE  (q * b + r) \div b = q /\ (q * b + r) % b = r
OBVIOUS
LEMMA DivRange ==
  ASSUME NEW b \in Nat \ {0}, NEW x \in 0..(b * b - 1)
  PROVE  /\ x \div b \in 0..(b - 1) /\ x % b \in 0..(b - 1)
         /\ (x \div b) * b + (x % b) = x
OBVIOUS
LEMMA ByteRange ==
  ASSUME NEW b \in Nat \ {0}, NEW q \in 0..(b - 1), NEW r \in 0..(b - 1)
  PROVE  q * b + r \in 0..(b * b - 1)
OBVIOUS

(* What two digits make. *)
Byte == 0..(kHexBase * kHexBase - 1)

(* What is read from digits are bytes. *)
LEMMA BytesAreBytes ==
  ASSUME NEW hex \in Seq(0..kHexBase), kHexBase \in Nat \ {0}
  PROVE  HexStringToBytes(hex) \in Seq(Byte)
<1> DEFINE digits == Digits(hex)
<1>1. digits \in Seq(0..(kHexBase - 1)) /\ Len(digits) \in Nat
  BY DigitsAreDigits, LenProperties
<1>2. \A i \in 1..Len(digits) : digits[i] \in 0..(kHexBase - 1)
  BY <1>1, ElementOfSeq
<1> HIDE DEF digits
<1> DEFINE l == (Len(digits) + 1) \div 2
<1>3. l \in Nat /\ \A i \in 1..l : 2 * i - 1 \in 1..Len(digits)
  BY <1>1
<1>4. ASSUME NEW i \in 1..l
      PROVE  (IF 2 * i <= Len(digits) THEN digits[2 * i - 1] * kHexBase + digits[2 * i]
                                      ELSE digits[2 * i - 1]) \in Byte
  <2>1. digits[2 * i - 1] \in 0..(kHexBase - 1)
    BY <1>2, <1>3
  <2>2. CASE 2 * i <= Len(digits)
    <3>1. digits[2 * i] \in 0..(kHexBase - 1)
      BY <1>1, <1>2, <1>3, <2>2
    <3> QED  BY <2>1, <2>2, <3>1, ByteRange DEF Byte
  <2>3. CASE ~(2 * i <= Len(digits))
    <3>1. 0 * kHexBase + digits[2 * i - 1] \in 0..(kHexBase * kHexBase - 1)
      BY <2>1, ByteRange
    <3> QED  BY <2>1, <2>3, <3>1 DEF Byte
  <2> QED  BY <2>2, <2>3
<1> HIDE DEF l
<1>5. [i \in 1..l |-> IF 2 * i <= Len(digits) THEN digits[2 * i - 1] * kHexBase + digits[2 * i]
                                      ELSE digits[2 * i - 1]] \in Seq(Byte)
  BY <1>3, <1>4, IsASeq
<1> QED  BY <1>5 DEF HexStringToBytes, PairsToBytes, digits, l

(* What is written of bytes is hex. *)
LEMMA BytesBecomeHex ==
  ASSUME NEW bytes \in Seq(Byte), kHexBase \in Nat \ {0}
  PROVE  IsHex(BytesToHexString(bytes)) /\ Len(BytesToHexString(bytes))
           = IF bytes = <<>> THEN 0 ELSE 3 * Len(bytes) - 1
<1> DEFINE l == IF bytes = <<>> THEN 0 ELSE 3 * Len(bytes) - 1
           Char(i) == LET byte == bytes[(i + 2) \div 3] IN
                       CASE i % 3 = 1 -> byte \div kHexBase
                         [] i % 3 = 2 -> byte % kHexBase
                         [] i % 3 = 0 -> Colon
           hex == [i \in 1..l |-> Char(i)]
<1>1. Len(bytes) \in Nat /\ (bytes # <<>> => Len(bytes) > 0)
  BY LenProperties, EmptySeq
<1>2. l \in Nat /\ (l = 0 \/ l % 3 = 2) /\ (l = 0 <=> bytes = <<>>)
  <2>1. CASE bytes = <<>>
    BY <2>1
  <2>2. CASE bytes # <<>>
    <3>1. Len(bytes) \in Nat /\ Len(bytes) > 0 /\ l = 3 * Len(bytes) - 1
      BY <2>2, <1>1
    <3> HIDE DEF l
    <3>2. l % 3 = 2 /\ l \in Nat \ {0}
      BY <3>1
    <3> QED  BY <3>2, <2>2
  <2> QED  BY <2>1, <2>2
<1>3. ASSUME NEW i \in 1..l
      PROVE  Char(i) \in 0..kHexBase /\ (Char(i) = Colon <=> i % 3 = 0)
  <2>1. (i + 2) \div 3 \in 1..Len(bytes)
    BY <1>1, <1>2
  <2>2. bytes[(i + 2) \div 3] \in 0..(kHexBase * kHexBase - 1)
    BY <2>1, ElementOfSeq DEF Byte
  <2>3. /\ bytes[(i + 2) \div 3] \div kHexBase \in 0..(kHexBase - 1)
        /\ bytes[(i + 2) \div 3] % kHexBase \in 0..(kHexBase - 1)
    BY <2>2, DivRange
  <2>4. i % 3 = 0 \/ i % 3 = 1 \/ i % 3 = 2
    OBVIOUS
  <2> QED  BY <2>3, <2>4 DEF Colon
<1>4. hex = BytesToHexString(bytes)
  BY Zenon DEF BytesToHexString
<1> HIDE DEF l, Char
<1>5. hex \in Seq(0..kHexBase) /\ Len(hex) = l /\ DOMAIN hex = 1..l
  BY <1>2, <1>3, IsASeq, LenProperties
<1>6. hex = <<>> \/ Len(hex) % 3 = 2
  <2>1. Len(hex) = 0 => hex = <<>>
    BY <1>5, EmptySeq
  <2> QED  BY <2>1, <1>5, <1>2
<1>7. \A i \in DOMAIN hex : hex[i] = Colon <=> i % 3 = 0
  BY <1>3, <1>5
<1> HIDE DEF hex
<1>8. IsHex(hex)
  BY <1>5, <1>6, <1>7 DEF IsHex
<1> QED  BY <1>4, <1>5, <1>8 DEF l

(* Hex that is read and written again is what it was. *)
LEMMA HexReturns ==
  ASSUME NEW hex, IsHex(hex), kHexBase \in Nat \ {0}
  PROVE  BytesToHexString(HexStringToBytes(hex)) = hex
<1> DEFINE digits == Digits(hex)
           bytes == HexStringToBytes(hex)
           l == Len(hex)
<1>1. hex \in Seq(0..kHexBase) /\ l \in Nat /\ (l = 0 \/ l % 3 = 2)
  BY LenProperties, EmptySeq DEF IsHex
<1>2. Len(digits) = l - l \div 3 /\ \A i \in 1..Len(digits) : digits[i] = hex[i + (i - 1) \div 2]
  BY DigitsOfHex
<1>3. \A i \in 1..l : hex[i] \in 0..kHexBase /\ (hex[i] = Colon <=> i % 3 = 0)
  BY <1>1, ElementOfSeq DEF IsHex
<1>4. PICK n \in Nat : (l = 0 /\ n = 0) \/ (l = 3 * n - 1 /\ n > 0)
  <2>1. l = 0 \/ (l = 3 * ((l + 1) \div 3) - 1 /\ (l + 1) \div 3 > 0)
    BY <1>1
  <2> QED  BY <2>1, <1>1
<1>5. Len(digits) = 2 * n
  <2>1. l = 3 * n - 1 /\ n > 0 => l \div 3 = n - 1
    BY <1>1
  <2> QED  BY <2>1, <1>2, <1>4
<1> HIDE DEF digits, l
<1>6. bytes = [i \in 1..n |-> digits[2 * i - 1] * kHexBase + digits[2 * i]]
  <2>1. (Len(digits) + 1) \div 2 = n
    BY <1>5
  <2> QED  BY <2>1, <1>5 DEF HexStringToBytes, PairsToBytes, digits
<1>7. \A i \in 1..n : digits[2 * i - 1] = hex[3 * i - 2] /\ digits[2 * i] = hex[3 * i - 1]
  <2> SUFFICES ASSUME NEW i \in 1..n
               PROVE  digits[2 * i - 1] = hex[3 * i - 2] /\ digits[2 * i] = hex[3 * i - 1]
    OBVIOUS
  <2>1. (2 * i - 2) \div 2 = i - 1 /\ (2 * i - 1) \div 2 = i - 1
    OBVIOUS
  <2>2. /\ 2 * i - 1 \in 1..Len(digits) /\ (2 * i - 1) + ((2 * i - 1) - 1) \div 2 = 3 * i - 2
        /\ 2 * i \in 1..Len(digits) /\ 2 * i + (2 * i - 1) \div 2 = 3 * i - 1
    BY <2>1, <1>5
  <2>3. digits[2 * i - 1] = hex[(2 * i - 1) + ((2 * i - 1) - 1) \div 2]
    BY <1>2, <2>2
  <2>4. digits[2 * i] = hex[2 * i + (2 * i - 1) \div 2]
    BY <1>2, <2>2
  <2> QED  BY <2>2, <2>3, <2>4
<1> HIDE DEF bytes
<1>8. \A i \in 1..n : /\ bytes[i] \div kHexBase = hex[3 * i - 2]
                      /\ bytes[i] % kHexBase = hex[3 * i - 1]
  <2> SUFFICES ASSUME NEW i \in 1..n
               PROVE  bytes[i] \div kHexBase = hex[3 * i - 2] /\ bytes[i] % kHexBase = hex[3 * i - 1]
    OBVIOUS
  <2>1. /\ 3 * i - 2 \in 1..l /\ 3 * i - 1 \in 1..l
        /\ (3 * i - 2) % 3 # 0 /\ (3 * i - 1) % 3 # 0
    BY <1>4
  <2>2. hex[3 * i - 2] \in 0..(kHexBase - 1) /\ hex[3 * i - 1] \in 0..(kHexBase - 1)
    BY <1>3, <2>1 DEF Colon
  <2>3. bytes[i] = hex[3 * i - 2] * kHexBase + hex[3 * i - 1]
    BY <1>6, <1>7
  <2> DEFINE q == hex[3 * i - 2]
             r == hex[3 * i - 1]
  <2>4. q \in Nat /\ r \in 0..(kHexBase - 1) /\ bytes[i] = q * kHexBase + r
    BY <2>2, <2>3
  <2> HIDE DEF q, r
  <2>5. bytes[i] \div kHexBase = q /\ bytes[i] % kHexBase = r
    BY <2>4, DivMod
  <2> QED  BY <2>5 DEF q, r
<1>9. (bytes = <<>> <=> n = 0) /\ Len(bytes) = n
  <2>1. n = 0 => bytes = <<>>
    BY <1>6
  <2>2. Len(bytes) = n
    BY <1>6
  <2> QED  BY <2>1, <2>2
<1>10. l = (IF bytes = <<>> THEN 0 ELSE 3 * Len(bytes) - 1)
  BY <1>4, <1>9
<1>11. ASSUME NEW i \in 1..l
       PROVE  hex[i] = LET byte == bytes[(i + 2) \div 3] IN
                         CASE i % 3 = 1 -> byte \div kHexBase
                           [] i % 3 = 2 -> byte % kHexBase
                           [] i % 3 = 0 -> Colon
  <2> DEFINE k == (i + 2) \div 3
  <2>1. k \in 1..n /\ i \in 1..(3 * n - 1)
    BY <1>4
  <2>2. CASE i % 3 = 1
    <3>1. i = 3 * k - 2
      BY <2>2
    <3> QED  BY <3>1, <2>1, <2>2, <1>8
  <2>3. CASE i % 3 = 2
    <3>1. i = 3 * k - 1
      BY <2>3
    <3> QED  BY <3>1, <2>1, <2>3, <1>8
  <2>4. CASE i % 3 = 0
    BY <2>4, <1>3
  <2>5. i % 3 = 0 \/ i % 3 = 1 \/ i % 3 = 2
    BY <2>1
  <2> QED  BY <2>2, <2>3, <2>4, <2>5
<1>12. hex = [i \in 1..l |-> hex[i]]
  BY <1>1 DEF l
<1>13. BytesToHexString(bytes) = [i \in 1..l |-> hex[i]]
  BY <1>10, <1>11 DEF BytesToHexString
<1> QED  BY <1>12, <1>13 DEF bytes
(* A standard fingerprint comes back, and what is written of any is standard. *)
LEMMA FingerprintReturns ==
  ASSUME NEW f
  PROVE  /\ StandardFingerprint(f) => /\ Has(f, {"algorithm", "value"})
                                      /\ FingerprintToJson(FingerprintToProto(f)) = f
         /\ Has(f, {"algorithm", "value"}) /\ FingerprintTyped(f) =>
              StandardFingerprint(FingerprintToJson(FingerprintToProto(f)))
<1> DEFINE r == FingerprintToJson(FingerprintToProto(f))
<1>0. kHexBase \in Nat \ {0}
  BY ConvertersAssumption
<1>1. r = [algorithm |-> DtlsFingerprintAlgorithmToString(StringToDtlsFingerprintAlgorithm(f.algorithm)),
           value |-> BytesToHexString(HexStringToBytes(f.value))]
  BY DEF FingerprintToJson, FingerprintToProto
<1>2. ASSUME StandardFingerprint(f)
      PROVE  Has(f, {"algorithm", "value"}) /\ r = f
  <2>1. f = [x \in {"algorithm", "value"} |-> f[x]]
    BY <1>2 DEF StandardFingerprint, Fields, IsObject, Has
  <2>2. DtlsFingerprintAlgorithmToString(StringToDtlsFingerprintAlgorithm(f.algorithm)) = f.algorithm
    BY <1>2, AlgorithmNames DEF StandardFingerprint
  <2>3. BytesToHexString(HexStringToBytes(f.value)) = f.value
    BY <1>0, <1>2, HexReturns DEF StandardFingerprint
  <2> HIDE DEF r
  <2> QED  BY <1>1, <2>1, <2>2, <2>3 DEF Has
<1>3. ASSUME Has(f, {"algorithm", "value"}), FingerprintTyped(f)
      PROVE  StandardFingerprint(r)
  <2>1. f.value \in Seq(0..kHexBase)
    BY <1>3 DEF FingerprintTyped, Has
  <2>2. IsHex(BytesToHexString(HexStringToBytes(f.value)))
    BY <1>0, <2>1, BytesAreBytes, BytesBecomeHex
  <2>3. DtlsFingerprintAlgorithmToString(StringToDtlsFingerprintAlgorithm(f.algorithm)) \in Algorithms
    BY AlgorithmNames
  <2> HIDE DEF r
  <2>4. Fields(r, {"algorithm", "value"}, {})
    BY <1>1 DEF Fields, IsObject, Has
  <2>5. r.algorithm \in Algorithms /\ IsHex(r.value)
    BY <1>1, <2>2, <2>3
  <2> QED  BY <2>4, <2>5 DEF StandardFingerprint
<1> QED  BY <1>2, <1>3

(* The same of DTLS parameters, up to the default of their role. *)
LEMMA DtlsReturns ==
  ASSUME NEW j
  PROVE  /\ StandardDtls(j) => DtlsReadable(j) /\ DtlsToJson(DtlsToProto(j)) = Complete("DtlsParameters", j)
         /\ DtlsReadable(j) /\ Typed("DtlsParameters", j) =>
              /\ StandardDtls(DtlsToJson(DtlsToProto(j)))
              /\ Complete("DtlsParameters", DtlsToJson(DtlsToProto(j))) = DtlsToJson(DtlsToProto(j))
<1> DEFINE r == DtlsToJson(DtlsToProto(j))
           role == DtlsRoleToString(IF Has(j, {"role"}) THEN StringToDtlsRole(j.role) ELSE "UNSPECIFIED")
           back == [i \in DOMAIN j.fingerprints |->
                      FingerprintToJson(FingerprintToProto(j.fingerprints[i]))]
<1>1. r = [role |-> role, fingerprints |-> back]
  BY DEF DtlsToJson, DtlsToProto, Each
<1>2. DtlsRoleToString("UNSPECIFIED") = "auto"
  BY LookupFails DEF DtlsRoleToString, DtlsRoleWritten
<1> HIDE DEF r
<1>3. ASSUME StandardDtls(j)
      PROVE  DtlsReadable(j) /\ r = Complete("DtlsParameters", j)
  <2>1. role = Get(j, "role", "auto")
    BY <1>2, <1>3, RoleNames DEF StandardDtls, Has, Get
  <2>2. \A i \in DOMAIN j.fingerprints : StandardFingerprint(j.fingerprints[i])
    BY <1>3 DEF StandardDtls, ListOf, All
  <2>3. back = j.fingerprints
    <3>1. j.fingerprints = [i \in DOMAIN j.fingerprints |-> j.fingerprints[i]]
      BY <1>3 DEF StandardDtls, ListOf, IsObject
    <3>2. back = [i \in DOMAIN j.fingerprints |-> j.fingerprints[i]]
      BY <2>2, FingerprintReturns
    <3> QED  BY <3>1, <3>2
  <2>4. DtlsReadable(j)
    BY <1>3, <2>2, FingerprintReturns DEF DtlsReadable, StandardDtls, Fields, All
  <2> HIDE DEF role, back
  <2>5. r = j ?? [role |-> "auto"]
    <3>1. DOMAIN j \cup {"role"} = {"role", "fingerprints"}
      BY <1>3 DEF StandardDtls, Fields, Has
    <3> QED  BY <1>1, <2>1, <2>3, <3>1 DEF Get, ??
  <2> QED  BY <2>4, <2>5 DEF Complete
<1>4. ASSUME DtlsReadable(j), Typed("DtlsParameters", j)
      PROVE  StandardDtls(r) /\ Complete("DtlsParameters", r) = r
  <2>1. role \in Roles
    BY <1>2, RoleNames DEF Roles
  <2>2. ListOf(StandardFingerprint, back)
    <3>1. \A i \in DOMAIN j.fingerprints : /\ Has(j.fingerprints[i], {"algorithm", "value"})
                                          /\ FingerprintTyped(j.fingerprints[i])
      BY <1>4 DEF DtlsReadable, Typed, All, ListOf
    <3>2. \A i \in DOMAIN j.fingerprints : StandardFingerprint(back[i])
      BY <3>1, FingerprintReturns
    <3>3. IsObject(back)
      BY DEF IsObject
    <3> QED  BY <3>2, <3>3 DEF ListOf, All
  <2>3. back # <<>>
    <3>1. j.fingerprints # <<>> /\ IsObject(j.fingerprints)
      BY <1>4 DEF DtlsReadable, Typed, ListOf
    <3>2. DOMAIN j.fingerprints # {}
      BY <3>1 DEF IsObject
    <3>3. DOMAIN back # {}
      BY <3>2
    <3> QED  BY <3>3
  <2> HIDE DEF role, back
  <2>4. Fields(r, {"fingerprints"}, {"role"})
    BY <1>1 DEF Fields, IsObject, Has
  <2>5. StandardDtls(r)
    BY <1>1, <2>1, <2>2, <2>3, <2>4 DEF StandardDtls, Get
  <2>6. r ?? [role |-> "auto"] = r
    BY <1>1 DEF ??
  <2> QED  BY <2>5, <2>6 DEF Complete
<1> QED  BY <1>3, <1>4 DEF r

(* Objects with the same fields and values are the same. *)
LEMMA SameObject ==
  ASSUME NEW f, NEW g, IsObject(f), IsObject(g), DOMAIN f = DOMAIN g,
         \A x \in DOMAIN f : f[x] = g[x]
  PROVE  f = g
BY DEF IsObject

(* Strings and numbers in the width of the message come back; what is written of any
   parameters has nothing else. *)
LEMMA ParametersReturn ==
  ASSUME NEW params
  PROVE  /\ ListOf(StandardParameter, params) =>
              ParametersToJsonObject(JsonObjectToParameters(params)) = params
         /\ (\A key \in DOMAIN params : params[key][1] = "number" => params[key][2] \in Int) =>
              ListOf(StandardParameter, ParametersToJsonObject(JsonObjectToParameters(params)))
<1> DEFINE proto == JsonObjectToParameters(params)
           back == ParametersToJsonObject(proto)
<1>0. kUintModulus \in Nat \ {0}
  BY ConvertersAssumption
<1>1. /\ DOMAIN proto = DOMAIN params
      /\ \A key \in DOMAIN params :
           /\ params[key][1] = "string" => proto[key] = params[key]
           /\ params[key][1] = "number" => proto[key] = <<"number", params[key][2] % kUintModulus>>
           /\ params[key][1] \notin {"string", "number"} => proto[key] = <<"unset">>
  BY DEF JsonObjectToParameters
<1> HIDE DEF proto
<1>2. /\ back = [key \in {k \in DOMAIN params : proto[k][1] # "unset"} |-> proto[key]]
      /\ IsObject(back)
  BY <1>1 DEF ParametersToJsonObject, IsObject
<1> HIDE DEF back
<1>3. ASSUME ListOf(StandardParameter, params) PROVE back = params
  <2>1. IsObject(params) /\ \A key \in DOMAIN params : StandardParameter(params[key])
    BY <1>3 DEF ListOf, All
  <2>2. ASSUME NEW key \in DOMAIN params PROVE proto[key] = params[key] /\ proto[key][1] # "unset"
    <3>1. CASE params[key][1] = "string"
      BY <3>1, <1>1
    <3>2. CASE params[key][1] # "string"
      <4>1. PICK x \in 0..(kUintModulus - 1) : params[key] = <<"number", x>>
        BY <3>2, <2>1 DEF StandardParameter
      <4>2. x % kUintModulus = x
        BY <1>0
      <4> QED  BY <4>1, <4>2, <1>1
    <3> QED  BY <3>1, <3>2
  <2>3. DOMAIN back = DOMAIN params /\ \A key \in DOMAIN params : back[key] = params[key]
    BY <1>2, <2>2
  <2> QED  BY <1>2, <2>1, <2>3, SameObject
<1>4. ASSUME \A key \in DOMAIN params : params[key][1] = "number" => params[key][2] \in Int
      PROVE  ListOf(StandardParameter, back)
  <2>1. ASSUME NEW key \in DOMAIN back PROVE StandardParameter(back[key])
    <3>1. key \in DOMAIN params /\ proto[key][1] # "unset" /\ back[key] = proto[key]
      BY <1>2
    <3>2. CASE params[key][1] = "string"
      BY <3>1, <3>2, <1>1 DEF StandardParameter
    <3>3. CASE params[key][1] = "number"
      <4>1. params[key][2] % kUintModulus \in 0..(kUintModulus - 1)
        BY <1>0, <1>4, <3>1, <3>3
      <4>2. back[key] = <<"number", params[key][2] % kUintModulus>>
        BY <3>1, <3>3, <1>1
      <4>3. back[key] \in {"number"} \X (0..(kUintModulus - 1))
        BY <4>1, <4>2
      <4> QED  BY <4>3 DEF StandardParameter
    <3>4. CASE params[key][1] \notin {"string", "number"}
      BY <3>1, <3>4, <1>1
    <3> QED  BY <3>2, <3>3, <3>4
  <2> QED  BY <1>2, <2>1 DEF ListOf, All
<1> QED  BY <1>3, <1>4 DEF back, proto

(* Feedback comes back with its parameter, which is empty when there was none. *)
LEMMA FeedbackReturns ==
  ASSUME NEW fb
  PROVE  /\ Fields(fb, {"type"}, {"parameter"}) =>
              FeedbackToJson(FeedbackToProto(fb)) = CompleteFeedback(fb)
         /\ Fields(FeedbackToJson(FeedbackToProto(fb)), {"type"}, {"parameter"})
         /\ CompleteFeedback(FeedbackToJson(FeedbackToProto(fb))) = FeedbackToJson(FeedbackToProto(fb))
<1>1. FeedbackToJson(FeedbackToProto(fb)) = [type |-> fb.type, parameter |-> Get(fb, "parameter", Empty)]
  BY DEF FeedbackToJson, FeedbackToProto
<1>2. Fields(fb, {"type"}, {"parameter"}) =>
        [type |-> fb.type, parameter |-> Get(fb, "parameter", Empty)] = fb ?? [parameter |-> Empty]
  BY DEF Fields, Has, IsObject, Get, ??
<1> QED  BY <1>1, <1>2 DEF CompleteFeedback, Fields, Has, IsObject, ??

(* A mimeType comes back; whatever follows an audio or video kind is written as a known type. *)
LEMMA MimeTypeReturns ==
  ASSUME NEW mime
  PROVE  /\ mime \in MimeTypes => /\ MimeTypeToString(StringToMimeType(mime)) = mime
                                  /\ mime[1] \in MediaKinds
         /\ mime[1] \in MediaKinds => /\ MimeTypeToString(StringToMimeType(mime)) \in MimeTypes
                                      /\ MimeTypeToString(StringToMimeType(mime))[1] = mime[1]
<1>1. MimeTypeToString(StringToMimeType(mime))
        = <<mime[1], IF mime[1] = "audio" THEN MimeTypeAudioToString(StringToMimeTypeAudio(mime[2]))
                     ELSE MimeTypeVideoToString(StringToMimeTypeVideo(mime[2]))>>
  BY DEF MimeTypeToString, StringToMimeType
<1>2. /\ mime \in MimeTypes => /\ mime = <<mime[1], mime[2]>>
                               /\ mime[1] \in MediaKinds
                               /\ mime[1] = "audio" => mime[2] \in AudioTypes
                               /\ mime[1] # "audio" => mime[2] \in VideoTypes
  BY DEF MimeTypes, MediaKinds
<1> QED  BY <1>1, <1>2, AudioNames, VideoNames DEF MimeTypes, MediaKinds

(* The fields of a codec that was read and written. *)
LEMMA CodecFields ==
  ASSUME NEW c, NEW numbers \in SUBSET {"preferredPayloadType", "payloadType", "clockRate"}
  PROVE  LET r == CodecToJson(CodecToProto(c, numbers), numbers)
         IN  /\ IsObject(r)
             /\ DOMAIN r = {"mimeType", "parameters", "rtcpFeedback"} \cup (numbers \cap DOMAIN c)
                             \cup (IF c.mimeType[1] = "audio" THEN {"channels"} ELSE {})
             /\ r.mimeType = MimeTypeToString(StringToMimeType(c.mimeType))
             /\ r.parameters = ParametersToJsonObject(JsonObjectToParameters(Get(c, "parameters", <<>>)))
             /\ r.rtcpFeedback = Each(FeedbackToJson, Each(FeedbackToProto, Get(c, "rtcpFeedback", <<>>)))
             /\ \A f \in numbers \cap DOMAIN c : r[f] = c[f]
             /\ c.mimeType[1] = "audio" => r.channels = Get(c, "channels", 1)
<1> DEFINE head == [mimeType     |-> StringToMimeType(c.mimeType),
                    parameters   |-> JsonObjectToParameters(Get(c, "parameters", <<>>)),
                    rtcpFeedback |-> Each(FeedbackToProto, Get(c, "rtcpFeedback", <<>>))]
           channels == IF c.mimeType[1] = "audio" THEN [channels |-> Get(c, "channels", 1)] ELSE <<>>
           p == CodecToProto(c, numbers)
           top == [mimeType     |-> MimeTypeToString(p.mimeType),
                   parameters   |-> ParametersToJsonObject(p.parameters),
                   rtcpFeedback |-> Each(FeedbackToJson, p.rtcpFeedback)]
           r == CodecToJson(p, numbers)
<1>1. DOMAIN head = {"mimeType", "parameters", "rtcpFeedback"}
  OBVIOUS
<1>2. DOMAIN channels = IF c.mimeType[1] = "audio" THEN {"channels"} ELSE {}
  OBVIOUS
<1>3. p = head ?? Copy(c, numbers) ?? channels
  BY Zenon DEF CodecToProto
<1>4. /\ p.mimeType = head.mimeType /\ p.parameters = head.parameters
      /\ p.rtcpFeedback = head.rtcpFeedback
      /\ \A f \in numbers \cap DOMAIN c : p[f] = c[f]
      /\ c.mimeType[1] = "audio" => p.channels = channels.channels
      /\ (numbers \cup {"channels"}) \cap DOMAIN p = (numbers \cap DOMAIN c) \cup DOMAIN channels
  <2> HIDE DEF head, channels, p
  <2>1. DOMAIN Copy(c, numbers) = numbers \cap DOMAIN c
        /\ \A f \in numbers \cap DOMAIN c : Copy(c, numbers)[f] = c[f]
    BY DEF Copy
  <2> DEFINE upper == head ?? Copy(c, numbers)
  <2>2. /\ DOMAIN upper = DOMAIN head \cup (numbers \cap DOMAIN c)
        /\ \A x \in DOMAIN head : upper[x] = head[x]
        /\ \A x \in (numbers \cap DOMAIN c) \ DOMAIN head : upper[x] = c[x]
    BY <2>1 DEF ??
  <2> HIDE DEF upper
  <2>3. /\ DOMAIN p = DOMAIN upper \cup DOMAIN channels
        /\ \A x \in DOMAIN upper : p[x] = upper[x]
        /\ \A x \in DOMAIN channels \ DOMAIN upper : p[x] = channels[x]
    BY <1>3 DEF upper, ??
  <2> QED  BY <1>1, <1>2, <2>2, <2>3
<1>5. DOMAIN top = {"mimeType", "parameters", "rtcpFeedback"}
  OBVIOUS
<1>6. r = top ?? Copy(p, numbers \cup {"channels"})
  BY Zenon DEF CodecToJson
<1> HIDE DEF p, r
<1>7. /\ IsObject(r)
      /\ DOMAIN r = DOMAIN top \cup (numbers \cap DOMAIN c) \cup DOMAIN channels
      /\ \A x \in DOMAIN top : r[x] = top[x]
      /\ \A f \in numbers \cap DOMAIN c : r[f] = c[f]
      /\ c.mimeType[1] = "audio" => r.channels = channels.channels
  <2> DEFINE rest == Copy(p, numbers \cup {"channels"})
  <2>1. /\ DOMAIN rest = (numbers \cap DOMAIN c) \cup DOMAIN channels
        /\ \A x \in DOMAIN rest : rest[x] = p[x]
    BY <1>4 DEF Copy
  <2> HIDE DEF top, channels, rest
  <2>2. /\ IsObject(r)
        /\ DOMAIN r = DOMAIN top \cup DOMAIN rest
        /\ \A x \in DOMAIN top : r[x] = top[x]
        /\ \A x \in DOMAIN rest \ DOMAIN top : r[x] = rest[x]
    BY <1>6 DEF rest, ??, IsObject
  <2> QED  BY <1>2, <1>4, <1>5, <2>1, <2>2
<1>8. /\ r.mimeType = top.mimeType /\ r.parameters = top.parameters
      /\ r.rtcpFeedback = top.rtcpFeedback
  BY <1>5, <1>7
<1>9. c.mimeType[1] = "audio" => channels.channels = Get(c, "channels", 1)
  OBVIOUS
<1> QED  BY <1>2, <1>4, <1>5, <1>7, <1>8, <1>9 DEF r, p

(* The RTP messages, and how a codec of each is read and comes back. *)
RtpTypes == {"RtpParameters", "RtpCapabilities", "RtpCapabilitiesFinalized"}

CodecRead(t, c) ==
  CASE t = "RtpParameters"            -> ParametersReadable(c)
    [] t = "RtpCapabilities"          -> CapabilityReadable(c)
    [] t = "RtpCapabilitiesFinalized" -> FinalizedReadable(c)

CodecBack(t, c) ==
  CASE t = "RtpParameters"            -> ParametersToJson(ParametersToProto(c))
    [] t = "RtpCapabilities"          -> CapabilityToJson(CapabilityToProto(c))
    [] t = "RtpCapabilitiesFinalized" -> FinalizedToJson(FinalizedToProto(c))

(* The fields of a codec that came back. *)
LEMMA CodecBackFields ==
  ASSUME NEW t \in RtpTypes, NEW c
  PROVE  LET r == CodecBack(t, c)
         IN  /\ IsObject(r)
             /\ DOMAIN r = {"mimeType", "parameters", "rtcpFeedback"}
                             \cup ({PayloadType(t), "clockRate"} \cap DOMAIN c)
                             \cup (IF c.mimeType[1] = "audio" THEN {"channels"} ELSE {})
                             \cup (IF t = "RtpCapabilitiesFinalized" THEN {"kind"} ELSE {})
             /\ r.mimeType = MimeTypeToString(StringToMimeType(c.mimeType))
             /\ r.parameters = ParametersToJsonObject(JsonObjectToParameters(Get(c, "parameters", <<>>)))
             /\ r.rtcpFeedback = Each(FeedbackToJson, Each(FeedbackToProto, Get(c, "rtcpFeedback", <<>>)))
             /\ \A f \in {PayloadType(t), "clockRate"} \cap DOMAIN c : r[f] = c[f]
             /\ c.mimeType[1] = "audio" => r.channels = Get(c, "channels", 1)
             /\ t = "RtpCapabilitiesFinalized" => r.kind = r.mimeType[1]
<1> DEFINE numbers == {PayloadType(t), "clockRate"}
           plain == CodecToJson(CodecToProto(c, numbers), numbers)
           r == CodecBack(t, c)
<1>1. numbers \in SUBSET {"preferredPayloadType", "payloadType", "clockRate"}
  BY DEF PayloadType
<1>2. /\ IsObject(plain)
      /\ DOMAIN plain = {"mimeType", "parameters", "rtcpFeedback"} \cup (numbers \cap DOMAIN c)
                             \cup (IF c.mimeType[1] = "audio" THEN {"channels"} ELSE {})
      /\ plain.mimeType = MimeTypeToString(StringToMimeType(c.mimeType))
      /\ plain.parameters = ParametersToJsonObject(JsonObjectToParameters(Get(c, "parameters", <<>>)))
      /\ plain.rtcpFeedback = Each(FeedbackToJson, Each(FeedbackToProto, Get(c, "rtcpFeedback", <<>>)))
      /\ \A f \in numbers \cap DOMAIN c : plain[f] = c[f]
      /\ c.mimeType[1] = "audio" => plain.channels = Get(c, "channels", 1)
  <2> HIDE DEF numbers
  <2> QED  BY <1>1, CodecFields, Zenon
<1>3. r = IF t = "RtpCapabilitiesFinalized" THEN (plain ?? [kind |-> plain.mimeType[1]]) ELSE plain
  BY DEF RtpTypes, CodecBack, PayloadType, ParametersToJson, ParametersToProto, CapabilityToJson,
         CapabilityToProto, FinalizedToJson, FinalizedToProto, AddKind
<1> HIDE DEF plain, r
<1>4. CASE t = "RtpCapabilitiesFinalized"
  <2>1. numbers = {"preferredPayloadType", "clockRate"}
    BY <1>4 DEF PayloadType
  <2>2. r = (plain ?? [kind |-> plain.mimeType[1]])
    BY <1>3, <1>4
  <2>3. /\ IsObject(r) /\ DOMAIN r = DOMAIN plain \cup {"kind"}
        /\ \A x \in DOMAIN plain : r[x] = plain[x]
        /\ "kind" \notin DOMAIN plain => r.kind = plain.mimeType[1]
    BY <2>2 DEF ??, IsObject
  <2>4. "kind" \notin DOMAIN plain /\ {"mimeType", "parameters", "rtcpFeedback"} \subseteq DOMAIN plain
        /\ (c.mimeType[1] = "audio" => "channels" \in DOMAIN plain)
        /\ numbers \cap DOMAIN c \subseteq DOMAIN plain
    BY <1>2, <2>1
  <2> HIDE DEF numbers
  <2>5. /\ r.mimeType = plain.mimeType /\ r.parameters = plain.parameters
        /\ r.rtcpFeedback = plain.rtcpFeedback /\ r.kind = plain.mimeType[1]
        /\ \A f \in numbers \cap DOMAIN c : r[f] = plain[f]
        /\ c.mimeType[1] = "audio" => r.channels = plain.channels
    BY <2>3, <2>4
  <2>6. DOMAIN r = {"mimeType", "parameters", "rtcpFeedback"} \cup (numbers \cap DOMAIN c)
                             \cup (IF c.mimeType[1] = "audio" THEN {"channels"} ELSE {})
                             \cup (IF t = "RtpCapabilitiesFinalized" THEN {"kind"} ELSE {})
    BY <1>2, <1>4, <2>3
  <2> QED  BY <1>2, <2>3, <2>5, <2>6 DEF r, numbers
<1>5. CASE t # "RtpCapabilitiesFinalized"
  <2>1. r = plain
    BY <1>3, <1>5
  <2> HIDE DEF numbers
  <2> QED  BY <1>2, <1>5, <2>1 DEF r, numbers
<1> QED  BY <1>4, <1>5

(* s has the fields of a completed codec. *)
CompletedCodec(t, c, s) ==
  /\ IsObject(s)
  /\ DOMAIN s = {"rtcpFeedback", "parameters"} \cup DOMAIN c
                  \cup (IF t = "RtpCapabilitiesFinalized" THEN {"kind"} ELSE {})
                  \cup (IF c.mimeType[1] = "audio" THEN {"channels"} ELSE {})
  /\ s.rtcpFeedback = Each(CompleteFeedback, Get(c, "rtcpFeedback", <<>>))
  /\ \A x \in DOMAIN c : x # "rtcpFeedback" => s[x] = c[x]
  /\ "parameters" \notin DOMAIN c => s.parameters = <<>>
  /\ t = "RtpCapabilitiesFinalized" /\ "kind" \notin DOMAIN c => s.kind = c.mimeType[1]
  /\ c.mimeType[1] = "audio" /\ "channels" \notin DOMAIN c => s.channels = 1

(* That is what CompleteCodec makes. *)
LEMMA CompleteCodecFields ==
  ASSUME NEW t, NEW c
  PROVE  CompletedCodec(t, c, CompleteCodec(t, c))
<1> DEFINE s == CompleteCodec(t, c)
           feedback == [rtcpFeedback |-> Each(CompleteFeedback, Get(c, "rtcpFeedback", <<>>))]
           one == feedback ?? c
           two == one ?? [parameters |-> <<>>]
           kind == IF t = "RtpCapabilitiesFinalized" THEN [kind |-> c.mimeType[1]] ELSE <<>>
           three == two ?? kind
           channels == IF c.mimeType[1] = "audio" THEN [channels |-> 1] ELSE <<>>
<1>1. s = (three ?? channels)
  BY Zenon DEF CompleteCodec
<1>2. /\ DOMAIN kind = IF t = "RtpCapabilitiesFinalized" THEN {"kind"} ELSE {}
      /\ t = "RtpCapabilitiesFinalized" => kind.kind = c.mimeType[1]
      /\ DOMAIN channels = IF c.mimeType[1] = "audio" THEN {"channels"} ELSE {}
      /\ c.mimeType[1] = "audio" => channels.channels = 1
  OBVIOUS
<1>3. /\ DOMAIN feedback = {"rtcpFeedback"}
      /\ feedback.rtcpFeedback = Each(CompleteFeedback, Get(c, "rtcpFeedback", <<>>))
  OBVIOUS
<1> HIDE DEF s, feedback, one, two, three, kind, channels
<1>4. /\ DOMAIN one = {"rtcpFeedback"} \cup DOMAIN c
      /\ one.rtcpFeedback = feedback.rtcpFeedback
      /\ \A x \in DOMAIN c : x # "rtcpFeedback" => one[x] = c[x]
  BY <1>3 DEF one, ??
<1>5. /\ DOMAIN two = DOMAIN one \cup {"parameters"}
      /\ \A x \in DOMAIN one : two[x] = one[x]
      /\ "parameters" \notin DOMAIN one => two.parameters = <<>>
  BY DEF two, ??
<1>6. /\ DOMAIN three = DOMAIN two \cup DOMAIN kind
      /\ \A x \in DOMAIN two : three[x] = two[x]
      /\ \A x \in DOMAIN kind : x \notin DOMAIN two => three[x] = kind[x]
  BY DEF three, ??
<1>7. /\ IsObject(s)
      /\ DOMAIN s = DOMAIN three \cup DOMAIN channels
      /\ \A x \in DOMAIN three : s[x] = three[x]
      /\ \A x \in DOMAIN channels : x \notin DOMAIN three => s[x] = channels[x]
  BY <1>1 DEF ??, IsObject
<1>8. DOMAIN two = {"rtcpFeedback", "parameters"} \cup DOMAIN c
  BY <1>4, <1>5
<1>9. DOMAIN three = {"rtcpFeedback", "parameters"} \cup DOMAIN c \cup DOMAIN kind
  BY <1>6, <1>8
<1>10. \A x \in DOMAIN one : s[x] = one[x]
  BY <1>4, <1>5, <1>6, <1>7, <1>8, <1>9
<1>11. "parameters" \notin DOMAIN c => s.parameters = <<>>
  BY <1>4, <1>5, <1>6, <1>7, <1>8, <1>9
<1>12. t = "RtpCapabilitiesFinalized" /\ "kind" \notin DOMAIN c => s.kind = c.mimeType[1]
  BY <1>2, <1>6, <1>7, <1>8, <1>9
<1>13. c.mimeType[1] = "audio" /\ "channels" \notin DOMAIN c => s.channels = 1
  BY <1>2, <1>7, <1>9
<1> QED  BY <1>2, <1>3, <1>4, <1>7, <1>9, <1>10, <1>11, <1>12, <1>13 DEF s, CompletedCodec

(* A standard codec is read and comes back completed, and what comes back of any codec that
   is read is standard and complete. *)
LEMMA CodecReturns ==
  ASSUME NEW t \in RtpTypes, NEW c
  PROVE  /\ StandardCodec(t, c) => CodecRead(t, c) /\ CodecBack(t, c) = CompleteCodec(t, c)
         /\ CodecRead(t, c) /\ CodecTyped(c) => /\ StandardCodec(t, CodecBack(t, c))
                                                /\ CompleteCodec(t, CodecBack(t, c)) = CodecBack(t, c)
<1> DEFINE r == CodecBack(t, c)
           required == {"mimeType", "clockRate"} \cup (IF t = "RtpCapabilities" THEN {} ELSE {PayloadType(t)})
           feedback == Get(c, "rtcpFeedback", <<>>)
           parameters == Get(c, "parameters", <<>>)
<1>1. /\ IsObject(r)
      /\ DOMAIN r = {"mimeType", "parameters", "rtcpFeedback"}
                      \cup ({PayloadType(t), "clockRate"} \cap DOMAIN c)
                      \cup (IF c.mimeType[1] = "audio" THEN {"channels"} ELSE {})
                      \cup (IF t = "RtpCapabilitiesFinalized" THEN {"kind"} ELSE {})
      /\ r.mimeType = MimeTypeToString(StringToMimeType(c.mimeType))
      /\ r.parameters = ParametersToJsonObject(JsonObjectToParameters(parameters))
      /\ r.rtcpFeedback = [i \in DOMAIN feedback |-> FeedbackToJson(FeedbackToProto(feedback[i]))]
      /\ \A f \in {PayloadType(t), "clockRate"} \cap DOMAIN c : r[f] = c[f]
      /\ c.mimeType[1] = "audio" => r.channels = Get(c, "channels", 1)
      /\ t = "RtpCapabilitiesFinalized" => r.kind = r.mimeType[1]
  <2>1. /\ IsObject(r)
        /\ DOMAIN r = {"mimeType", "parameters", "rtcpFeedback"}
                        \cup ({PayloadType(t), "clockRate"} \cap DOMAIN c)
                        \cup (IF c.mimeType[1] = "audio" THEN {"channels"} ELSE {})
                        \cup (IF t = "RtpCapabilitiesFinalized" THEN {"kind"} ELSE {})
        /\ r.mimeType = MimeTypeToString(StringToMimeType(c.mimeType))
        /\ r.parameters = ParametersToJsonObject(JsonObjectToParameters(parameters))
        /\ r.rtcpFeedback = Each(FeedbackToJson, Each(FeedbackToProto, feedback))
        /\ \A f \in {PayloadType(t), "clockRate"} \cap DOMAIN c : r[f] = c[f]
        /\ c.mimeType[1] = "audio" => r.channels = Get(c, "channels", 1)
        /\ t = "RtpCapabilitiesFinalized" => r.kind = r.mimeType[1]
    BY CodecBackFields, Zenon
  <2>2. Each(FeedbackToJson, Each(FeedbackToProto, feedback))
          = [i \in DOMAIN feedback |-> FeedbackToJson(FeedbackToProto(feedback[i]))]
    BY DEF Each
  <2> HIDE DEF r, feedback, parameters
  <2> QED  BY <2>1, <2>2
<1>2. CodecRead(t, c) <=> /\ required \subseteq DOMAIN c
                          /\ c.mimeType[1] \in MediaKinds
                          /\ \A i \in DOMAIN feedback : "type" \in DOMAIN feedback[i]
  BY DEF RtpTypes, CodecRead, ParametersReadable, CapabilityReadable, FinalizedReadable, CodecReadable,
         PayloadType, Has, All, MediaKinds
<1> HIDE DEF r
<1>3. ASSUME StandardCodec(t, c) PROVE CodecRead(t, c) /\ r = CompleteCodec(t, c)
  <2>1. /\ IsObject(c) /\ required \subseteq DOMAIN c
        /\ DOMAIN c \subseteq required \cup {PayloadType(t), "parameters", "rtcpFeedback"}
             \cup (IF c.mimeType[1] = "audio" THEN {"channels"} ELSE {})
             \cup (IF t = "RtpCapabilitiesFinalized" THEN {"kind"} ELSE {})
    BY <1>3 DEF StandardCodec, Fields, Has
  <2>2. r.mimeType = c.mimeType /\ c.mimeType[1] \in MediaKinds
    BY <1>1, <1>3, MimeTypeReturns DEF StandardCodec
  <2>3. r.parameters = parameters
    BY <1>1, <1>3, ParametersReturn DEF StandardCodec
  <2>4. \A i \in DOMAIN feedback : Fields(feedback[i], {"type"}, {"parameter"})
    BY <1>3 DEF StandardCodec, ListOf, All
  <2>5. r.rtcpFeedback = Each(CompleteFeedback, feedback)
    BY <1>1, <2>4, FeedbackReturns DEF Each
  <2>6. CodecRead(t, c)
    BY <1>2, <2>1, <2>2, <2>4 DEF Fields, Has
  <2> HIDE DEF feedback, parameters
  <2>s. PICK s : s = CompleteCodec(t, c)
    OBVIOUS
  <2>7. /\ IsObject(s)
        /\ DOMAIN s = {"rtcpFeedback", "parameters"} \cup DOMAIN c
                        \cup (IF t = "RtpCapabilitiesFinalized" THEN {"kind"} ELSE {})
                        \cup (IF c.mimeType[1] = "audio" THEN {"channels"} ELSE {})
        /\ s.rtcpFeedback = Each(CompleteFeedback, feedback)
        /\ \A x \in DOMAIN c : x # "rtcpFeedback" => s[x] = c[x]
        /\ "parameters" \notin DOMAIN c => s.parameters = <<>>
        /\ t = "RtpCapabilitiesFinalized" /\ "kind" \notin DOMAIN c => s.kind = c.mimeType[1]
        /\ c.mimeType[1] = "audio" /\ "channels" \notin DOMAIN c => s.channels = 1
    <3>1. CompletedCodec(t, c, s)
      BY <2>s, CompleteCodecFields
    <3> QED  BY <3>1 DEF CompletedCodec, feedback
  <2>8. DOMAIN r = DOMAIN s
    BY <1>1, <2>1, <2>7 DEF PayloadType
  <2>9. \A x \in DOMAIN r : r[x] = s[x]
    <3> SUFFICES ASSUME NEW x \in DOMAIN r PROVE r[x] = s[x]
      OBVIOUS
    <3>1. CASE x = "mimeType"
      BY <3>1, <2>1, <2>2, <2>7
    <3>2. CASE x = "parameters"
      BY <3>2, <2>3, <2>7 DEF parameters, Get
    <3>3. CASE x = "rtcpFeedback"
      BY <3>3, <2>5, <2>7
    <3>4. CASE x = "channels"
      BY <3>4, <1>1, <2>7 DEF Get, PayloadType
    <3>5. CASE x = "kind"
      <4>1. t = "RtpCapabilitiesFinalized"
        BY <3>5, <1>1 DEF PayloadType
      <4>2. "kind" \in DOMAIN c => c.kind = c.mimeType[1]
        BY <1>3 DEF StandardCodec, Get
      <4> QED  BY <3>5, <4>1, <4>2, <1>1, <2>2, <2>7
    <3>6. CASE x \in {PayloadType(t), "clockRate"} \cap DOMAIN c
      BY <3>6, <1>1, <2>7 DEF PayloadType
    <3> QED  BY <1>1, <3>1, <3>2, <3>3, <3>4, <3>5, <3>6
  <2> QED  BY <1>1, <2>s, <2>6, <2>7, <2>8, <2>9, SameObject
<1>4. ASSUME CodecRead(t, c), CodecTyped(c) PROVE StandardCodec(t, r) /\ CompleteCodec(t, r) = r
  <2>1. r.mimeType \in MimeTypes /\ r.mimeType[1] = c.mimeType[1]
    BY <1>1, <1>2, <1>4, MimeTypeReturns
  <2>2. ListOf(StandardParameter, r.parameters)
    <3>1. \A key \in DOMAIN parameters : parameters[key][1] = "number" => parameters[key][2] \in Int
      BY <1>4 DEF CodecTyped, Get
    <3> HIDE DEF parameters
    <3> QED  BY <1>1, <3>1, ParametersReturn
  <2>3. ListOf(LAMBDA fb : Fields(fb, {"type"}, {"parameter"}), r.rtcpFeedback)
    BY <1>1, FeedbackReturns DEF ListOf, All, IsObject
  <2>4. Each(CompleteFeedback, r.rtcpFeedback) = r.rtcpFeedback
    BY <1>1, FeedbackReturns DEF Each
  <2> HIDE DEF feedback, parameters
  <2>5. /\ Get(r, "rtcpFeedback", <<>>) = r.rtcpFeedback
        /\ Get(r, "parameters", <<>>) = r.parameters
        /\ Get(r, "kind", r.mimeType[1]) = r.mimeType[1]
    BY <1>1 DEF Get, PayloadType
  <2>6. Fields(r, required, {PayloadType(t), "parameters", "rtcpFeedback"}
               \cup (IF r.mimeType[1] = "audio" THEN {"channels"} ELSE {})
               \cup (IF t = "RtpCapabilitiesFinalized" THEN {"kind"} ELSE {}))
    <3>1. required \subseteq DOMAIN c
      BY <1>2, <1>4
    <3>2. required \subseteq DOMAIN r
      BY <3>1, <1>1
    <3> QED  BY <1>1, <2>1, <3>2 DEF Fields, Has
  <2>7. StandardCodec(t, r)
    BY <2>1, <2>2, <2>3, <2>5, <2>6 DEF StandardCodec
  <2>8. CompleteCodec(t, r) = r
    <3>s. PICK s : s = CompleteCodec(t, r)
      OBVIOUS
    <3>1. /\ IsObject(s)
          /\ DOMAIN s = {"rtcpFeedback", "parameters"} \cup DOMAIN r
                          \cup (IF t = "RtpCapabilitiesFinalized" THEN {"kind"} ELSE {})
                          \cup (IF r.mimeType[1] = "audio" THEN {"channels"} ELSE {})
          /\ s.rtcpFeedback = Each(CompleteFeedback, r.rtcpFeedback)
          /\ \A x \in DOMAIN r : x # "rtcpFeedback" => s[x] = r[x]
      <4>1. CompletedCodec(t, r, s)
        BY <3>s, CompleteCodecFields
      <4> QED  BY <4>1, <2>5 DEF CompletedCodec
    <3>2. DOMAIN s = DOMAIN r
      BY <3>1, <2>1, <1>1
    <3>3. \A x \in DOMAIN s : s[x] = r[x]
      BY <3>1, <3>2, <2>4
    <3> QED  BY <3>s, <1>1, <3>1, <3>2, <3>3, SameObject
  <2> QED  BY <2>7, <2>8
<1> QED  BY <1>3, <1>4 DEF r

(* How a header extension of each message is read and comes back. *)
ExtensionRead(t, e) ==
  IF t = "RtpParameters" THEN ExtensionParametersReadable(e) ELSE ExtensionReadable(e)

ExtensionBack(t, e) ==
  IF t = "RtpParameters" THEN ExtensionParametersToJson(ExtensionParametersToProto(e))
                         ELSE ExtensionToJson(ExtensionToProto(e))

(* The fields of an extension that came back, of parameters ... *)
LEMMA ExtensionParametersFields ==
  ASSUME NEW e
  PROVE  LET r == ExtensionBack("RtpParameters", e)
         IN  /\ IsObject(r)
             /\ DOMAIN r = {"uri", "encrypt"} \cup ({"id"} \cap DOMAIN e)
             /\ r.uri = RtpHeaderExtensionUriToString(StringToRtpHeaderExtensionUri(e.uri))
             /\ r.encrypt = Get(e, "encrypt", FALSE)
             /\ "id" \in DOMAIN e => r.id = e.id
<1> DEFINE r == ExtensionBack("RtpParameters", e)
           p == ExtensionParametersToProto(e)
           head == [uri |-> StringToRtpHeaderExtensionUri(e.uri)]
           top == [uri |-> RtpHeaderExtensionUriToString(p.uri), encrypt |-> Get(p, "encrypt", FALSE)]
<1>1. p = (head ?? Copy(e, {"id", "encrypt"})) /\ r = (top ?? Copy(p, {"id"}))
  BY DEF ExtensionBack, ExtensionParametersToProto, ExtensionParametersToJson
<1>2. DOMAIN head = {"uri"} /\ head.uri = StringToRtpHeaderExtensionUri(e.uri)
  OBVIOUS
<1> HIDE DEF head, p, r
<1>3. /\ DOMAIN p = {"uri"} \cup ({"id", "encrypt"} \cap DOMAIN e)
      /\ p.uri = head.uri
      /\ "id" \in DOMAIN e => p.id = e.id
      /\ "encrypt" \in DOMAIN e => p.encrypt = e.encrypt
  BY <1>1, <1>2 DEF ??, Copy
<1>4. /\ DOMAIN top = {"uri", "encrypt"}
      /\ top.uri = RtpHeaderExtensionUriToString(p.uri)
      /\ top.encrypt = Get(e, "encrypt", FALSE)
  BY <1>3 DEF Get
<1> HIDE DEF top
<1>5. /\ IsObject(r)
      /\ DOMAIN r = {"uri", "encrypt"} \cup ({"id"} \cap DOMAIN p)
      /\ r.uri = top.uri
      /\ r.encrypt = top.encrypt
      /\ "id" \in DOMAIN p => r.id = p.id
  BY <1>1, <1>4 DEF ??, Copy, IsObject
<1> QED  BY <1>2, <1>3, <1>4, <1>5 DEF r

(* ... and of capabilities. *)
LEMMA ExtensionFields ==
  ASSUME NEW e
  PROVE  LET r == ExtensionBack("RtpCapabilities", e)
         IN  /\ IsObject(r)
             /\ DOMAIN r = {"uri", "kind", "direction", "preferredEncrypt"}
                             \cup ({"preferredId"} \cap DOMAIN e)
             /\ r.uri = RtpHeaderExtensionUriToString(StringToRtpHeaderExtensionUri(e.uri))
             /\ r.kind = MediaKindToString(StringToMediaKind(e.kind))
             /\ r.direction = RtpHeaderExtensionDirectionToString(
                                IF Has(e, {"direction"})
                                THEN StringToRtpHeaderExtensionDirection(e.direction)
                                ELSE "UNSPECIFIED")
             /\ r.preferredEncrypt = Get(e, "preferredEncrypt", FALSE)
             /\ "preferredId" \in DOMAIN e => r.preferredId = e.preferredId
<1> DEFINE r == ExtensionBack("RtpCapabilities", e)
           p == ExtensionToProto(e)
           direction == IF Has(e, {"direction"})
                        THEN StringToRtpHeaderExtensionDirection(e.direction) ELSE "UNSPECIFIED"
           head == [uri |-> StringToRtpHeaderExtensionUri(e.uri),
                    kind |-> StringToMediaKind(e.kind),
                    direction |-> direction]
           top == [uri |-> RtpHeaderExtensionUriToString(p.uri),
                   kind |-> MediaKindToString(p.kind),
                   direction |-> RtpHeaderExtensionDirectionToString(p.direction),
                   preferredEncrypt |-> Get(p, "preferredEncrypt", FALSE)]
<1>1. p = (head ?? Copy(e, {"preferredId", "preferredEncrypt"})) /\ r = (top ?? Copy(p, {"preferredId"}))
  BY DEF ExtensionBack, ExtensionToProto, ExtensionToJson
<1> HIDE DEF direction
<1>2. /\ DOMAIN head = {"uri", "kind", "direction"}
      /\ head.uri = StringToRtpHeaderExtensionUri(e.uri)
      /\ head.kind = StringToMediaKind(e.kind)
      /\ head.direction = direction
  OBVIOUS
<1> HIDE DEF head, p, r
<1>3. /\ DOMAIN p = {"uri", "kind", "direction"} \cup ({"preferredId", "preferredEncrypt"} \cap DOMAIN e)
      /\ p.uri = head.uri
      /\ p.kind = head.kind
      /\ p.direction = head.direction
      /\ "preferredId" \in DOMAIN e => p.preferredId = e.preferredId
      /\ "preferredEncrypt" \in DOMAIN e => p.preferredEncrypt = e.preferredEncrypt
  BY <1>1, <1>2 DEF ??, Copy
<1>4. /\ DOMAIN top = {"uri", "kind", "direction", "preferredEncrypt"}
      /\ top.uri = RtpHeaderExtensionUriToString(p.uri)
      /\ top.kind = MediaKindToString(p.kind)
      /\ top.direction = RtpHeaderExtensionDirectionToString(p.direction)
      /\ top.preferredEncrypt = Get(e, "preferredEncrypt", FALSE)
  BY <1>3 DEF Get
<1> HIDE DEF top
<1>5. /\ IsObject(r)
      /\ DOMAIN r = {"uri", "kind", "direction", "preferredEncrypt"} \cup ({"preferredId"} \cap DOMAIN p)
      /\ r.uri = top.uri
      /\ r.kind = top.kind
      /\ r.direction = top.direction
      /\ r.preferredEncrypt = top.preferredEncrypt
      /\ "preferredId" \in DOMAIN p => r.preferredId = p.preferredId
  BY <1>1, <1>4 DEF ??, Copy, IsObject
<1> QED  BY <1>2, <1>3, <1>4, <1>5 DEF r, direction

(* What CodecReturns says of codecs, of header extensions. *)
LEMMA ExtensionReturns ==
  ASSUME NEW t \in RtpTypes, NEW e
  PROVE  /\ StandardExtension(t, e) =>
              ExtensionRead(t, e) /\ ExtensionBack(t, e) = CompleteExtension(t, e)
         /\ ExtensionRead(t, e) =>
              /\ StandardExtension(t, ExtensionBack(t, e))
              /\ CompleteExtension(t, ExtensionBack(t, e)) = ExtensionBack(t, e)
<1>1. CASE t = "RtpParameters"
  <2>r. PICK r : r = ExtensionBack("RtpParameters", e)
    OBVIOUS
  <2>1. /\ IsObject(r)
        /\ DOMAIN r = {"uri", "encrypt"} \cup ({"id"} \cap DOMAIN e)
        /\ r.uri = RtpHeaderExtensionUriToString(StringToRtpHeaderExtensionUri(e.uri))
        /\ r.encrypt = Get(e, "encrypt", FALSE)
        /\ "id" \in DOMAIN e => r.id = e.id
    BY <2>r, ExtensionParametersFields
  <2>2. ASSUME StandardExtension(t, e) PROVE ExtensionRead(t, e) /\ r = CompleteExtension(t, e)
    <3>1. /\ IsObject(e) /\ {"id", "uri"} \subseteq DOMAIN e
          /\ DOMAIN e \subseteq {"id", "uri", "encrypt"} /\ e.uri \in Uris
      BY <1>1, <2>2 DEF StandardExtension, Fields, Has
    <3>s. PICK s : s = (e ?? [encrypt |-> FALSE])
      OBVIOUS
    <3>2. /\ IsObject(s) /\ DOMAIN s = DOMAIN e \cup {"encrypt"}
          /\ \A x \in DOMAIN e : s[x] = e[x]
          /\ "encrypt" \notin DOMAIN e => s.encrypt = FALSE
      BY <3>s DEF ??, IsObject
    <3>3. r.uri = e.uri
      BY <2>1, <3>1, UriNames
    <3>4. DOMAIN r = DOMAIN s
      BY <2>1, <3>1, <3>2
    <3>5. \A x \in DOMAIN r : r[x] = s[x]
      BY <2>1, <3>1, <3>2, <3>3 DEF Get
    <3>6. r = s
      BY <2>1, <3>2, <3>4, <3>5, SameObject
    <3> QED  BY <1>1, <3>1, <3>s, <3>6 DEF CompleteExtension, ExtensionRead, ExtensionParametersReadable, Has
  <2>3. ASSUME ExtensionRead(t, e) PROVE StandardExtension(t, r) /\ CompleteExtension(t, r) = r
    <3>1. "id" \in DOMAIN e
      BY <1>1, <2>3 DEF ExtensionRead, ExtensionParametersReadable, Has
    <3>2. Fields(r, {"id", "uri"}, {"encrypt"}) /\ r.uri \in Uris
      BY <2>1, <3>1, UriNames DEF Fields, Has
    <3>3. (r ?? [encrypt |-> FALSE]) = r
      BY <2>1 DEF ??, IsObject
    <3> QED  BY <1>1, <3>2, <3>3 DEF StandardExtension, CompleteExtension
  <2> QED  BY <1>1, <2>r, <2>2, <2>3
<1>2. CASE t # "RtpParameters"
  <2>r. PICK r : r = ExtensionBack("RtpCapabilities", e)
    OBVIOUS
  <2>0. ExtensionBack(t, e) = r
    BY <1>2, <2>r DEF ExtensionBack
  <2>1. /\ IsObject(r)
        /\ DOMAIN r = {"uri", "kind", "direction", "preferredEncrypt"} \cup ({"preferredId"} \cap DOMAIN e)
        /\ r.uri = RtpHeaderExtensionUriToString(StringToRtpHeaderExtensionUri(e.uri))
        /\ r.kind = MediaKindToString(StringToMediaKind(e.kind))
        /\ r.preferredEncrypt = Get(e, "preferredEncrypt", FALSE)
        /\ "preferredId" \in DOMAIN e => r.preferredId = e.preferredId
    BY <2>r, ExtensionFields
  <2>2. /\ Has(e, {"direction"}) =>
             r.direction = RtpHeaderExtensionDirectionToString(StringToRtpHeaderExtensionDirection(e.direction))
        /\ ~Has(e, {"direction"}) => r.direction = "sendrecv"
        /\ r.direction \in Directions
    <3>1. RtpHeaderExtensionDirectionToString("UNSPECIFIED") = "sendrecv"
      BY LookupFails DEF RtpHeaderExtensionDirectionToString, RtpHeaderExtensionDirectionWritten
    <3>2. r.direction = RtpHeaderExtensionDirectionToString(
                          IF Has(e, {"direction"})
                          THEN StringToRtpHeaderExtensionDirection(e.direction) ELSE "UNSPECIFIED")
      BY <2>r, ExtensionFields
    <3> QED  BY <3>1, <3>2, DirectionNames DEF Directions
  <2>3. ASSUME StandardExtension(t, e) PROVE ExtensionRead(t, e) /\ r = CompleteExtension(t, e)
    <3>1. /\ IsObject(e) /\ {"preferredId", "uri", "kind"} \subseteq DOMAIN e
          /\ DOMAIN e \subseteq {"preferredId", "uri", "kind", "direction", "preferredEncrypt"}
          /\ e.uri \in Uris /\ e.kind \in MediaKinds /\ Get(e, "direction", "sendrecv") \in Directions
      BY <1>2, <2>3 DEF StandardExtension, Fields, Has
    <3>s. PICK s : s = (e ?? [preferredEncrypt |-> FALSE, direction |-> "sendrecv"])
      OBVIOUS
    <3>2. /\ IsObject(s) /\ DOMAIN s = DOMAIN e \cup {"preferredEncrypt", "direction"}
          /\ \A x \in DOMAIN e : s[x] = e[x]
          /\ "preferredEncrypt" \notin DOMAIN e => s.preferredEncrypt = FALSE
          /\ "direction" \notin DOMAIN e => s.direction = "sendrecv"
      BY <3>s DEF ??, IsObject
    <3>3. r.uri = e.uri /\ r.kind = e.kind /\ r.direction = Get(e, "direction", "sendrecv")
      BY <2>1, <2>2, <3>1, UriNames, KindNames, DirectionNames DEF Get, Has
    <3>4. DOMAIN r = DOMAIN s
      BY <2>1, <3>1, <3>2
    <3>5. \A x \in DOMAIN r : r[x] = s[x]
      BY <2>1, <3>1, <3>2, <3>3 DEF Get
    <3>6. r = s
      BY <2>1, <3>2, <3>4, <3>5, SameObject
    <3> QED  BY <1>2, <3>1, <3>s, <3>6 DEF CompleteExtension, ExtensionRead, ExtensionReadable, Has
  <2>4. ASSUME ExtensionRead(t, e) PROVE StandardExtension(t, r) /\ CompleteExtension(t, r) = r
    <3>1. "preferredId" \in DOMAIN e
      BY <1>2, <2>4 DEF ExtensionRead, ExtensionReadable, Has
    <3>2. Fields(r, {"preferredId", "uri", "kind"}, {"direction", "preferredEncrypt"})
      BY <2>1, <3>1 DEF Fields, Has
    <3>3. r.uri \in Uris /\ r.kind \in MediaKinds /\ Get(r, "direction", "sendrecv") \in Directions
      BY <2>1, <2>2, UriNames, KindNames DEF Get
    <3>4. (r ?? [preferredEncrypt |-> FALSE, direction |-> "sendrecv"]) = r
      BY <2>1 DEF ??, IsObject
    <3> QED  BY <1>2, <3>2, <3>3, <3>4 DEF StandardExtension, CompleteExtension
  <2> QED  BY <2>0, <2>3, <2>4
<1> QED  BY <1>1, <1>2

-----------------------------------------------------------------------------
(* A scalability mode comes back, as a name or as an object. *)
LEMMA ModeReturns ==
  ASSUME NEW mode
  PROVE  /\ StandardMode(mode) => /\ mode[1] = "object" => LayersReadable(mode[2])
                                  /\ ScalabilityModeToJson(ScalabilityModeToProto(mode)) = mode
         /\ (mode[1] = "object" => LayersReadable(mode[2])) =>
              StandardMode(ScalabilityModeToJson(ScalabilityModeToProto(mode)))
<1> DEFINE r == ScalabilityModeToJson(ScalabilityModeToProto(mode))
<1>1. /\ mode[1] = "string" => r = <<"string", ScalabilityModeEnumToString(StringToScalabilityModeEnum(mode[2]))>>
      /\ mode[1] = "object" => r = <<"object", Copy(mode[2], LayerFields)>>
      /\ mode[1] \notin {"string", "object"} => r = <<"string", ScalabilityModeEnumToString("NONE")>>
  BY DEF ScalabilityModeToJson, ScalabilityModeToProto
<1> HIDE DEF r
<1>2. ScalabilityModeEnumToString("NONE") \in ScalabilityModes
  <2>1. FunctionTable(ScalabilityModeWritten) /\ <<"NONE", "L1T1">> \in ScalabilityModeWritten
    BY DEF FunctionTable, ScalabilityModeWritten
  <2>2. Lookup(ScalabilityModeWritten, <<"NONE", "L1T1">>[1], "L1T1") = <<"NONE", "L1T1">>[2]
    BY <2>1, LookupFinds
  <2> QED  BY <2>2 DEF ScalabilityModes, ScalabilityModeEnumToString
<1>3. ASSUME StandardMode(mode) PROVE r = mode /\ (mode[1] = "object" => LayersReadable(mode[2]))
  <2>1. CASE mode \in {"string"} \X ScalabilityModes
    BY <2>1, <1>1, ModeNames
  <2>2. CASE mode \notin {"string"} \X ScalabilityModes
    <3>1. /\ mode[1] = "object" /\ mode = <<"object", mode[2]>>
          /\ IsObject(mode[2]) /\ DOMAIN mode[2] = LayerFields /\ LayersReadable(mode[2])
      BY <1>3, <2>2 DEF StandardMode, Fields, Has
    <3>2. Copy(mode[2], LayerFields) = mode[2]
      BY <3>1 DEF Copy, IsObject
    <3> QED  BY <3>1, <3>2, <1>1
  <2> QED  BY <2>1, <2>2
<1>4. ASSUME mode[1] = "object" => LayersReadable(mode[2]) PROVE StandardMode(r)
  <2>1. CASE mode[1] # "object"
    BY <2>1, <1>1, <1>2, ModeNames DEF StandardMode
  <2>2. CASE mode[1] = "object"
    <3> DEFINE l == Copy(mode[2], LayerFields)
    <3>1. LayerFields \subseteq DOMAIN mode[2] /\ mode[2].spatialLayers # 0 /\ mode[2].temporalLayers # 0
      BY <1>4, <2>2 DEF LayersReadable, Has
    <3>2. IsObject(l) /\ DOMAIN l = LayerFields /\ l.spatialLayers # 0 /\ l.temporalLayers # 0
      BY <3>1 DEF Copy, IsObject, LayerFields
    <3> HIDE DEF l
    <3>3. r = <<"object", l>>
      BY <1>1, <2>2 DEF l
    <3>4. r[1] = "object" /\ r[2] = l
      BY <3>3
    <3> QED  BY <3>2, <3>3, <3>4 DEF StandardMode, Fields, Has, LayersReadable
  <2> QED  BY <2>1, <2>2
<1> QED  BY <1>3, <1>4 DEF r

(* What one conversion, with Mode for the scalability mode, makes of an encoding. *)
EncodingConverted(e, p) ==
  /\ IsObject(p)
  /\ DOMAIN p = (EncodingFields \cup {"rtx", "scalabilityMode"}) \cap DOMAIN e
  /\ \A x \in EncodingFields \cap DOMAIN e : p[x] = e[x]
  /\ "rtx" \in DOMAIN e => p.rtx = [ssrc |-> Get(e.rtx, "ssrc", 0)]

(* Both conversions of an encoding do that. *)
LEMMA EncodingFieldsConverted ==
  ASSUME NEW e
  PROVE  /\ EncodingConverted(e, EncodingToProto(e))
         /\ EncodingConverted(e, EncodingToJson(e))
         /\ "scalabilityMode" \in DOMAIN e =>
              /\ EncodingToProto(e).scalabilityMode = ScalabilityModeToProto(e.scalabilityMode)
              /\ EncodingToJson(e).scalabilityMode = ScalabilityModeToJson(e.scalabilityMode)
<1>1. ASSUME NEW mode, NEW p,
             p = (Copy(e, EncodingFields)
                  ?? (IF Has(e, {"rtx"}) THEN [rtx |-> [ssrc |-> Get(e.rtx, "ssrc", 0)]] ELSE <<>>)
                  ?? (IF Has(e, {"scalabilityMode"}) THEN [scalabilityMode |-> mode] ELSE <<>>))
      PROVE  /\ EncodingConverted(e, p)
             /\ "scalabilityMode" \in DOMAIN e => p.scalabilityMode = mode
  <2> DEFINE rtx == IF Has(e, {"rtx"}) THEN [rtx |-> [ssrc |-> Get(e.rtx, "ssrc", 0)]] ELSE <<>>
             modes == IF Has(e, {"scalabilityMode"}) THEN [scalabilityMode |-> mode] ELSE <<>>
  <2>1. /\ DOMAIN rtx = {"rtx"} \cap DOMAIN e
        /\ "rtx" \in DOMAIN e => rtx.rtx = [ssrc |-> Get(e.rtx, "ssrc", 0)]
    BY DEF Has
  <2>2. /\ DOMAIN modes = {"scalabilityMode"} \cap DOMAIN e
        /\ "scalabilityMode" \in DOMAIN e => modes.scalabilityMode = mode
    BY DEF Has
  <2> HIDE DEF rtx, modes
  <2>3. PICK both : both = (Copy(e, EncodingFields) ?? rtx)
    OBVIOUS
  <2>4. p = (both ?? modes)
    BY <1>1, <2>3 DEF rtx, modes
  <2>5. /\ DOMAIN both = (EncodingFields \cup {"rtx"}) \cap DOMAIN e
        /\ \A x \in EncodingFields \cap DOMAIN e : both[x] = e[x]
        /\ "rtx" \in DOMAIN e => both.rtx = rtx.rtx
    BY <2>1, <2>3 DEF ??, Copy, EncodingFields
  <2>6. /\ IsObject(p)
        /\ DOMAIN p = (EncodingFields \cup {"rtx", "scalabilityMode"}) \cap DOMAIN e
        /\ \A x \in (EncodingFields \cup {"rtx"}) \cap DOMAIN e : p[x] = both[x]
        /\ "scalabilityMode" \in DOMAIN e => p.scalabilityMode = modes.scalabilityMode
    BY <2>2, <2>4, <2>5 DEF ??, IsObject, EncodingFields
  <2> QED  BY <2>1, <2>2, <2>5, <2>6 DEF EncodingConverted
<1>2. EncodingToProto(e)
        = (Copy(e, EncodingFields)
           ?? (IF Has(e, {"rtx"}) THEN [rtx |-> [ssrc |-> Get(e.rtx, "ssrc", 0)]] ELSE <<>>)
           ?? (IF Has(e, {"scalabilityMode"})
               THEN [scalabilityMode |-> ScalabilityModeToProto(e.scalabilityMode)] ELSE <<>>))
  BY Zenon DEF EncodingToProto, EncodingWith
<1>3. EncodingToJson(e)
        = (Copy(e, EncodingFields)
           ?? (IF Has(e, {"rtx"}) THEN [rtx |-> [ssrc |-> Get(e.rtx, "ssrc", 0)]] ELSE <<>>)
           ?? (IF Has(e, {"scalabilityMode"})
               THEN [scalabilityMode |-> ScalabilityModeToJson(e.scalabilityMode)] ELSE <<>>))
  BY Zenon DEF EncodingToJson, EncodingWith
<1> QED  BY <1>1, <1>2, <1>3, Zenon

(* How an encoding comes back. *)
EncodingBack(e) == EncodingToJson(EncodingToProto(e))

(* A standard encoding comes back as it was: no field of it has a default. *)
LEMMA EncodingReturns ==
  ASSUME NEW e
  PROVE  /\ StandardEncoding(e) => EncodingReadable(e) /\ EncodingBack(e) = e
         /\ EncodingReadable(e) => StandardEncoding(EncodingBack(e))
<1>p. PICK p : p = EncodingToProto(e)
  OBVIOUS
<1>r. PICK r : r = EncodingBack(e)
  OBVIOUS
<1>1. /\ EncodingConverted(e, p)
      /\ "scalabilityMode" \in DOMAIN e => p.scalabilityMode = ScalabilityModeToProto(e.scalabilityMode)
  BY <1>p, EncodingFieldsConverted
<1>2. /\ EncodingConverted(p, r)
      /\ "scalabilityMode" \in DOMAIN p => r.scalabilityMode = ScalabilityModeToJson(p.scalabilityMode)
  BY <1>p, <1>r, EncodingFieldsConverted DEF EncodingBack
<1>3. /\ IsObject(r)
      /\ DOMAIN r = (EncodingFields \cup {"rtx", "scalabilityMode"}) \cap DOMAIN e
      /\ \A x \in EncodingFields \cap DOMAIN e : r[x] = e[x]
      /\ "rtx" \in DOMAIN e => r.rtx = [ssrc |-> Get(e.rtx, "ssrc", 0)]
      /\ "scalabilityMode" \in DOMAIN e =>
           r.scalabilityMode = ScalabilityModeToJson(ScalabilityModeToProto(e.scalabilityMode))
  <2>1. DOMAIN p = (EncodingFields \cup {"rtx", "scalabilityMode"}) \cap DOMAIN e
    BY <1>1 DEF EncodingConverted
  <2>2. IsObject(r) /\ DOMAIN r = (EncodingFields \cup {"rtx", "scalabilityMode"}) \cap DOMAIN p
    BY <1>2 DEF EncodingConverted
  <2>3. DOMAIN r = (EncodingFields \cup {"rtx", "scalabilityMode"}) \cap DOMAIN e
    BY <2>1, <2>2
  <2>4. ASSUME NEW x \in EncodingFields \cap DOMAIN e PROVE r[x] = e[x]
    BY <2>1, <1>1, <1>2 DEF EncodingConverted
  <2>5. "rtx" \in DOMAIN e => r.rtx = [ssrc |-> Get(e.rtx, "ssrc", 0)]
    BY <2>1, <1>1, <1>2 DEF EncodingConverted, Get
  <2> QED  BY <1>1, <1>2, <2>1, <2>2, <2>3, <2>4, <2>5
<1>4. EncodingReadable(e) <=> ("scalabilityMode" \in DOMAIN e =>
                                 (e.scalabilityMode[1] = "object" => LayersReadable(e.scalabilityMode[2])))
  BY DEF EncodingReadable, Has
<1>5. ASSUME StandardEncoding(e) PROVE EncodingReadable(e) /\ r = e
  <2>1. IsObject(e) /\ DOMAIN e \subseteq EncodingFields \cup {"rtx", "scalabilityMode"}
    BY <1>5 DEF StandardEncoding, Fields
  <2>2. "rtx" \in DOMAIN e => r.rtx = e.rtx
    <3>1. "rtx" \in DOMAIN e => IsObject(e.rtx) /\ DOMAIN e.rtx = {"ssrc"}
      BY <1>5 DEF StandardEncoding, Fields, Has
    <3>2. "rtx" \in DOMAIN e => e.rtx = [ssrc |-> e.rtx.ssrc]
      BY <3>1 DEF IsObject
    <3> QED  BY <1>3, <3>1, <3>2 DEF Get
  <2>3. "scalabilityMode" \in DOMAIN e => StandardMode(e.scalabilityMode)
    BY <1>5 DEF StandardEncoding, Has
  <2>4. "scalabilityMode" \in DOMAIN e => r.scalabilityMode = e.scalabilityMode
    BY <1>3, <2>3, ModeReturns
  <2>5. DOMAIN r = DOMAIN e
    BY <1>3, <2>1
  <2>6. \A x \in DOMAIN r : r[x] = e[x]
    BY <1>3, <2>2, <2>4
  <2>7. r = e
    BY <1>3, <2>1, <2>5, <2>6, SameObject
  <2> QED  BY <1>4, <2>3, <2>7, ModeReturns
<1>6. ASSUME EncodingReadable(e) PROVE StandardEncoding(r)
  <2>1. Fields(r, {}, EncodingFields \cup {"rtx", "scalabilityMode"})
    BY <1>3 DEF Fields, Has
  <2>2. "rtx" \in DOMAIN r => Fields(r.rtx, {"ssrc"}, {})
    BY <1>3 DEF Fields, Has, IsObject
  <2>3. "scalabilityMode" \in DOMAIN r => StandardMode(r.scalabilityMode)
    BY <1>3, <1>4, <1>6, ModeReturns
  <2> QED  BY <2>1, <2>2, <2>3 DEF StandardEncoding, Has
<1> QED  BY <1>r, <1>5, <1>6

(* The conversion of rtcp, which is the same both ways, is done once. *)
LEMMA RtcpReturns ==
  ASSUME NEW rtcp
  PROVE  /\ RtcpOf(RtcpOf(rtcp)) = RtcpOf(rtcp)
         /\ Fields(RtcpOf(rtcp), {"reducedSize"}, {"cname"})
         /\ (RtcpOf(rtcp) ?? [reducedSize |-> FALSE]) = RtcpOf(rtcp)
         /\ Fields(rtcp, {}, {"cname", "reducedSize"}) => RtcpOf(rtcp) = (rtcp ?? [reducedSize |-> FALSE])
         /\ RtcpOf(<<>>) = [reducedSize |-> FALSE]
<1>1. ASSUME NEW x
      PROVE  /\ IsObject(RtcpOf(x))
             /\ DOMAIN RtcpOf(x) = {"reducedSize"} \cup ({"cname"} \cap DOMAIN x)
             /\ RtcpOf(x).reducedSize = Get(x, "reducedSize", FALSE)
             /\ "cname" \in DOMAIN x => RtcpOf(x).cname = x.cname
  BY DEF RtcpOf, ??, Copy, IsObject
<1>r. PICK r : r = RtcpOf(rtcp)
  OBVIOUS
<1>2. /\ IsObject(r) /\ DOMAIN r = {"reducedSize"} \cup ({"cname"} \cap DOMAIN rtcp)
      /\ r.reducedSize = Get(rtcp, "reducedSize", FALSE)
      /\ "cname" \in DOMAIN rtcp => r.cname = rtcp.cname
  BY <1>r, <1>1
<1>3. RtcpOf(r) = r
  <2>s. PICK s : s = RtcpOf(r)
    OBVIOUS
  <2>1. /\ IsObject(s) /\ DOMAIN s = {"reducedSize"} \cup ({"cname"} \cap DOMAIN r)
        /\ s.reducedSize = Get(r, "reducedSize", FALSE)
        /\ "cname" \in DOMAIN r => s.cname = r.cname
    BY <2>s, <1>1
  <2>2. DOMAIN s = DOMAIN r /\ \A x \in DOMAIN s : s[x] = r[x]
    BY <2>1, <1>2 DEF Get
  <2> QED  BY <2>s, <2>1, <2>2, <1>2, SameObject
<1>4. Fields(r, {"reducedSize"}, {"cname"})
  BY <1>2 DEF Fields, Has
<1>5. (r ?? [reducedSize |-> FALSE]) = r
  BY <1>2 DEF ??, IsObject
<1>6. ASSUME Fields(rtcp, {}, {"cname", "reducedSize"}) PROVE r = (rtcp ?? [reducedSize |-> FALSE])
  <2>s. PICK s : s = (rtcp ?? [reducedSize |-> FALSE])
    OBVIOUS
  <2>1. /\ IsObject(s) /\ DOMAIN s = DOMAIN rtcp \cup {"reducedSize"}
        /\ \A x \in DOMAIN rtcp : s[x] = rtcp[x]
        /\ "reducedSize" \notin DOMAIN rtcp => s.reducedSize = FALSE
    BY <2>s DEF ??, IsObject
  <2>2. DOMAIN rtcp \subseteq {"cname", "reducedSize"}
    BY <1>6 DEF Fields
  <2>3. DOMAIN s = DOMAIN r
    BY <2>1, <2>2, <1>2
  <2>4. \A x \in DOMAIN s : s[x] = r[x]
    BY <2>1, <2>2, <1>2 DEF Get
  <2> QED  BY <2>s, <2>1, <2>3, <2>4, <1>2, SameObject
<1>7. RtcpOf(<<>>) = [reducedSize |-> FALSE]
  BY DEF RtcpOf, Get, Copy, ??
<1> QED  BY <1>r, <1>3, <1>4, <1>5, <1>6, <1>7

(* What comes back of a description. *)
Back(t, j) == ToJson(t, ToProto(t, j))

Headers(j)   == Get(j, "headerExtensions", <<>>)
Encodings(j) == Get(j, "encodings", <<>>)

(* r has the fields of an RTP description that was read and written. *)
RtpConverted(t, j, r) ==
  /\ IsObject(r)
  /\ DOMAIN r = {"codecs", "headerExtensions"}
                  \cup (IF t = "RtpParameters" THEN {"encodings", "rtcp"} \cup ({"mid"} \cap DOMAIN j) ELSE {})
  /\ r.codecs = [i \in DOMAIN j.codecs |-> CodecBack(t, j.codecs[i])]
  /\ r.headerExtensions = [i \in DOMAIN Headers(j) |-> ExtensionBack(t, Headers(j)[i])]
  /\ t = "RtpParameters" =>
       /\ r.encodings = [i \in DOMAIN Encodings(j) |-> EncodingBack(Encodings(j)[i])]
       /\ "rtcp" \in DOMAIN j => r.rtcp = RtcpOf(j.rtcp)
       /\ "rtcp" \notin DOMAIN j => r.rtcp = [reducedSize |-> FALSE]
       /\ "mid" \in DOMAIN j => r.mid = j.mid

(* That is what the two converters make. *)
LEMMA RtpFields ==
  ASSUME NEW t \in RtpTypes, NEW j
  PROVE  RtpConverted(t, j, Back(t, j))
<1>1. ASSUME t # "RtpParameters" PROVE RtpConverted(t, j, Back(t, j))
  <2>1. Back(t, j) = [codecs |-> [i \in DOMAIN j.codecs |-> CodecBack(t, j.codecs[i])],
                      headerExtensions |-> [i \in DOMAIN Headers(j) |-> ExtensionBack(t, Headers(j)[i])]]
    <3>1. CASE t = "RtpCapabilities"
      BY <3>1 DEF Back, ToJson, ToProto, Lists, Each, Headers, Get, CodecBack, ExtensionBack
    <3>2. CASE t = "RtpCapabilitiesFinalized"
      BY <3>2 DEF Back, ToJson, ToProto, Lists, Each, Headers, Get, CodecBack, ExtensionBack
    <3> QED  BY <1>1, <3>1, <3>2 DEF RtpTypes
  <2>2. PICK codecs, headers :
             /\ codecs = [i \in DOMAIN j.codecs |-> CodecBack(t, j.codecs[i])]
             /\ headers = [i \in DOMAIN Headers(j) |-> ExtensionBack(t, Headers(j)[i])]
    OBVIOUS
  <2>3. PICK r : r = Back(t, j)
    OBVIOUS
  <2>4. r = [codecs |-> codecs, headerExtensions |-> headers]
    BY <2>1, <2>2, <2>3
  <2>5. /\ IsObject(r) /\ DOMAIN r = {"codecs", "headerExtensions"}
        /\ r.codecs = codecs /\ r.headerExtensions = headers
    BY <2>4 DEF IsObject
  <2> QED  BY <1>1, <2>2, <2>3, <2>5 DEF RtpConverted
<1>2. ASSUME t = "RtpParameters" PROVE RtpConverted(t, j, Back(t, j))
  <2>p. PICK p : p = RtpToProto(j)
    OBVIOUS
  <2>r. PICK r : r = Back(t, j)
    OBVIOUS
  <2>1. r = RtpToJson(p)
    BY <1>2, <2>p, <2>r DEF Back, ToJson, ToProto
  <2>2. PICK lists, encodings, rtcp :
          /\ lists = Lists(j, ParametersToProto, ExtensionParametersToProto)
          /\ encodings = [encodings |-> Each(EncodingToProto, Get(j, "encodings", <<>>))]
          /\ rtcp = IF Has(j, {"rtcp"}) THEN [rtcp |-> RtcpOf(j.rtcp)] ELSE <<>>
    OBVIOUS
  <2>3. p = (lists ?? encodings ?? rtcp ?? Copy(j, {"mid"}))
    BY <2>p, <2>2 DEF RtpToProto
  <2>4. PICK two : two = (lists ?? encodings)
    OBVIOUS
  <2>5. PICK three : three = (two ?? rtcp)
    OBVIOUS
  <2>6. p = (three ?? Copy(j, {"mid"}))
    BY <2>3, <2>4, <2>5
  <2>7. /\ DOMAIN lists = {"codecs", "headerExtensions"}
        /\ lists.codecs = Each(ParametersToProto, j.codecs)
        /\ lists.headerExtensions = Each(ExtensionParametersToProto, Headers(j))
    BY <2>2 DEF Lists, Headers
  <2>8. /\ DOMAIN encodings = {"encodings"}
        /\ encodings.encodings = Each(EncodingToProto, Encodings(j))
    BY <2>2 DEF Encodings
  <2>9. /\ DOMAIN rtcp = {"rtcp"} \cap DOMAIN j
        /\ "rtcp" \in DOMAIN j => rtcp.rtcp = RtcpOf(j.rtcp)
    BY <2>2 DEF Has
  <2>10. /\ DOMAIN two = {"codecs", "headerExtensions", "encodings"}
         /\ two.codecs = lists.codecs /\ two.headerExtensions = lists.headerExtensions
         /\ two.encodings = encodings.encodings
    BY <2>4, <2>7, <2>8 DEF ??
  <2>11. /\ DOMAIN three = {"codecs", "headerExtensions", "encodings"} \cup ({"rtcp"} \cap DOMAIN j)
         /\ three.codecs = two.codecs /\ three.headerExtensions = two.headerExtensions
         /\ three.encodings = two.encodings
         /\ "rtcp" \in DOMAIN j => three.rtcp = rtcp.rtcp
    BY <2>5, <2>9, <2>10 DEF ??
  <2>12. /\ DOMAIN p = {"codecs", "headerExtensions", "encodings"} \cup ({"rtcp", "mid"} \cap DOMAIN j)
         /\ p.codecs = three.codecs /\ p.headerExtensions = three.headerExtensions
         /\ p.encodings = three.encodings
         /\ "rtcp" \in DOMAIN j => p.rtcp = three.rtcp
         /\ "mid" \in DOMAIN j => p.mid = j.mid
    BY <2>6, <2>11 DEF ??, Copy
  <2>13. PICK written, others :
          /\ written = Lists(p, ParametersToJson, ExtensionParametersToJson)
          /\ others = [encodings |-> Each(EncodingToJson, p.encodings),
                       rtcp |-> RtcpOf(Get(p, "rtcp", <<>>))]
    OBVIOUS
  <2>14. r = (written ?? others ?? Copy(p, {"mid"}))
    BY <2>1, <2>13 DEF RtpToJson
  <2>15. PICK both : both = (written ?? others)
    OBVIOUS
  <2>16. r = (both ?? Copy(p, {"mid"}))
    BY <2>14, <2>15
  <2>17. /\ DOMAIN written = {"codecs", "headerExtensions"}
         /\ written.codecs = Each(ParametersToJson, p.codecs)
         /\ written.headerExtensions = Each(ExtensionParametersToJson, p.headerExtensions)
    BY <2>12, <2>13 DEF Lists, Get
  <2>18. /\ DOMAIN others = {"encodings", "rtcp"}
         /\ others.encodings = Each(EncodingToJson, p.encodings)
         /\ others.rtcp = RtcpOf(Get(p, "rtcp", <<>>))
    BY <2>13
  <2>19. /\ DOMAIN both = {"codecs", "headerExtensions", "encodings", "rtcp"}
         /\ both.codecs = written.codecs /\ both.headerExtensions = written.headerExtensions
         /\ both.encodings = others.encodings /\ both.rtcp = others.rtcp
    BY <2>15, <2>17, <2>18 DEF ??
  <2>20. /\ IsObject(r)
         /\ DOMAIN r = {"codecs", "headerExtensions", "encodings", "rtcp"} \cup ({"mid"} \cap DOMAIN j)
         /\ r.codecs = both.codecs /\ r.headerExtensions = both.headerExtensions
         /\ r.encodings = both.encodings /\ r.rtcp = both.rtcp
         /\ "mid" \in DOMAIN j => r.mid = p.mid
    BY <2>12, <2>16, <2>19 DEF ??, Copy, IsObject
  <2>21. r.codecs = [i \in DOMAIN j.codecs |-> CodecBack(t, j.codecs[i])]
    <3>1. r.codecs = Each(ParametersToJson, Each(ParametersToProto, j.codecs))
      BY <2>7, <2>10, <2>11, <2>12, <2>17, <2>19, <2>20
    <3> QED  BY <1>2, <3>1 DEF Each, CodecBack
  <2>22. r.headerExtensions = [i \in DOMAIN Headers(j) |-> ExtensionBack(t, Headers(j)[i])]
    <3>1. r.headerExtensions = Each(ExtensionParametersToJson, Each(ExtensionParametersToProto, Headers(j)))
      BY <2>7, <2>10, <2>11, <2>12, <2>17, <2>19, <2>20
    <3> QED  BY <1>2, <3>1 DEF Each, ExtensionBack
  <2>23. r.encodings = [i \in DOMAIN Encodings(j) |-> EncodingBack(Encodings(j)[i])]
    <3>1. r.encodings = Each(EncodingToJson, Each(EncodingToProto, Encodings(j)))
      BY <2>8, <2>10, <2>11, <2>12, <2>18, <2>19, <2>20
    <3> QED  BY <3>1 DEF Each, EncodingBack
  <2>24. /\ "rtcp" \in DOMAIN j => r.rtcp = RtcpOf(j.rtcp)
         /\ "rtcp" \notin DOMAIN j => r.rtcp = [reducedSize |-> FALSE]
    <3>1. r.rtcp = RtcpOf(Get(p, "rtcp", <<>>))
      BY <2>18, <2>19, <2>20
    <3>2. "rtcp" \in DOMAIN j => Get(p, "rtcp", <<>>) = RtcpOf(j.rtcp)
      BY <2>9, <2>11, <2>12 DEF Get
    <3>3. "rtcp" \notin DOMAIN j => Get(p, "rtcp", <<>>) = <<>>
      BY <2>12 DEF Get
    <3> QED  BY <3>1, <3>2, <3>3, RtcpReturns
  <2> QED  BY <1>2, <2>r, <2>12, <2>20, <2>21, <2>22, <2>23, <2>24 DEF RtpConverted
<1> QED  BY <1>1, <1>2

(* s has the fields of a completed RTP description. *)
RtpCompleted(t, j, s) ==
  /\ IsObject(s)
  /\ DOMAIN s = {"codecs", "headerExtensions"} \cup DOMAIN j
                  \cup (IF t = "RtpParameters" THEN {"encodings", "rtcp"} ELSE {})
  /\ s.codecs = [i \in DOMAIN j.codecs |-> CompleteCodec(t, j.codecs[i])]
  /\ s.headerExtensions = [i \in DOMAIN Headers(j) |-> CompleteExtension(t, Headers(j)[i])]
  /\ "rtcp" \in DOMAIN j => s.rtcp = (j.rtcp ?? [reducedSize |-> FALSE])
  /\ \A x \in DOMAIN j : x \notin {"codecs", "headerExtensions", "rtcp"} => s[x] = j[x]
  /\ t = "RtpParameters" => /\ "encodings" \notin DOMAIN j => s.encodings = <<>>
                            /\ "rtcp" \notin DOMAIN j => s.rtcp = [reducedSize |-> FALSE]

(* That is what Complete makes. *)
LEMMA CompleteRtpFields ==
  ASSUME NEW t \in RtpTypes, NEW j
  PROVE  RtpCompleted(t, j, Complete(t, j))
<1>s. PICK s : s = Complete(t, j)
  OBVIOUS
<1>1. PICK lists, rtcp, defaults :
        /\ lists = Lists(j, LAMBDA c : CompleteCodec(t, c), LAMBDA e : CompleteExtension(t, e))
        /\ rtcp = IF Has(j, {"rtcp"}) THEN [rtcp |-> j.rtcp ?? [reducedSize |-> FALSE]] ELSE <<>>
        /\ defaults = IF t = "RtpParameters"
                      THEN [encodings |-> <<>>, rtcp |-> [reducedSize |-> FALSE]] ELSE <<>>
  OBVIOUS
<1>2. s = (lists ?? rtcp ?? j ?? defaults)
  BY <1>s, <1>1 DEF Complete, RtpTypes
<1>3. PICK two : two = (lists ?? rtcp)
  OBVIOUS
<1>4. PICK three : three = (two ?? j)
  OBVIOUS
<1>5. s = (three ?? defaults)
  BY <1>2, <1>3, <1>4
<1>6. /\ DOMAIN lists = {"codecs", "headerExtensions"}
      /\ lists.codecs = [i \in DOMAIN j.codecs |-> CompleteCodec(t, j.codecs[i])]
      /\ lists.headerExtensions = [i \in DOMAIN Headers(j) |-> CompleteExtension(t, Headers(j)[i])]
  BY <1>1 DEF Lists, Each, Headers
<1>7. /\ DOMAIN rtcp = {"rtcp"} \cap DOMAIN j
      /\ "rtcp" \in DOMAIN j => rtcp.rtcp = (j.rtcp ?? [reducedSize |-> FALSE])
  BY <1>1 DEF Has
<1>8. /\ DOMAIN defaults = IF t = "RtpParameters" THEN {"encodings", "rtcp"} ELSE {}
      /\ t = "RtpParameters" => defaults.encodings = <<>> /\ defaults.rtcp = [reducedSize |-> FALSE]
  BY <1>1
<1>9. /\ DOMAIN two = {"codecs", "headerExtensions"} \cup ({"rtcp"} \cap DOMAIN j)
      /\ two.codecs = lists.codecs /\ two.headerExtensions = lists.headerExtensions
      /\ "rtcp" \in DOMAIN j => two.rtcp = rtcp.rtcp
  BY <1>3, <1>6, <1>7 DEF ??
<1>10. /\ DOMAIN three = {"codecs", "headerExtensions"} \cup DOMAIN j
       /\ three.codecs = two.codecs /\ three.headerExtensions = two.headerExtensions
       /\ "rtcp" \in DOMAIN j => three.rtcp = two.rtcp
       /\ \A x \in DOMAIN j : x \notin {"codecs", "headerExtensions", "rtcp"} => three[x] = j[x]
  BY <1>4, <1>9 DEF ??
<1>11. /\ IsObject(s)
       /\ DOMAIN s = DOMAIN three \cup DOMAIN defaults
       /\ \A x \in DOMAIN three : s[x] = three[x]
       /\ \A x \in DOMAIN defaults : x \notin DOMAIN three => s[x] = defaults[x]
  BY <1>5 DEF ??, IsObject
<1>12. /\ s.codecs = three.codecs /\ s.headerExtensions = three.headerExtensions
       /\ "rtcp" \in DOMAIN j => s.rtcp = three.rtcp
  BY <1>10, <1>11
<1>13. \A x \in DOMAIN j : x \notin {"codecs", "headerExtensions", "rtcp"} => s[x] = j[x]
  BY <1>10, <1>11
<1>14. t = "RtpParameters" => /\ "encodings" \notin DOMAIN j => s.encodings = <<>>
                              /\ "rtcp" \notin DOMAIN j => s.rtcp = [reducedSize |-> FALSE]
  BY <1>8, <1>10, <1>11
<1>15. DOMAIN s = {"codecs", "headerExtensions"} \cup DOMAIN j
                  \cup (IF t = "RtpParameters" THEN {"encodings", "rtcp"} ELSE {})
  BY <1>8, <1>10, <1>11
<1>16. RtpCompleted(t, j, s)
  BY <1>6, <1>7, <1>9, <1>10, <1>11, <1>12, <1>13, <1>14, <1>15 DEF RtpCompleted
<1> QED  BY <1>s, <1>16

(* Which RTP descriptions are read. *)
LEMMA RtpRead ==
  ASSUME NEW t \in RtpTypes, NEW j
  PROVE  Readable(t, j) <=>
           /\ "codecs" \in DOMAIN j
           /\ t # "RtpParameters" => "headerExtensions" \in DOMAIN j
           /\ \A i \in DOMAIN j.codecs : CodecRead(t, j.codecs[i])
           /\ \A i \in DOMAIN Headers(j) : ExtensionRead(t, Headers(j)[i])
           /\ t = "RtpParameters" => \A i \in DOMAIN Encodings(j) : EncodingReadable(Encodings(j)[i])
<1>1. CASE t = "RtpParameters"
  BY <1>1 DEF Readable, RtpReadable, ListsReadable, All, Has, Headers, Encodings, CodecRead, ExtensionRead
<1>2. CASE t = "RtpCapabilities"
  BY <1>2 DEF Readable, CapabilitiesReadable, ListsReadable, All, Has, Headers, CodecRead, ExtensionRead
<1>3. CASE t = "RtpCapabilitiesFinalized"
  BY <1>3 DEF Readable, CapabilitiesReadable, ListsReadable, All, Has, Headers, CodecRead, ExtensionRead
<1> QED  BY <1>1, <1>2, <1>3 DEF RtpTypes

(* Which RTP descriptions are standard. *)
LEMMA RtpStandard ==
  ASSUME NEW t \in RtpTypes, NEW j
  PROVE  Standard(t, j) <=>
           /\ IsObject(j)
           /\ "codecs" \in DOMAIN j
           /\ t # "RtpParameters" => "headerExtensions" \in DOMAIN j
           /\ DOMAIN j \subseteq {"codecs", "headerExtensions"}
                                   \cup (IF t = "RtpParameters" THEN {"encodings", "rtcp", "mid"} ELSE {})
           /\ IsObject(j.codecs) /\ \A i \in DOMAIN j.codecs : StandardCodec(t, j.codecs[i])
           /\ IsObject(Headers(j)) /\ \A i \in DOMAIN Headers(j) : StandardExtension(t, Headers(j)[i])
           /\ IsObject(Encodings(j)) /\ \A i \in DOMAIN Encodings(j) : StandardEncoding(Encodings(j)[i])
           /\ "rtcp" \in DOMAIN j => Fields(j.rtcp, {}, {"cname", "reducedSize"})
<1>1. Standard(t, j) = StandardRtp(t, j)
  BY DEF Standard, RtpTypes
<1>2. (IF t = "RtpParameters"
       THEN Fields(j, {"codecs"}, {"headerExtensions", "encodings", "rtcp", "mid"})
       ELSE Fields(j, {"codecs", "headerExtensions"}, {}))
      <=> /\ IsObject(j)
          /\ "codecs" \in DOMAIN j
          /\ t # "RtpParameters" => "headerExtensions" \in DOMAIN j
          /\ DOMAIN j \subseteq {"codecs", "headerExtensions"}
                                   \cup (IF t = "RtpParameters" THEN {"encodings", "rtcp", "mid"} ELSE {})
  BY DEF Fields, Has
<1>3. StandardRtp(t, j) <=>
        /\ (IF t = "RtpParameters"
            THEN Fields(j, {"codecs"}, {"headerExtensions", "encodings", "rtcp", "mid"})
            ELSE Fields(j, {"codecs", "headerExtensions"}, {}))
        /\ IsObject(j.codecs) /\ \A i \in DOMAIN j.codecs : StandardCodec(t, j.codecs[i])
        /\ IsObject(Headers(j)) /\ \A i \in DOMAIN Headers(j) : StandardExtension(t, Headers(j)[i])
        /\ IsObject(Encodings(j)) /\ \A i \in DOMAIN Encodings(j) : StandardEncoding(Encodings(j)[i])
        /\ "rtcp" \in DOMAIN j => Fields(j.rtcp, {}, {"cname", "reducedSize"})
  BY Zenon DEF StandardRtp, ListOf, All, Headers, Encodings, Has
<1> QED  BY <1>1, <1>2, <1>3

(* An RTP description comes back completed, and what comes back of any is standard and
   complete: list by list, from its codecs, extensions, encodings and rtcp. *)
LEMMA RtpReturns ==
  ASSUME NEW t \in RtpTypes, NEW j
  PROVE  /\ Standard(t, j) => Readable(t, j) /\ Back(t, j) = Complete(t, j)
         /\ Readable(t, j) /\ Typed(t, j) =>
              Standard(t, Back(t, j)) /\ Complete(t, Back(t, j)) = Back(t, j)
<1>r. PICK r : r = Back(t, j)
  OBVIOUS
<1>1. RtpConverted(t, j, r)
  BY <1>r, RtpFields
<1>2. ASSUME Standard(t, j) PROVE Readable(t, j) /\ r = Complete(t, j)
  <2>1. /\ IsObject(j)
        /\ "codecs" \in DOMAIN j
        /\ t # "RtpParameters" => "headerExtensions" \in DOMAIN j
        /\ DOMAIN j \subseteq {"codecs", "headerExtensions"}
                                \cup (IF t = "RtpParameters" THEN {"encodings", "rtcp", "mid"} ELSE {})
        /\ \A i \in DOMAIN j.codecs : StandardCodec(t, j.codecs[i])
        /\ \A i \in DOMAIN Headers(j) : StandardExtension(t, Headers(j)[i])
        /\ IsObject(Encodings(j)) /\ \A i \in DOMAIN Encodings(j) : StandardEncoding(Encodings(j)[i])
        /\ "rtcp" \in DOMAIN j => Fields(j.rtcp, {}, {"cname", "reducedSize"})
    BY <1>2, RtpStandard, Zenon
  <2>2. Readable(t, j)
    <3>1. \A i \in DOMAIN j.codecs : CodecRead(t, j.codecs[i])
      BY <2>1, CodecReturns
    <3>2. \A i \in DOMAIN Headers(j) : ExtensionRead(t, Headers(j)[i])
      BY <2>1, ExtensionReturns
    <3>3. \A i \in DOMAIN Encodings(j) : EncodingReadable(Encodings(j)[i])
      BY <2>1, EncodingReturns
    <3> QED  BY <2>1, <3>1, <3>2, <3>3, RtpRead
  <2>s. PICK s : s = Complete(t, j)
    OBVIOUS
  <2>3. RtpCompleted(t, j, s)
    BY <2>s, CompleteRtpFields
  <2>4. r.codecs = s.codecs
    <3>1. \A i \in DOMAIN j.codecs : CodecBack(t, j.codecs[i]) = CompleteCodec(t, j.codecs[i])
      BY <2>1, CodecReturns
    <3>2. /\ r.codecs = [i \in DOMAIN j.codecs |-> CodecBack(t, j.codecs[i])]
          /\ s.codecs = [i \in DOMAIN j.codecs |-> CompleteCodec(t, j.codecs[i])]
      BY <1>1, <2>3 DEF RtpConverted, RtpCompleted
    <3> QED  BY <3>1, <3>2
  <2>5. r.headerExtensions = s.headerExtensions
    <3>1. \A i \in DOMAIN Headers(j) : ExtensionBack(t, Headers(j)[i]) = CompleteExtension(t, Headers(j)[i])
      BY <2>1, ExtensionReturns
    <3>2. /\ r.headerExtensions = [i \in DOMAIN Headers(j) |-> ExtensionBack(t, Headers(j)[i])]
          /\ s.headerExtensions = [i \in DOMAIN Headers(j) |-> CompleteExtension(t, Headers(j)[i])]
      BY <1>1, <2>3 DEF RtpConverted, RtpCompleted
    <3> QED  BY <3>1, <3>2
  <2>6. t = "RtpParameters" => r.encodings = s.encodings
    <3> SUFFICES ASSUME t = "RtpParameters" PROVE r.encodings = s.encodings
      OBVIOUS
    <3>1. r.encodings = [i \in DOMAIN Encodings(j) |-> EncodingBack(Encodings(j)[i])]
      BY <1>1 DEF RtpConverted
    <3>2. \A i \in DOMAIN Encodings(j) : EncodingBack(Encodings(j)[i]) = Encodings(j)[i]
      BY <2>1, EncodingReturns
    <3>3. r.encodings = Encodings(j)
      BY <2>1, <3>1, <3>2 DEF IsObject
    <3>4. s.encodings = Encodings(j)
      BY <2>3 DEF RtpCompleted, Encodings, Get
    <3> QED  BY <3>3, <3>4
  <2>7. t = "RtpParameters" => r.rtcp = s.rtcp
    BY <1>1, <2>1, <2>3, RtcpReturns DEF RtpConverted, RtpCompleted
  <2>8. t = "RtpParameters" /\ "mid" \in DOMAIN j => r.mid = s.mid
    BY <1>1, <2>3 DEF RtpConverted, RtpCompleted
  <2>9. /\ IsObject(r) /\ IsObject(s)
        /\ DOMAIN r = {"codecs", "headerExtensions"}
             \cup (IF t = "RtpParameters" THEN {"encodings", "rtcp"} \cup ({"mid"} \cap DOMAIN j) ELSE {})
        /\ DOMAIN s = {"codecs", "headerExtensions"} \cup DOMAIN j
             \cup (IF t = "RtpParameters" THEN {"encodings", "rtcp"} ELSE {})
    BY <1>1, <2>3 DEF RtpConverted, RtpCompleted
  <2>10. DOMAIN r = DOMAIN s
    BY <2>1, <2>9
  <2>11. \A x \in DOMAIN r : r[x] = s[x]
    BY <2>4, <2>5, <2>6, <2>7, <2>8, <2>9
  <2> QED  BY <2>2, <2>s, <2>9, <2>10, <2>11, SameObject
<1>3. ASSUME Readable(t, j), Typed(t, j) PROVE Standard(t, r) /\ Complete(t, r) = r
  <2>1. /\ "codecs" \in DOMAIN j
        /\ t # "RtpParameters" => "headerExtensions" \in DOMAIN j
        /\ \A i \in DOMAIN j.codecs : CodecRead(t, j.codecs[i])
        /\ \A i \in DOMAIN Headers(j) : ExtensionRead(t, Headers(j)[i])
        /\ t = "RtpParameters" => \A i \in DOMAIN Encodings(j) : EncodingReadable(Encodings(j)[i])
    BY <1>3, RtpRead, Zenon
  <2>2. \A i \in DOMAIN j.codecs : CodecTyped(j.codecs[i])
    BY <1>3, <2>1 DEF Typed, All, Has, RtpTypes
  <2>3. /\ IsObject(r)
        /\ DOMAIN r = {"codecs", "headerExtensions"}
             \cup (IF t = "RtpParameters" THEN {"encodings", "rtcp"} \cup ({"mid"} \cap DOMAIN j) ELSE {})
    BY <1>1 DEF RtpConverted
  <2>4. /\ IsObject(r.codecs)
        /\ \A i \in DOMAIN r.codecs : /\ StandardCodec(t, r.codecs[i])
                                      /\ CompleteCodec(t, r.codecs[i]) = r.codecs[i]
    <3>1. \A i \in DOMAIN j.codecs :
             /\ StandardCodec(t, CodecBack(t, j.codecs[i]))
             /\ CompleteCodec(t, CodecBack(t, j.codecs[i])) = CodecBack(t, j.codecs[i])
      BY <2>1, <2>2, CodecReturns
    <3>2. r.codecs = [i \in DOMAIN j.codecs |-> CodecBack(t, j.codecs[i])]
      BY <1>1 DEF RtpConverted
    <3>3. DOMAIN r.codecs = DOMAIN j.codecs /\ \A i \in DOMAIN j.codecs : r.codecs[i] = CodecBack(t, j.codecs[i])
      BY <3>2
    <3>4. IsObject(r.codecs)
      BY <3>2 DEF IsObject
    <3> QED  BY <3>1, <3>3, <3>4
  <2>5. /\ IsObject(r.headerExtensions)
        /\ \A i \in DOMAIN r.headerExtensions :
             /\ StandardExtension(t, r.headerExtensions[i])
             /\ CompleteExtension(t, r.headerExtensions[i]) = r.headerExtensions[i]
    <3>1. \A i \in DOMAIN Headers(j) :
             /\ StandardExtension(t, ExtensionBack(t, Headers(j)[i]))
             /\ CompleteExtension(t, ExtensionBack(t, Headers(j)[i])) = ExtensionBack(t, Headers(j)[i])
      BY <2>1, ExtensionReturns
    <3>2. r.headerExtensions = [i \in DOMAIN Headers(j) |-> ExtensionBack(t, Headers(j)[i])]
      BY <1>1 DEF RtpConverted
    <3>3. /\ DOMAIN r.headerExtensions = DOMAIN Headers(j)
          /\ \A i \in DOMAIN Headers(j) : r.headerExtensions[i] = ExtensionBack(t, Headers(j)[i])
      BY <3>2
    <3>4. IsObject(r.headerExtensions)
      BY <3>2 DEF IsObject
    <3> QED  BY <3>1, <3>3, <3>4
  <2>6. Headers(r) = r.headerExtensions
    BY <2>3 DEF Headers, Get
  <2>7. IsObject(Encodings(r)) /\ \A i \in DOMAIN Encodings(r) : StandardEncoding(Encodings(r)[i])
    <3>1. CASE t = "RtpParameters"
      <4>1. \A i \in DOMAIN Encodings(j) : StandardEncoding(EncodingBack(Encodings(j)[i]))
        BY <2>1, <3>1, EncodingReturns
      <4>2. r.encodings = [i \in DOMAIN Encodings(j) |-> EncodingBack(Encodings(j)[i])]
        BY <1>1, <3>1 DEF RtpConverted
      <4>3. Encodings(r) = r.encodings
        BY <2>3, <3>1 DEF Encodings, Get
      <4>4. /\ DOMAIN Encodings(r) = DOMAIN Encodings(j)
            /\ \A i \in DOMAIN Encodings(j) : Encodings(r)[i] = EncodingBack(Encodings(j)[i])
        BY <4>2, <4>3
      <4>5. IsObject(Encodings(r))
        BY <4>2, <4>3 DEF IsObject
      <4> QED  BY <4>1, <4>4, <4>5
    <3>2. CASE t # "RtpParameters"
      <4>1. Encodings(r) = <<>>
        BY <2>3, <3>2 DEF Encodings, Get
      <4> QED  BY <4>1 DEF IsObject
    <3> QED  BY <3>1, <3>2
  <2>8. t = "RtpParameters" => /\ Fields(r.rtcp, {"reducedSize"}, {"cname"})
                               /\ (r.rtcp ?? [reducedSize |-> FALSE]) = r.rtcp
    <3> SUFFICES ASSUME t = "RtpParameters"
                 PROVE  /\ Fields(r.rtcp, {"reducedSize"}, {"cname"})
                        /\ (r.rtcp ?? [reducedSize |-> FALSE]) = r.rtcp
      OBVIOUS
    <3>1. r.rtcp = RtcpOf(j.rtcp) \/ r.rtcp = RtcpOf(<<>>)
      BY <1>1, RtcpReturns DEF RtpConverted
    <3> QED  BY <3>1, RtcpReturns
  <2>9. Standard(t, r)
    <3>1. "rtcp" \in DOMAIN r => Fields(r.rtcp, {}, {"cname", "reducedSize"})
      <4>1. "rtcp" \in DOMAIN r => t = "RtpParameters"
        BY <2>3
      <4> QED  BY <4>1, <2>8 DEF Fields, Has
    <3>2. DOMAIN r \subseteq {"codecs", "headerExtensions"}
                                \cup (IF t = "RtpParameters" THEN {"encodings", "rtcp", "mid"} ELSE {})
          /\ "codecs" \in DOMAIN r /\ "headerExtensions" \in DOMAIN r
      BY <2>3
    <3> QED  BY <2>3, <2>4, <2>5, <2>6, <2>7, <3>1, <3>2, RtpStandard
  <2>s. PICK s : s = Complete(t, r)
    OBVIOUS
  <2>10. RtpCompleted(t, r, s)
    BY <2>s, CompleteRtpFields
  <2>11. s.codecs = r.codecs
    <3>1. s.codecs = [i \in DOMAIN r.codecs |-> CompleteCodec(t, r.codecs[i])]
      BY <2>10 DEF RtpCompleted
    <3> QED  BY <3>1, <2>4 DEF IsObject
  <2>12. s.headerExtensions = r.headerExtensions
    <3>1. s.headerExtensions = [i \in DOMAIN Headers(r) |-> CompleteExtension(t, Headers(r)[i])]
      BY <2>10 DEF RtpCompleted
    <3> QED  BY <3>1, <2>5, <2>6 DEF IsObject
  <2>13. DOMAIN s = DOMAIN r
    BY <2>3, <2>10 DEF RtpCompleted
  <2>14. \A x \in DOMAIN r : s[x] = r[x]
    <3> SUFFICES ASSUME NEW x \in DOMAIN r PROVE s[x] = r[x]
      OBVIOUS
    <3>1. CASE x = "rtcp"
      <4>1. t = "RtpParameters"
        BY <2>3, <3>1
      <4>2. s.rtcp = (r.rtcp ?? [reducedSize |-> FALSE])
        BY <2>10, <3>1 DEF RtpCompleted
      <4> QED  BY <3>1, <4>1, <4>2, <2>8
    <3>2. CASE x \notin {"codecs", "headerExtensions", "rtcp"}
      BY <2>10, <3>2 DEF RtpCompleted
    <3> QED  BY <2>11, <2>12, <3>1, <3>2
  <2>15. IsObject(s)
    BY <2>10 DEF RtpCompleted
  <2> QED  BY <2>3, <2>9, <2>s, <2>13, <2>14, <2>15, SameObject
<1> QED  BY <1>r, <1>2, <1>3

(* For every description, not only those of a behaviour: a standard one is read and comes
   back completed, and what comes back of any that is read is standard and complete. *)
THEOREM DescriptionReturns ==
  ASSUME NEW t \in DescriptionType, NEW j
  PROVE  /\ Standard(t, j) => Readable(t, j) /\ Back(t, j) = Complete(t, j)
         /\ Readable(t, j) /\ Typed(t, j) =>
              Standard(t, Back(t, j)) /\ Complete(t, Back(t, j)) = Back(t, j)
<1>1. CASE t = "DtlsParameters"
  <2>1. /\ Standard(t, j) <=> StandardDtls(j)
        /\ Standard(t, Back(t, j)) <=> StandardDtls(Back(t, j))
        /\ Readable(t, j) <=> DtlsReadable(j)
        /\ Back(t, j) = DtlsToJson(DtlsToProto(j))
    BY <1>1 DEF Standard, Readable, Back, ToJson, ToProto
  <2> QED  BY <1>1, <2>1, DtlsReturns
<1>2. CASE t # "DtlsParameters"
  <2>1. t \in RtpTypes
    BY <1>2 DEF DescriptionType, RtpTypes
  <2> QED  BY <2>1, RtpReturns
<1> QED  BY <1>1, <1>2

-----------------------------------------------------------------------------
(* A description with which the converters are done. *)
Settled(t, j) == Standard(t, j) /\ Complete(t, j) = j

(* Such a description is read and comes back unchanged. *)
LEMMA SettledStays ==
  ASSUME NEW t \in DescriptionType, NEW j, Settled(t, j)
  PROVE  Readable(t, j) /\ Back(t, j) = j
BY DescriptionReturns DEF Settled

(* The inductive invariant.  Neither property is inductive: that a refusal is of an original
   and that a second conversion changes nothing both come from what was written before being
   settled, and that again from the message being the one read from what was sent. *)
ConverterInv ==
  /\ type \in DescriptionType
  /\ hops \in Nat
  /\ form \in {"json", "proto", "refused"}
  /\ form = "refused" => hops = 0
  /\ hops = 0 => Typed(type, sent)
  /\ form # "json" /\ hops > 0 => Settled(type, sent)
  /\ form = "proto" => Readable(type, sent) /\ doc = ToProto(type, sent)
  /\ form = "json" /\ hops = 0 => doc = sent
  /\ form = "json" /\ hops > 0 => /\ Settled(type, doc)
                                  /\ doc = Back(type, sent)
  /\ form = "json" /\ hops > 1 => doc = sent

(* It is one: reading keeps the original, and writing settles it. *)
LEMMA ConverterInvariant == ConverterSpec => []ConverterInv
<1>1. ConverterInit => ConverterInv
  <2> SUFFICES ASSUME ConverterInit PROVE ConverterInv
    OBVIOUS
  <2>1. PICK o \in Offer : type = o.type /\ doc = o.doc
    BY DEF ConverterInit
  <2>2. type \in DescriptionType /\ Typed(type, doc)
    BY <2>1, ConvertersAssumption
  <2> QED  BY <2>2 DEF ConverterInit, ConverterInv
<1>2. ConverterInv /\ [ConverterNext]_converter_vars => ConverterInv'
  <2> SUFFICES ASSUME ConverterInv, [ConverterNext]_converter_vars PROVE ConverterInv'
    OBVIOUS
  <2>1. CASE JsonToProtoThrows
    <3>1. hops = 0
      <4>1. hops > 0 => Settled(type, doc) /\ ~Readable(type, doc)
        BY <2>1 DEF ConverterInv, JsonToProtoThrows
      <4> QED  BY <4>1, SettledStays DEF ConverterInv
    <3> QED  BY <2>1, <3>1 DEF ConverterInv, JsonToProtoThrows
  <2>2. CASE JsonToProto
    <3>1. hops = 0 => Typed(type, doc)
      BY <2>2 DEF ConverterInv, JsonToProto
    <3> QED  BY <2>2, <3>1 DEF ConverterInv, JsonToProto
  <2>3. CASE ProtoToJson
    <3>1. doc' = Back(type, sent) /\ Readable(type, sent) /\ type \in DescriptionType
      BY <2>3 DEF ConverterInv, ProtoToJson, Back
    <3>2. Settled(type, doc')
      <4>1. CASE hops = 0
        BY <3>1, <4>1, DescriptionReturns DEF ConverterInv, Settled
      <4>2. CASE hops # 0
        <5>1. Settled(type, sent)
          BY <4>2, <2>3 DEF ConverterInv, ProtoToJson
        <5> QED  BY <5>1, <3>1, SettledStays
      <4> QED  BY <4>1, <4>2
    <3>3. hops' > 1 => doc' = sent
      <4> SUFFICES ASSUME hops' > 1 PROVE doc' = sent
        OBVIOUS
      <4>1. Settled(type, sent)
        BY <2>3 DEF ConverterInv, ProtoToJson
      <4> QED  BY <4>1, <3>1, SettledStays
    <3> QED  BY <2>3, <3>1, <3>2, <3>3 DEF ConverterInv, ProtoToJson
  <2>4. CASE UNCHANGED converter_vars
    BY <2>4 DEF ConverterInv, converter_vars
  <2> QED  BY <2>1, <2>2, <2>3, <2>4 DEF ConverterNext
<1> QED  BY <1>1, <1>2, PTL DEF ConverterSpec

(* A standard description that has been converted once has every name, number and
   parameter it had: JsonToProto and ProtoToJson list them separately, and agree. *)
THEOREM DescriptionsAreFaithful == ConverterSpec => []Faithful
<1>1. ConverterInv => Faithful
  <2> SUFFICES ASSUME ConverterInv, form = "json", hops = 1, Standard(type, sent)
               PROVE  doc = Complete(type, sent)
    BY DEF Faithful
  <2> QED  BY DescriptionReturns DEF ConverterInv
<1> QED  BY <1>1, ConverterInvariant, PTL

(* Only an original is refused, and what was written once is read and written unchanged. *)
THEOREM DescriptionsAreStable == ConverterSpec => []Stable
<1>1. ConverterInv => Stable
  BY DEF ConverterInv, Stable
<1> QED  BY <1>1, ConverterInvariant, PTL
=============================================================================
