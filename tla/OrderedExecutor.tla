-------------------------- MODULE OrderedExecutor --------------------------
(***************************************************************************)
(* What a session expects of its command processor, with no threads and   *)
(* no locks: requests enter a log, they are performed one at a time in    *)
(* the order of the log, and closing the executor is final: whatever was  *)
(* not begun by then never is.                                             *)
(***************************************************************************)
EXTENDS Naturals, Sequences

CONSTANT Command

VARIABLES log,        \* the accepted commands, in order of acceptance
          performed,  \* the commands whose execution began, in order
          finished,   \* how many of those have returned
          open        \* whether commands are still accepted and begun

vars == <<log, performed, finished, open>>

Init == log = <<>> /\ performed = <<>> /\ finished = 0 /\ open = TRUE

Accept(c) ==
  /\ open
  /\ log' = Append(log, c)
  /\ UNCHANGED <<performed, finished, open>>

(* One at a time, and always the oldest command not yet performed. *)
Begin ==
  /\ open
  /\ finished = Len(performed)
  /\ Len(performed) < Len(log)
  /\ performed' = Append(performed, log[Len(performed) + 1])
  /\ UNCHANGED <<log, finished, open>>

Return ==
  /\ finished < Len(performed)
  /\ finished' = finished + 1
  /\ UNCHANGED <<log, performed, open>>

Close == open /\ open' = FALSE /\ UNCHANGED <<log, performed, finished>>

Next == (\E c \in Command : Accept(c)) \/ Begin \/ Return \/ Close

Spec == Init /\ [][Next]_vars
=============================================================================
