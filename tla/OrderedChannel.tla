--------------------------- MODULE OrderedChannel ---------------------------
(***************************************************************************)
(* What a session and its commands expect of a stream to the orchestrator, *)
(* with no queue, no threads and no condition variable: messages arrive    *)
(* one after the other in the order in which they were sent, the greeting  *)
(* arrives once, somewhere among them or after them all, a client that     *)
(* hung up loses what it has not received, and a channel that is closed    *)
(* takes no message and delivers none.                                     *)
(***************************************************************************)
EXTENDS Naturals, Sequences

CONSTANT Greeting     \* what the channel says by itself, once

VARIABLES sent,       \* how many messages were sent; they are numbered from 1
          delivered,  \* how many of them the channel is done with
          received,   \* what has arrived, in order
          greeted, gone, closed

vars == <<sent, delivered, received, greeted, gone, closed>>

Init ==
  /\ sent = 0
  /\ delivered = 0
  /\ received = <<>>
  /\ greeted = FALSE
  /\ gone = FALSE
  /\ closed = FALSE

Send ==
  /\ ~closed
  /\ sent' = sent + 1
  /\ UNCHANGED <<delivered, received, greeted, gone, closed>>

(* Always the oldest message that is still under way. *)
Deliver ==
  /\ ~closed
  /\ delivered < sent
  /\ delivered' = delivered + 1
  /\ received' = IF gone THEN received ELSE Append(received, delivered + 1)
  /\ UNCHANGED <<sent, greeted, gone, closed>>

(* Who greets is not who closes, and may be late. *)
Greet ==
  /\ ~greeted /\ ~gone
  /\ greeted' = TRUE
  /\ received' = Append(received, Greeting)
  /\ UNCHANGED <<sent, delivered, gone, closed>>

HangUp == ~gone /\ gone' = TRUE /\ UNCHANGED <<sent, delivered, received, greeted, closed>>

(* What was sent and not delivered is lost. *)
Close == ~closed /\ closed' = TRUE /\ UNCHANGED <<sent, delivered, received, greeted, gone>>

Next == Send \/ Deliver \/ Greet \/ HangUp \/ Close

Spec == Init /\ [][Next]_vars
=============================================================================
