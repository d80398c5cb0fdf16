---------------------------- MODULE BoundedFifo ----------------------------
(***************************************************************************)
(* What every producer/consumer buffer of the projects promises: a queue   *)
(* of at most Capacity items.  Each item that was put in is taken out      *)
(* once, in the order in which they entered (`out' is what has been taken  *)
(* so far), until the owner of the buffer is gone, and the items that are  *)
(* inside with it.  The web server's connection buffer (WebServer) and the *)
(* kernel's pipe (Pipe) are shown to implement it.                         *)
(***************************************************************************)
EXTENDS Naturals, Sequences

CONSTANTS Item,      \* what is queued
          Capacity   \* how many items fit

VARIABLES queue, out, closed

fifo == << queue, out, closed >>

Init == queue = << >> /\ out = << >> /\ closed = FALSE

Put(x) ==
  /\ ~closed /\ Len(queue) < Capacity
  /\ queue' = Append(queue, x)
  /\ UNCHANGED << out, closed >>

Get ==
  /\ ~closed /\ queue # << >>
  /\ out' = Append(out, Head(queue))
  /\ queue' = Tail(queue)
  /\ UNCHANGED closed

\* The owner goes, once: nothing enters or leaves any more.
Close ==
  /\ ~closed /\ closed' = TRUE
  /\ queue' = << >>
  /\ UNCHANGED out

Next == (\E x \in Item : Put(x)) \/ Get \/ Close

Spec == Init /\ [][Next]_fifo
=============================================================================
