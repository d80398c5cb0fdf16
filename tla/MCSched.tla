------------------------------ MODULE MCSched -------------------------------
(* A small instance of Sched, with allowances of one dispatch.  (MCKernels
   has one with more processes and a ring of one slot.) *)
EXTENDS Sched

Allow1 == [k \in 0 .. 2 |-> 1]
=============================================================================
