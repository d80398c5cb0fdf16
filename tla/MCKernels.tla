----------------------------- MODULE MCKernels ------------------------------
(***************************************************************************)
(* Two kernels that share nothing: p2's, with its scheduler, and p3's,     *)
(* with its pages of memory shared by key.  A behaviour is one of one of   *)
(* them.  Four processes share two keys, one of two pages and one of one.  *)
(***************************************************************************)
EXTENDS Sched, Shm, TLC

CONSTANTS p1, p2, p3, p4, a, b, c, d
MCProcess == {p1, p2, p3, p4}
MCKey     == {0, 1}
MCPage    == {a, b, c, d}
\* p1 is the first process; the others are interchangeable.
MCSymmetry == Permutations({p2, p3, p4})

Allow1 == [k \in 0 .. 2 |-> 1]

VARIABLE kernel
kernelvars == << vars, shmvars, kernel >>

KernelsInit == Init /\ ShmInit /\ kernel \in {"p2", "p3"}

KernelsNext ==
  /\ UNCHANGED kernel
  /\ \/ kernel = "p2" /\ Next /\ UNCHANGED shmvars
     \/ kernel = "p3" /\ ShmNext /\ UNCHANGED vars

KernelsSpec == KernelsInit /\ [][KernelsNext]_kernelvars
=============================================================================
