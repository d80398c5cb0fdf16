----------------------------- MODULE Lifecycle -----------------------------
(***************************************************************************)
(* What the kernel's process table promises about each process id: it is   *)
(* given to one process, which is being made, lives, is dead until its     *)
(* parent collects it, and is then gone for good.  A process that cannot   *)
(* be completed is gone without having lived.  Proc is shown to implement  *)
(* this, whatever slots of the table the processes move through.           *)
(***************************************************************************)
EXTENDS Naturals

CONSTANT Pid

VARIABLE life

Phase == {"unborn", "embryo", "alive", "dead", "gone"}

\* The first process is made by hand (userinit), before there is another one.
Init == life = [n \in Pid |-> IF n = 1 THEN "alive" ELSE "unborn"]

Allowed == { << "unborn", "embryo" >>, << "embryo", "alive" >>,
             << "embryo", "gone" >>, << "alive", "dead" >>,
             << "dead", "gone" >> }

Advance(n) == \E to \in Phase : /\ << life[n], to >> \in Allowed
                                /\ life' = [life EXCEPT ![n] = to]

Next == \E n \in Pid : Advance(n)

Spec == Init /\ [][Next]_life
=============================================================================
