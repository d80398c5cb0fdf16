------------------------------- MODULE MCParts -------------------------------
(***************************************************************************)
(* Six small parts that share nothing.  Programs: the shell of p2, a       *)
(* program with p4's allocator and threads, p5's mkfs with fscheck.  Parts *)
(* of the kernel: spinlocks, memory, the console.  A behaviour is one of   *)
(* one of them.                                                            *)
(***************************************************************************)
EXTENDS MySh, UserHeap, FsCheck, Spinlock, Memory, Console

VARIABLE part
vars == << shvars, heapvars, fsvars, spinvars, memvars, convars, part >>

SbrkSizes == {-3, 3}

Init ==
  /\ ShInit /\ HeapInit /\ FsInit /\ SpinInit /\ MemInit /\ ConInit
  /\ part \in {"mysh", "heap", "fscheck", "locks", "memory", "console"}

Next ==
  /\ UNCHANGED part
  /\ \/ /\ part = "mysh" /\ ShNext
        /\ UNCHANGED << heapvars, fsvars, spinvars, memvars, convars >>
     \/ /\ part = "heap" /\ HeapNext
        /\ UNCHANGED << shvars, fsvars, spinvars, memvars, convars >>
     \/ /\ part = "fscheck" /\ FsNext
        /\ UNCHANGED << shvars, heapvars, spinvars, memvars, convars >>
     \/ /\ part = "locks" /\ SpinNext
        /\ UNCHANGED << shvars, heapvars, fsvars, memvars, convars >>
     \/ /\ part = "memory" /\ MemNext
        /\ UNCHANGED << shvars, heapvars, fsvars, spinvars, convars >>
     \/ /\ part = "console" /\ ConNext
        /\ UNCHANGED << shvars, heapvars, fsvars, spinvars, memvars >>

Spec == Init /\ [][Next]_vars
=============================================================================
