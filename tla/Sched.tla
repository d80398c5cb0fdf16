-------------------------------- MODULE Sched -------------------------------
(***************************************************************************)
(* p2/xv6/kernel/proc.c and trap.c: the multi-level feedback queue.        *)
(*                                                                         *)
(* scheduler() walks over the process table with ptable.lock held.  Levels *)
(* 0, 1 and 2 have an allowance of dispatches (slice), after which the     *)
(* process drops a level.  At level 3 the process at the front of the ring *)
(* p3q runs; every visit of scheduler() puts the visited pid into the ring *)
(* once more.  A process that was not dispatched between two boosts        *)
(* (bump_priority, every BumpEvery ticks) rises a level.                   *)
(*                                                                         *)
(* The lock passes with the CPU to the process that is dispatched, which   *)
(* releases it, and comes back when the process gives up the CPU.          *)
(*                                                                         *)
(* Abstracted: what processes wait for (a SLEEPING process may be woken at *)
(* any time), which zombie belongs to whom (Proc), and the counters that   *)
(* only getpinfo reads.                                                    *)
(***************************************************************************)
EXTENDS Integers, FiniteSets, FiniteSetsExt

CONSTANTS NPROC,
          CPU,         \* processors
          bootcpu,     \* the one that counts ticks
          MaxPid,      \* bound: pids that are ever handed out
          Quantum,     \* allowance of levels 0, 1 and 2 (5, 5 and 10)
          RoundRobin,  \* dispatches in a row at level 3 (20)
          QLEN,        \* slots of the ring (100)
          SizeCap,     \* bound: greater values of size are not told apart
          BumpEvery,   \* ticks from boost to boost (100)
          Ends,        \* do processes exit?
          Sleepers,    \* the slots whose processes sleep
          ForkIsSlow   \* may the timer hit fork between its last stores?

ASSUME SchedAssumption ==
  /\ NPROC \in Nat \ {0} /\ MaxPid \in Nat \ {0}
  /\ bootcpu \in CPU /\ 0 \notin CPU
  /\ Quantum \in [0 .. 2 -> Nat \ {0}] /\ RoundRobin \in Nat \ {0}
  /\ QLEN \in Nat \ {0} /\ SizeCap \in Nat /\ BumpEvery \in Nat \ {0}
  /\ Ends \in BOOLEAN /\ Sleepers \subseteq 1 .. NPROC /\ ForkIsSlow \in BOOLEAN

Slot  == 1 .. NPROC
None  == 0
Level == 0 .. 3

VARIABLES
  state, pid, priority, slice, starved, p3ticks,  \* struct proc
  front, rear, size, p3q,                         \* the ring of level 3
  nextpid,
  ticks,     \* modulo BumpEvery
  lock,      \* the CPU whose scheduler holds ptable.lock, or None
  scan,      \* the slot that each scheduler looks at; None outside the walk
  proc,      \* cpu->proc
  runs,      \* the process that each CPU really runs, or None
  level,     \* the branch of scheduler() from which it was dispatched
  bumpdue,   \* processes that are in trap(), after yield()
  pc, np,    \* fork: where a process is, and the slot it fills
  torn       \* the slots whose fork was interrupted between its last stores

procvars == << state, pid, priority, slice, starved, p3ticks >>
ring     == << front, rear, size, p3q >>
cpuvars  == << lock, scan, proc, runs, level >>
forkvars == << nextpid, pc, np, torn >>
vars == << procvars, ring, cpuvars, forkvars, ticks, bumpdue >>

Init ==
  /\ state = [p \in Slot |-> IF p = 1 THEN "RUNNABLE" ELSE "UNUSED"]
  /\ pid = [p \in Slot |-> IF p = 1 THEN 1 ELSE 0]
  /\ priority = [p \in Slot |-> 0]
  /\ slice = [p \in Slot |-> [k \in 0 .. 2 |-> 0]]
  /\ starved = [p \in Slot |-> FALSE]
  /\ p3ticks = [p \in Slot |-> 0]
  /\ front = 0 /\ rear = QLEN - 1 /\ size = 0 /\ p3q = [i \in 0 .. QLEN - 1 |-> 0]
  /\ nextpid = 2 /\ ticks = 0
  /\ lock = None
  /\ scan = [c \in CPU |-> None] /\ proc = [c \in CPU |-> None]
  /\ runs = [c \in CPU |-> None] /\ level = [c \in CPU |-> 0]
  /\ bumpdue = {}
  /\ pc = [p \in Slot |-> "user"] /\ np = [p \in Slot |-> None]
  /\ torn = {}

---------------------------------------------------------------------------
(* The ring.  addq does not look whether it is full, remq not whether it is *)
(* empty.                                                                  *)

addq(n) == /\ rear' = (rear + 1) % QLEN
           /\ size' = Min({size + 1, SizeCap})
           /\ p3q' = [p3q EXCEPT ![(rear + 1) % QLEN] = n]

remq == front' = (front + 1) % QLEN /\ size' = size - 1

\* frontq() after addq(n), in the visit of a process with pid n.
FrontAfter(n) == IF size + 1 = 0 THEN -1
                 ELSE IF (rear + 1) % QLEN = front THEN n ELSE p3q[front]

---------------------------------------------------------------------------
(* scheduler(): the walk of CPU c. *)

BeginWalk(c) ==
  /\ runs[c] = None /\ scan[c] = None /\ lock = None
  /\ lock' = c
  /\ scan' = [scan EXCEPT ![c] = 1]
  /\ UNCHANGED << procvars, ring, proc, runs, level, forkvars, ticks, bumpdue >>

EndWalk(c) ==
  /\ lock = c /\ scan[c] = NPROC + 1
  /\ lock' = None
  /\ scan' = [scan EXCEPT ![c] = None]
  /\ UNCHANGED << procvars, ring, proc, runs, level, forkvars, ticks, bumpdue >>

Visits(c, p) == lock = c /\ p \in Slot /\ scan[c] = p
GoOn(c) == scan' = [scan EXCEPT ![c] = @ + 1]

Skip(c) == \E p \in Slot :
  /\ Visits(c, p) /\ state[p] # "RUNNABLE"
  /\ GoOn(c)
  /\ UNCHANGED << procvars, ring, lock, proc, runs, level, forkvars, ticks,
                  bumpdue >>

SpentAt_Late(p, k) == slice[p][k] > Quantum[k]   \* mutated: one too many
SpentAt(p, k) == slice[p][k] >= Quantum[k]

Demote(c) == \E p \in Slot :
  /\ Visits(c, p) /\ state[p] = "RUNNABLE"
  /\ priority[p] < 3 /\ SpentAt(p, priority[p])
  /\ priority' = [priority EXCEPT ![p] = @ + 1]
  /\ GoOn(c)
  /\ UNCHANGED << state, pid, slice, starved, p3ticks, ring, lock, proc, runs,
                  level, forkvars, ticks, bumpdue >>

\* switchuvm, RUNNING, swtch; the process releases the lock.
Start(c, p) ==
  /\ state' = [state EXCEPT ![p] = "RUNNING"]
  /\ starved' = [starved EXCEPT ![p] = FALSE]
  /\ proc' = [proc EXCEPT ![c] = p]
  /\ runs' = [runs EXCEPT ![c] = p]
  /\ level' = [level EXCEPT ![c] = priority[p]]
  /\ lock' = None
  /\ UNCHANGED << pid, priority, slice, p3ticks, scan, forkvars, ticks, bumpdue >>

Dispatch(c) == \E p \in Slot :
  /\ Visits(c, p) /\ state[p] = "RUNNABLE"
  /\ priority[p] < 3 /\ ~SpentAt(p, priority[p])
  /\ Start(c, p)
  /\ UNCHANGED ring

VisitLast(c) == \E p \in Slot :
  /\ Visits(c, p) /\ state[p] = "RUNNABLE" /\ priority[p] = 3
  /\ addq(pid[p]) /\ UNCHANGED front
  /\ IF pid[p] = FrontAfter(pid[p])
       THEN Start(c, p)
       ELSE GoOn(c) /\ UNCHANGED << procvars, lock, proc, runs, level, forkvars,
                                    ticks, bumpdue >>

\* Back in scheduler(), with the lock: the process that ran is charged, and the
\* walk goes on, or after level 0 (break) starts again.  cpu->proc stays.
TurnOver(p) == (p3ticks[p] + 1) % RoundRobin = 0

                                          \* mutated: level 0 is for free
Charged(s, k) == [s EXCEPT ![k] = @ + 1]

InitialisesChild(p) == pc[p] \in {"fork1", "fork2"}

Leave(c, st) ==
  /\ runs[c] # None /\ lock = None
  /\ LET p == runs[c] IN
       /\ state' = [state EXCEPT ![p] = st]
       /\ IF level[c] < 3
            THEN /\ slice' = [slice EXCEPT ![p] = Charged(@, level[c])]
                 /\ UNCHANGED << p3ticks, ring >>
            ELSE /\ IF TurnOver(p)
                      THEN /\ remq
                           /\ p3ticks' = [p3ticks EXCEPT ![p] = 0]
                      ELSE /\ p3ticks' = [p3ticks EXCEPT ![p] = @ + 1]
                           /\ UNCHANGED << front, size >>
                 /\ UNCHANGED << slice, rear, p3q >>
  /\ runs' = [runs EXCEPT ![c] = None] /\ level' = [level EXCEPT ![c] = 0]
  /\ IF level[c] = 0
       THEN lock' = None /\ scan' = [scan EXCEPT ![c] = None]
       ELSE lock' = c /\ GoOn(c)
  /\ torn' = IF InitialisesChild(runs[c]) THEN torn \cup {np[runs[c]]} ELSE torn
  /\ UNCHANGED << pid, priority, starved, proc, nextpid, np >>

---------------------------------------------------------------------------
(* The timer. *)

NextTick(c) == IF c = bootcpu THEN (ticks + 1) % BumpEvery ELSE ticks

\* bump_priority: only processes that are RUNNABLE.
Boosted(p) == state[p] = "RUNNABLE" /\ starved[p] /\ priority[p] > 0

bump_priority ==
  /\ priority' = [p \in Slot |-> IF Boosted(p) THEN priority[p] - 1
                                               ELSE priority[p]]
  /\ slice' = [p \in Slot |-> IF Boosted(p)
                                THEN [slice[p] EXCEPT ![priority[p] - 1] = 0]
                                ELSE slice[p]]
  /\ starved' = [p \in Slot |-> starved[p] \/ state[p] = "RUNNABLE"]
  /\ IF \E p \in Slot : Boosted(p) /\ priority[p] = 3
       THEN front' = 0 /\ rear' = QLEN - 1 /\ size' = 0 /\ UNCHANGED p3q
       ELSE UNCHANGED ring
  /\ UNCHANGED << state, pid, p3ticks >>

\* A tick while c runs a process, in user mode or in the kernel: yield().
TimerYield(c) ==
  /\ runs[c] # None /\ runs[c] \notin bumpdue
  /\ ticks' = NextTick(c)
  /\ bumpdue' = bumpdue \cup {runs[c]}
  /\ Leave(c, "RUNNABLE") /\ UNCHANGED pc

\* ... and the rest of trap() when the process runs again: the ticks of now.
AfterYield(c) ==
  /\ runs[c] # None /\ runs[c] \in bumpdue /\ lock = None
  /\ bumpdue' = bumpdue \ {runs[c]}
  /\ IF ticks = 0 THEN bump_priority ELSE UNCHANGED << procvars, ring >>
  /\ UNCHANGED << cpuvars, forkvars, ticks >>

\* The process that the timer interrupt of CPU c takes for the running one.
TakenForRunning(c) ==
  IF proc[c] # None /\ state[proc[c]] = "RUNNING" THEN proc[c] ELSE None

\* A tick while scheduler() has interrupts on.  Only for a CPU that takes
\* nobody for running: otherwise yield() gives away another CPU's process and
\* sched() leaves scheduler()'s own stack, which is where the model stops.
TimerIdle(c) ==
  /\ runs[c] = None /\ scan[c] = None /\ lock = None
  /\ TakenForRunning(c) = None
  /\ ticks' = NextTick(c)
  /\ IF NextTick(c) = 0 THEN bump_priority ELSE UNCHANGED << procvars, ring >>
  /\ UNCHANGED << cpuvars, forkvars, bumpdue >>

---------------------------------------------------------------------------
(* What processes do. *)

InUser(c) == runs[c] # None /\ runs[c] \notin bumpdue /\ pc[runs[c]] = "user"

Sleep(c) == /\ InUser(c) /\ runs[c] \in Sleepers
            /\ Leave(c, "SLEEPING") /\ UNCHANGED << ticks, bumpdue, pc >>

Exit(c) == /\ Ends /\ InUser(c) /\ runs[c] # 1
           /\ Leave(c, "ZOMBIE") /\ UNCHANGED << ticks, bumpdue, pc >>

Wake(p) ==
  /\ lock = None /\ state[p] = "SLEEPING"
  /\ state' = [state EXCEPT ![p] = "RUNNABLE"]
  /\ UNCHANGED << pid, priority, slice, starved, p3ticks, ring, cpuvars, forkvars,
                  ticks, bumpdue >>

\* wait: the slot is free again, but its pid may still be in the ring and its
\* scheduling fields keep their values.  Only the parent waits, so not while
\* it is still in the fork that made the child.
Reap(c, q) ==
  /\ lock = None /\ InUser(c) /\ state[q] = "ZOMBIE"
  /\ q \notin {np[r] : r \in Slot}
  /\ state' = [state EXCEPT ![q] = "UNUSED"]
  /\ pid' = [pid EXCEPT ![q] = 0]
  /\ UNCHANGED << priority, slice, starved, p3ticks, ring, cpuvars, forkvars,
                  ticks, bumpdue >>

\* fork: allocproc under the lock; the child is RUNNABLE before its scheduling
\* fields are set, all of that without the lock.
ForkAlloc(c) ==
  /\ lock = None /\ InUser(c) /\ nextpid <= MaxPid
  /\ \E q \in Slot : state[q] = "UNUSED"
  /\ LET q == Min({r \in Slot : state[r] = "UNUSED"}) IN
       /\ state' = [state EXCEPT ![q] = "EMBRYO"]
       /\ pid' = [pid EXCEPT ![q] = nextpid]
       /\ np' = [np EXCEPT ![runs[c]] = q]
       /\ torn' = torn \ {q}
  /\ pc' = [pc EXCEPT ![runs[c]] = "fork"]
  /\ nextpid' = nextpid + 1
  /\ UNCHANGED << priority, slice, starved, p3ticks, ring, cpuvars, ticks, bumpdue >>

At(c, l) == runs[c] # None /\ runs[c] \notin bumpdue /\ pc[runs[c]] = l
Child(c) == np[runs[c]]

SetSlices(c) == /\ slice' = [slice EXCEPT ![Child(c)] = [k \in 0 .. 2 |-> 0]]
                /\ starved' = [starved EXCEPT ![Child(c)] = TRUE]
                /\ p3ticks' = [p3ticks EXCEPT ![Child(c)] = 0]
Goto(c, l) == /\ pc' = [pc EXCEPT ![runs[c]] = l]
              /\ np' = [np EXCEPT ![runs[c]] = IF l = "user" THEN None ELSE @]
              /\ UNCHANGED << pid, ring, cpuvars, nextpid, torn, ticks, bumpdue >>

ForkRun(c) ==
  /\ At(c, "fork")
  /\ state' = [state EXCEPT ![Child(c)] = "RUNNABLE"]
  /\ IF ForkIsSlow
       THEN Goto(c, "fork1") /\ UNCHANGED << priority, slice, starved, p3ticks >>
       ELSE /\ priority' = [priority EXCEPT ![Child(c)] = 0]
            /\ SetSlices(c) /\ Goto(c, "user")

ForkPriority(c) ==
  /\ At(c, "fork1")
  /\ priority' = [priority EXCEPT ![Child(c)] = 0]
  /\ Goto(c, "fork2")
  /\ UNCHANGED << state, slice, starved, p3ticks >>

ForkSlices(c) ==
  /\ At(c, "fork2")
  /\ SetSlices(c) /\ Goto(c, "user")
  /\ UNCHANGED << state, priority >>

---------------------------------------------------------------------------
Walk(c) == BeginWalk(c) \/ EndWalk(c) \/ Skip(c) \/ Demote(c) \/ Dispatch(c)
           \/ VisitLast(c)

Timer(c) == TimerYield(c) \/ TimerIdle(c)

\* Between its last stores fork may be interrupted.
InFork(c) == runs[c] # None /\ pc[runs[c]] \in {"fork", "fork1", "fork2"}

Program(c) ==
  \/ AfterYield(c) \/ Sleep(c) \/ Exit(c) \/ (\E q \in Slot : Reap(c, q))
  \/ ForkAlloc(c)
  \/ InFork(c) /\ (ForkRun(c) \/ ForkPriority(c) \/ ForkSlices(c))

Next == \/ \E c \in CPU : Walk(c) \/ Timer(c) \/ Program(c)
        \/ \E p \in Slot : Wake(p)

Spec == Init /\ [][Next]_vars

\* Every CPU runs scheduler() for ever and gets timer interrupts; trap() goes
\* on when its process has the CPU again.
FairSpec == Spec /\ \A c \in CPU : WF_vars(Walk(c)) /\ WF_vars(TimerYield(c))
                                   /\ WF_vars(AfterYield(c))

---------------------------------------------------------------------------
(* Properties. *)

TypeOK ==
  /\ state \in [Slot -> {"UNUSED", "EMBRYO", "SLEEPING", "RUNNABLE", "RUNNING",
                         "ZOMBIE"}]
  /\ pid \in [Slot -> 0 .. MaxPid]
  /\ priority \in [Slot -> Level]
  /\ slice \in [Slot -> [0 .. 2 -> Nat]]
  /\ starved \in [Slot -> BOOLEAN]
  /\ p3ticks \in [Slot -> 0 .. RoundRobin - 1]
  /\ front \in 0 .. QLEN - 1 /\ rear \in 0 .. QLEN - 1 /\ size \in Int
  /\ p3q \in [0 .. QLEN - 1 -> 0 .. MaxPid]
  /\ nextpid \in 2 .. MaxPid + 1 /\ ticks \in 0 .. BumpEvery - 1
  /\ lock \in CPU \cup {None}
  /\ scan \in [CPU -> 0 .. NPROC + 1]
  /\ proc \in [CPU -> Slot \cup {None}] /\ runs \in [CPU -> Slot \cup {None}]
  /\ level \in [CPU -> Level]
  /\ bumpdue \subseteq Slot
  /\ pc \in [Slot -> {"user", "fork", "fork1", "fork2"}]
  /\ np \in [Slot -> Slot \cup {None}]
  /\ torn \subseteq Slot

AllowanceKept ==
  \A p \in Slot : \A k \in 0 .. 2 :
    slice[p][k] + Cardinality({c \in CPU : runs[c] = p /\ level[c] = k})
      <= Quantum[k]

AllowanceUsed ==
  \A p \in Slot \ (torn \cup {np[q] : q \in Slot}) :
    state[p] \in {"RUNNABLE", "RUNNING", "SLEEPING"} =>
      \A k \in 0 .. 2 : k < priority[p] => slice[p][k] = Quantum[k]

\* Allowances are kept and used up: no process gets more dispatches at a level
\* than its allowance, whatever happens between the scheduler's test and its
\* charge, and none drops a level before it has used it (scheduler,
\* bump_priority, fork of a slot whose last occupant has sunk) - unless the
\* timer came while fork was setting these fields of a RUNNABLE child.
Allowances == TypeOK /\ AllowanceKept /\ AllowanceUsed

=============================================================================
