-------------------------------- MODULE Proc --------------------------------
(***************************************************************************)
(* p4/xv6/kernel/proc.c: the process table of xv6 with kernel threads.     *)
(*                                                                         *)
(* Processes are slots of ptable.proc.  A thread is a process that clone() *)
(* made: it shares its creator's address space (pgdir), is collected by    *)
(* join() and not by wait(), and remembers its creator in parent_pid.      *)
(*                                                                         *)
(* A section between acquire(&ptable.lock) and release is one action.      *)
(* fork, clone and the sleep system call have a part outside the lock and  *)
(* are several actions; pc says where in such a call a process is.  Only a *)
(* RUNNING process moves, at most NCPU processes are RUNNING, and the      *)
(* timer may take the CPU away between any two actions (Yield).            *)
(*                                                                         *)
(* Abstracted: files, directories, names and user memory; an address space *)
(* is a number, allocated lowest first.                                    *)
(***************************************************************************)
EXTENDS Integers, FiniteSets, FiniteSetsExt

CONSTANTS NPROC,       \* slots of the process table
          NCPU,        \* processors
          MaxPid,      \* bound: pids that are ever handed out
          MaxSpace,    \* bound: address spaces that exist at once
          Syscalls,    \* the system calls that user programs make
          KillArgs,    \* the pids that programs pass to kill()
          MemoryFails, \* can kalloc fail?
          JoinFirst    \* do programs end, or kill, only what has no threads left?

AllSyscalls == {"fork", "clone", "exec", "kill", "sleep", "wait", "join"}

ASSUME ProcAssumption ==
  /\ NPROC \in Nat \ {0} /\ NCPU \in Nat \ {0}
  /\ MaxPid \in Nat \ {0} /\ MaxSpace \in Nat \ {0}
  /\ Syscalls \subseteq AllSyscalls
  /\ KillArgs \subseteq (0 .. MaxPid) \ {1}  \* killing init panics the kernel
  /\ MemoryFails \in BOOLEAN /\ JoinFirst \in BOOLEAN

Slot  == 1 .. NPROC
initproc == 1
Space == 1 .. MaxSpace

NoSlot  == 0
NoSpace == 0
NoChan  == 0
Ticks   == -1   \* &ticks, the channel of sys_sleep; wait and join sleep on
                \* the address of the process itself, here its slot

VARIABLES
  state, pid, parent, killed, chan, pgdir, kstack,   \* struct proc
  parent_pid, num_child,                             \* struct proc, threads
  nextpid,
  pc,       \* where each process is: in user mode or in a system call
  np,       \* the slot that a process in fork or clone is filling
  live,     \* the address spaces that are allocated
  badfree,  \* has freevm been given an address space that was not?
  named,    \* the pids that some kill() named
  shell     \* init's variable `pid': the shell it waits for, 0 when it is to
            \* start one, -1 when fork has failed

threadvars == << parent_pid, num_child >>
memvars    == << live, badfree >>
vars == << state, pid, parent, killed, chan, pgdir, kstack, threadvars,
           nextpid, pc, np, memvars, named, shell >>

States == {"UNUSED", "EMBRYO", "SLEEPING", "RUNNABLE", "RUNNING", "ZOMBIE"}
Pcs    == {"user", "fork", "clone", "wait", "join", "sleep", "sleep1", "panic"}

\* userinit: the first process, in slot 1 with pid 1.
Init ==
  /\ state = [p \in Slot |-> IF p = initproc THEN "RUNNABLE" ELSE "UNUSED"]
  /\ pid = [p \in Slot |-> IF p = initproc THEN 1 ELSE 0]
  /\ parent = [p \in Slot |-> NoSlot]
  /\ killed = [p \in Slot |-> FALSE]
  /\ chan = [p \in Slot |-> NoChan]
  /\ pgdir = [p \in Slot |-> IF p = initproc THEN 1 ELSE NoSpace]
  /\ kstack = [p \in Slot |-> p = initproc]
  /\ parent_pid = [p \in Slot |-> IF p = initproc THEN -1 ELSE 0]
  /\ num_child = [p \in Slot |-> 0]
  /\ nextpid = 2
  /\ pc = [p \in Slot |-> "user"]
  /\ np = [p \in Slot |-> NoSlot]
  /\ live = {1} /\ badfree = FALSE /\ named = {}
  /\ shell = 0

---------------------------------------------------------------------------
(* Helpers. *)

Running(p) == state[p] = "RUNNING"
\* In user mode and not killed: trap() lets the process make a system call.
User(p) == Running(p) /\ pc[p] = "user" /\ ~killed[p]
Calls(p, call) == User(p) /\ p # initproc /\ call \in Syscalls
\* init.c, between two system calls.
InitMay(p) == User(p) /\ p = initproc

IsThread(p)  == parent_pid[p] # -1
Children(p)  == {q \in Slot : parent[q] = p}
Threads(p)   == {q \in Children(p) : pgdir[q] = pgdir[p]}
MayEnd(p)    == JoinFirst => Threads(p) = {}

FreeSlots == {q \in Slot : state[q] = "UNUSED"}

FreeSpace == Space \ live
CopyOf(p) == Min(FreeSpace)

NewPid_Same == nextpid                   \* mutated: nextpid does not advance
NewPid == nextpid + 1

\* wakeup1: the processes that sleep on channel c become RUNNABLE in st.
wakeup1(st, c) == [q \in Slot |-> IF st[q] = "SLEEPING" /\ chan[q] = c
                                    THEN "RUNNABLE" ELSE st[q]]

---------------------------------------------------------------------------
(* Making processes. *)

\* allocproc, the locked part: take the first UNUSED slot.  killed is not reset.
allocproc(p, call) ==
  /\ FreeSlots # {} /\ nextpid <= MaxPid
  /\ LET q == Min(FreeSlots) IN
       /\ state' = [state EXCEPT ![q] = "EMBRYO"]
       /\ pid' = [pid EXCEPT ![q] = nextpid]
       /\ parent_pid' = [parent_pid EXCEPT ![q] = -1]
       /\ num_child' = [num_child EXCEPT ![q] = 0]
       /\ np' = [np EXCEPT ![p] = q]
  /\ nextpid' = NewPid
  /\ pc' = [pc EXCEPT ![p] = call]
  /\ UNCHANGED << parent, killed, chan, pgdir, kstack, memvars, named, shell >>

\* init forks when it has no shell.
ForkAlloc(p)  == /\ Calls(p, "fork") \/ (InitMay(p) /\ shell = 0)
                 /\ allocproc(p, "fork")
CloneAlloc(p) == /\ Calls(p, "clone")
                 /\ JoinFirst => ~IsThread(p)
                 /\ allocproc(p, "clone")

\* kalloc or copyuvm failed: the slot is UNUSED again.  Its pid stays in it.
AllocFails(p) ==
  /\ MemoryFails
  /\ Running(p) /\ pc[p] \in {"fork", "clone"}
  /\ state' = [state EXCEPT ![np[p]] = "UNUSED"]
  /\ pc' = [pc EXCEPT ![p] = "user"]
  /\ np' = [np EXCEPT ![p] = NoSlot]
  /\ shell' = IF p = initproc THEN -1 ELSE shell
  /\ UNCHANGED << pid, parent, killed, chan, pgdir, kstack, threadvars, nextpid,
                  memvars, named >>

\* init's fork fails in a full table.  (A program's changes nothing.)
InitForkFails ==
  /\ InitMay(initproc) /\ shell = 0 /\ FreeSlots = {}
  /\ shell' = -1
  /\ UNCHANGED << state, pid, parent, killed, chan, pgdir, kstack, threadvars,
                  nextpid, pc, np, memvars, named >>

\* init calls exit when its fork has failed, and the kernel panics ("init
\* exiting"): that processor spins for ever, with interrupts off.
InitExits ==
  /\ InitMay(initproc) /\ shell = -1
  /\ pc' = [pc EXCEPT ![initproc] = "panic"]
  /\ UNCHANGED << state, pid, parent, killed, chan, pgdir, kstack, threadvars,
                  nextpid, np, memvars, named, shell >>

Panicked == pc[initproc] = "panic"
Spin == Panicked /\ UNCHANGED vars

InitFails == InitForkFails \/ InitExits \/ Spin

\* The rest of fork (copy) or of clone (share): fill np, make it RUNNABLE.
Finish(p, space) ==
  /\ kstack' = [kstack EXCEPT ![np[p]] = TRUE]
  /\ pgdir' = [pgdir EXCEPT ![np[p]] = space]
  /\ parent' = [parent EXCEPT ![np[p]] = p]
  /\ state' = [state EXCEPT ![np[p]] = "RUNNABLE"]
  /\ pc' = [pc EXCEPT ![p] = "user"]
  /\ np' = [np EXCEPT ![p] = NoSlot]
  /\ UNCHANGED << pid, killed, chan, nextpid, badfree, named >>

ForkFinish(p) ==
  /\ Running(p) /\ pc[p] = "fork"
  /\ FreeSpace # {}
  /\ live' = live \cup {CopyOf(p)} /\ Finish(p, CopyOf(p))
  /\ shell' = IF p = initproc THEN pid[np[p]] ELSE shell
  /\ UNCHANGED threadvars

CloneFinish(p) ==
  /\ Running(p) /\ pc[p] = "clone"
  /\ Finish(p, pgdir[p])
  /\ num_child' = [num_child EXCEPT ![p] = @ + 1]
  /\ parent_pid' = [parent_pid EXCEPT ![np[p]] = pid[p]]
  /\ UNCHANGED << live, shell >>

---------------------------------------------------------------------------
(* Ending and collecting processes. *)

freevm(space) == /\ live' = live \ {space}
                 /\ badfree' = (badfree \/ space \notin live)

\* exit: files first, then, with the lock held, wake the parent, give the
\* children to init, and become a ZOMBIE.  A process that leaves threads
\* behind leaves them its address space and takes a copy (or nothing, when
\* copyuvm fails) for its parent to free.
GivesToInit_NotZombies(p) ==             \* mutated: zombies are forgotten
  {q \in Children(p) : state[q] # "ZOMBIE"}
GivesToInit(p) == Children(p)

WakeInit_Never(st, p) == st              \* mutated: init is not told
WakeInit(st, p) == IF \E q \in Children(p) : st[q] = "ZOMBIE"
                     THEN wakeup1(st, initproc) ELSE st

WakeParent(p) == wakeup1(state, parent[p])

Leave(p) ==
  /\ state' = [WakeInit(WakeParent(p), p) EXCEPT ![p] = "ZOMBIE"]
  /\ parent' = [q \in Slot |-> IF q \in GivesToInit(p) THEN initproc
                                                       ELSE parent[q]]
  /\ IF Threads(p) = {}
       THEN UNCHANGED << pgdir, live >>
       ELSE \/ /\ FreeSpace # {}
               /\ live' = live \cup {Min(FreeSpace)}
               /\ pgdir' = [pgdir EXCEPT ![p] = Min(FreeSpace)]
            \/ /\ MemoryFails
               /\ pgdir' = [pgdir EXCEPT ![p] = NoSpace]
               /\ live' = live
  /\ UNCHANGED << pid, killed, chan, kstack, threadvars, nextpid, pc, np,
                  badfree, named, shell >>

\* A program ends, or traps (the kernel then ends it in the same way).
Exit(p) == User(p) /\ p # initproc /\ MayEnd(p) /\ Leave(p)

\* trap: a killed process ends when it is about to be in user mode.
ExitKilled(p) == /\ Running(p) /\ pc[p] = "user" /\ killed[p] /\ p # initproc
                 /\ Leave(p)

\* wait collects the children that have an address space of their own, join
\* those that share it.
Mine_ItsShell(p, call) ==                \* mutated: init waits for its shell only
  {q \in Children(p) : p = initproc => pid[q] = shell}
Mine(p, call) == {q \in Children(p) : (pgdir[q] = pgdir[p]) = (call = "join")}

\* What wait and join do with a zombie q: take it off its creator's count and
\* empty its slot.  Only wait frees the address space, unless some process
\* has the pid of q's creator.
Creators_None(q) == {}                   \* mutated: nobody is looked for
Creators(q) == {r \in Slot : pid[r] = parent_pid[q]}

FreesSpace_Join(q, call) == Creators(q) = {} \/ call = "join"
                                         \* mutated: join frees as well
FreesSpace(q, call) == call = "wait" /\ Creators(q) = {}

Unkilled_Not(q) == killed                \* mutated: the flag stays set
Unkilled(q) == [killed EXCEPT ![q] = FALSE]

Reap(q, call) ==
  /\ kstack' = [kstack EXCEPT ![q] = FALSE]
  /\ num_child' = [r \in Slot |-> IF r \in Creators(q) THEN num_child[r] - 1
                                                      ELSE num_child[r]]
  /\ IF FreesSpace(q, call) THEN freevm(pgdir[q]) ELSE UNCHANGED memvars
  /\ state' = [state EXCEPT ![q] = "UNUSED"]
  /\ pid' = [pid EXCEPT ![q] = 0]
  /\ parent' = [parent EXCEPT ![q] = NoSlot]
  /\ killed' = Unkilled(q)

EnterWait(p) ==
  /\ Calls(p, "wait") \/ (InitMay(p) /\ shell > 0)
  /\ pc' = [pc EXCEPT ![p] = "wait"]
  /\ UNCHANGED << state, pid, parent, killed, chan, pgdir, kstack, threadvars,
                  nextpid, np, memvars, named, shell >>

\* join returns at once when the process has made no thread.
EnterJoin(p) ==
  /\ Calls(p, "join") /\ num_child[p] # 0
  /\ pc' = [pc EXCEPT ![p] = "join"]
  /\ UNCHANGED << state, pid, parent, killed, chan, pgdir, kstack, threadvars,
                  nextpid, np, memvars, named, shell >>

Collectable_Idle(S) == {q \in S : state[q] \notin {"RUNNING", "RUNNABLE"}}
                                         \* mutated: takes a child that sleeps
Collectable(S) == {q \in S : state[q] = "ZOMBIE"}

\* One pass of the loop of wait or join over the table: collect the first
\* zombie; without a child, or killed, return -1; otherwise sleep.  init starts
\* a new shell when wait returns its shell, or fails.
Collect(p) ==
  /\ Running(p) /\ pc[p] \in {"wait", "join"}
  /\ LET mine == Mine(p, pc[p])
         zombies == Collectable(mine) IN
       \/ /\ zombies # {}
          /\ Reap(Min(zombies), pc[p])
          /\ pc' = [pc EXCEPT ![p] = "user"]
          /\ chan' = [chan EXCEPT ![p] = NoChan]
          /\ shell' = IF p = initproc /\ pid[Min(zombies)] = shell THEN 0
                      ELSE shell
       \/ /\ zombies = {}
          /\ mine = {} \/ killed[p]
          /\ pc' = [pc EXCEPT ![p] = "user"]
          /\ chan' = [chan EXCEPT ![p] = NoChan]
          /\ shell' = IF p = initproc THEN 0 ELSE shell
          /\ UNCHANGED << state, pid, parent, killed, kstack, num_child,
                          memvars >>
       \/ /\ zombies = {} /\ mine # {} /\ ~killed[p]
          /\ chan' = [chan EXCEPT ![p] = p]
          /\ state' = [state EXCEPT ![p] = "SLEEPING"]
          /\ UNCHANGED << pid, parent, killed, kstack, num_child, pc, memvars,
                          shell >>
  /\ UNCHANGED << pgdir, parent_pid, nextpid, np, named >>

---------------------------------------------------------------------------
(* The other system calls, the timer and the scheduler. *)

KillWakes_Not(s) == s                    \* mutated: sleepers sleep on
KillWakes(s) == IF s = "SLEEPING" THEN "RUNNABLE" ELSE s

\* kill: the first slot with that pid, in whatever state it is.
Target(n) == {q \in Slot : pid[q] = n}

kill(p, n) ==
  /\ Calls(p, "kill") /\ n \in KillArgs /\ Target(n) # {}
  /\ LET q == Min(Target(n)) IN
       /\ JoinFirst => Threads(q) = {} /\ pc[q] # "clone"
       /\ killed' = [killed EXCEPT ![q] = TRUE]
       /\ state' = [state EXCEPT ![q] = KillWakes(@)]
  /\ named' = named \cup {n}
  /\ UNCHANGED << pid, parent, chan, pgdir, kstack, threadvars, nextpid, pc, np,
                  memvars, shell >>

\* exec: build the new address space, switch to it, free the old one.
exec(p) ==
  /\ Calls(p, "exec")
  /\ JoinFirst => Threads(p) = {} /\ ~IsThread(p)
  /\ FreeSpace # {}
  /\ LET image == Min(FreeSpace) IN
       /\ pgdir' = [pgdir EXCEPT ![p] = image]
       /\ live' = (live \cup {image}) \ {pgdir[p]}
       /\ badfree' = (badfree \/ pgdir[p] \notin live)
  /\ UNCHANGED << state, pid, parent, killed, chan, kstack, threadvars, nextpid,
                  pc, np, named, shell >>

\* sys_sleep holds tickslock from its test of killed to the sleep, so that no
\* tick falls in between; a kill, under ptable.lock, may.
EnterSleep(p) ==
  /\ Calls(p, "sleep")
  /\ pc' = [pc EXCEPT ![p] = "sleep"]
  /\ UNCHANGED << state, pid, parent, killed, chan, pgdir, kstack, threadvars,
                  nextpid, np, memvars, named, shell >>

\* A process that holds tickslock runs with interrupts off.
TicksLocked == \E p \in Slot : pc[p] = "sleep1"

SleepTest(p) ==
  /\ Running(p) /\ pc[p] = "sleep" /\ ~TicksLocked
  /\ \/ pc' = [pc EXCEPT ![p] = "user"]              \* killed, or n ticks later
     \/ ~killed[p] /\ pc' = [pc EXCEPT ![p] = "sleep1"]
  /\ chan' = [chan EXCEPT ![p] = NoChan]
  /\ UNCHANGED << state, pid, parent, killed, pgdir, kstack, threadvars, nextpid,
                  np, memvars, named, shell >>

SleepOnTicks(p) ==
  /\ Running(p) /\ pc[p] = "sleep1"
  /\ pc' = [pc EXCEPT ![p] = "sleep"]
  /\ chan' = [chan EXCEPT ![p] = Ticks]
  /\ state' = [state EXCEPT ![p] = "SLEEPING"]
  /\ UNCHANGED << pid, parent, killed, pgdir, kstack, threadvars, nextpid, np,
                  memvars, named, shell >>

\* The timer interrupt on CPU 0: ticks++ and wakeup(&ticks).
Tick ==
  /\ ~TicksLocked /\ (NCPU = 1 => ~Panicked)
  /\ state' = wakeup1(state, Ticks)
  /\ state' # state    \* a tick that wakes nobody changes nothing kept here
  /\ UNCHANGED << pid, parent, killed, chan, pgdir, kstack, threadvars, nextpid,
                  pc, np, memvars, named, shell >>

\* The timer interrupt on the CPU that runs p: yield.
Yield(p) ==
  /\ Running(p) /\ pc[p] \notin {"sleep1", "panic"}
  /\ state' = [state EXCEPT ![p] = "RUNNABLE"]
  /\ UNCHANGED << pid, parent, killed, chan, pgdir, kstack, threadvars, nextpid,
                  pc, np, memvars, named, shell >>

\* scheduler: an idle CPU runs a process that is RUNNABLE.
Run(p) ==
  /\ state[p] = "RUNNABLE"
  /\ Cardinality({q \in Slot : Running(q)}) < NCPU
  /\ state' = [state EXCEPT ![p] = "RUNNING"]
  /\ UNCHANGED << pid, parent, killed, chan, pgdir, kstack, threadvars, nextpid,
                  pc, np, memvars, named, shell >>

\* The rest of a call that a process has begun.
Continue(p) == \/ ForkFinish(p) \/ CloneFinish(p) \/ Collect(p)
               \/ SleepTest(p) \/ SleepOnTicks(p) \/ ExitKilled(p)

Step(p) ==
  \/ ForkAlloc(p) \/ CloneAlloc(p) \/ AllocFails(p)
  \/ Exit(p) \/ EnterWait(p) \/ EnterJoin(p) \/ EnterSleep(p)
  \/ exec(p) \/ (\E n \in KillArgs : kill(p, n))
  \/ Continue(p)

Next == Tick \/ InitFails \/ \E p \in Slot : Step(p) \/ Yield(p) \/ Run(p)

Spec == Init /\ [][Next]_vars

\* scheduler() scans the whole table, so a RUNNABLE process runs again and
\* again, and between two ticks it gets some of its call done.  Ticks come,
\* also to a program that makes no call (one processor: until init panics).
\* init makes its next system call (init.c).  Other programs may do anything.
Fairness ==
  /\ WF_vars(Tick)
  /\ \A p \in Slot : /\ SF_vars(Run(p)) /\ SF_vars(Continue(p))
                     /\ WF_vars(Yield(p))
  /\ SF_vars(ForkAlloc(initproc) \/ EnterWait(initproc)
              \/ InitForkFails \/ InitExits)

FairSpec == Spec /\ Fairness

---------------------------------------------------------------------------
(* Properties. *)

TypeOK ==
  /\ state \in [Slot -> States]
  /\ pid \in [Slot -> 0 .. MaxPid]
  /\ parent \in [Slot -> Slot \cup {NoSlot}]
  /\ killed \in [Slot -> BOOLEAN]
  /\ chan \in [Slot -> Slot \cup {NoChan, Ticks}]
  /\ pgdir \in [Slot -> Space \cup {NoSpace}]
  /\ kstack \in [Slot -> BOOLEAN]
  /\ parent_pid \in [Slot -> {-1} \cup 0 .. MaxPid]
  /\ num_child \in [Slot -> Int]
  /\ nextpid \in 2 .. MaxPid + 1
  /\ pc \in [Slot -> Pcs]
  /\ np \in [Slot -> Slot \cup {NoSlot}]
  /\ live \subseteq Space /\ badfree \in BOOLEAN
  /\ named \subseteq KillArgs
  /\ shell \in -1 .. MaxPid

InUse(p)  == state[p] # "UNUSED"
CanRun(p) == state[p] \in {"RUNNABLE", "RUNNING", "SLEEPING"}

\* Two slots in use never have the same pid, and none has the pid of a
\* process still to come (allocproc, wait and join).
PidUnique ==
  /\ \A p \in Slot : InUse(p) => pid[p] \in 1 .. nextpid - 1
  /\ \A p, q \in Slot : InUse(p) /\ InUse(q) /\ p # q => pid[p] # pid[q]

\* Every process has somebody who can still collect it: its parent is a
\* process that has not ended (exit passes abandoned children to init).
ParentIsAlive ==
  \A p \in Slot : CanRun(p) \/ state[p] = "ZOMBIE" =>
     p = initproc \/ (parent[p] \in Slot /\ CanRun(parent[p]))

\* No lost wakeup: a process that sleeps in wait or join has a child to wait
\* for and none that it could collect (exit wakes the parent before it is a
\* zombie, and init when it passes it a zombie).
SleeperHasReason ==
  \A p \in Slot : state[p] = "SLEEPING" /\ pc[p] \in {"wait", "join"} =>
     /\ Mine(p, pc[p]) # {}
     /\ \A q \in Mine(p, pc[p]) : state[q] # "ZOMBIE"

SpaceInUseIsAllocated ==
  /\ \A p \in Slot : CanRun(p) => pgdir[p] \in live
  /\ ~badfree

NothingLeaks ==
  /\ \A s \in live : \E p \in Slot : InUse(p) /\ pgdir[p] = s
  /\ \A p \in Slot : kstack[p] => InUse(p)

\* An address space is freed when the last of the threads that share it is
\* collected, by whomever and in whatever order: not earlier, not twice, and
\* not never; no kernel stack is left over either (wait, join, exec, fork's
\* failures; "only free address space when there is no more child threads").
SpacesInOrder == SpaceInUseIsAllocated /\ NothingLeaks

\* num_child counts the threads that a process has made and not joined: join
\* gives up at once when it is 0.
NumChildCounts ==
  \A p \in Slot : CanRun(p) =>
     num_child[p] = Cardinality({q \in Slot : /\ CanRun(q) \/ state[q] = "ZOMBIE"
                                              /\ parent_pid[q] = pid[p]})

\* kill ends the process that it names and no other (its comment: "Kill the
\* process with the given pid").
KilledWasNamed ==
  \A p \in Slot : InUse(p) /\ killed[p] => pid[p] \in named

\* Each pid goes through its life once (Lifecycle).
PhaseOf(p) == CASE state[p] = "EMBRYO" -> "embryo"
                [] state[p] = "ZOMBIE" -> "dead"
                [] OTHER -> "alive"
Life == [n \in 1 .. MaxPid |->
           IF n >= nextpid THEN "unborn"
           ELSE LET holder == {p \in Slot : InUse(p) /\ pid[p] = n}
                IN  IF holder = {} THEN "gone" ELSE PhaseOf(Min(holder))]
Abstract == INSTANCE Lifecycle WITH Pid <- 1 .. MaxPid, life <- Life
ImplementsLifecycle == Abstract!Spec

\* A zombie that init has inherited, or forked, is eventually collected, however
\* often init starts a new shell - unless init's own fork fails, which panics the
\* kernel (or the bound MaxPid keeps it from its fork).
OutOfPids == shell = 0 /\ nextpid > MaxPid
OrphanIsCollected ==
  \A n \in 2 .. MaxPid :
    (\E p \in Slot : pid[p] = n /\ state[p] = "ZOMBIE" /\ parent[p] = initproc)
       ~> (Life[n] = "gone" \/ Panicked \/ OutOfPids)

\* A process that is killed ends, wherever it sleeps, unless init panics.
KilledEnds ==
  \A n \in 2 .. MaxPid :
    (\E p \in Slot : pid[p] = n /\ CanRun(p) /\ killed[p])
       ~> (Life[n] \in {"dead", "gone"} \/ Panicked)
=============================================================================
