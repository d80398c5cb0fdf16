------------------------------ MODULE Spinlock ------------------------------
(***************************************************************************)
(* p1/p1b/xv6/kernel: the spinlocks of spinlock.c, and how sleep, sched    *)
(* and the scheduler of proc.c, the timer's handler in trap.c and          *)
(* sys_sleep hold them across interrupts and switches between processes.   *)
(* All five projects have this code.                                       *)
(*                                                                         *)
(* todo[t] lists the instructions that thread t has left: a call puts its  *)
(* own before the rest of the caller's, an interrupt puts its handler's    *)
(* before those of whatever it interrupts.  A process with nothing left is *)
(* in user mode.  A processor is also the name of its scheduler's thread.  *)
(* What touches one processor only, with interrupts off, is one step.      *)
(***************************************************************************)
EXTENDS Integers, Sequences, FiniteSets, FiniteSetsExt, Functions

CONSTANTS Cpu, Boot,  \* processors, and the one with id 0
          Process,    \* slots of ptable
          TickWrap,   \* ticks is counted modulo TickWrap (2^32)
          Nap         \* bound: ticks that a process asks sleep for

ASSUME SpinAssumption ==
  /\ Boot \in Cpu /\ Cpu \cap Process = {} /\ "none" \notin Cpu /\ Process \subseteq Nat
  /\ TickWrap \in Nat /\ Nap \in 1 .. TickWrap - 1

VARIABLES locked, holder,        \* struct spinlock: locked and cpu
          ncli, intena, runs,    \* struct cpu: the thread it runs is proc,
                                 \* or its scheduler
          ints,                  \* FL_IF: does the processor take interrupts?
          todo,
          pstate, ticks,
          panicked               \* has the kernel panicked?

lockvars == << locked, holder >>
cpuvars  == << ncli, intena, runs, ints >>
procvars == << pstate, ticks >>
spinvars == << lockvars, cpuvars, procvars, todo, panicked >>

Lock == {"ptable", "tickslock"}
NoCpu == "none"

---------------------------------------------------------------------------
(* Calls, as what they put before the caller's rest. *)

Do(op)        == << << op, "" >> >>
DoWith(op, x) == << << op, x >> >>

Acquire(lk) == DoWith("pushcli", lk) \o DoWith("xchg", lk) \o DoWith("own", lk)
Release(lk) == DoWith("disown", lk) \o DoWith("unlock", lk)

Sched(state) == DoWith("sched", state)
Yield  == Acquire("ptable") \o Sched("RUNNABLE") \o Release("ptable")

Handover_Late(lk) == Release(lk) \o Acquire("ptable")    \* mutated: sleeps too late
Handover(lk) == Acquire("ptable") \o Release(lk)
Sleep(lk) ==
  Handover(lk) \o Sched("SLEEPING") \o Release("ptable") \o Acquire(lk)
Wakeup == Acquire("ptable") \o Do("wakeup1") \o Release("ptable")

\* Interrupts are off in a handler: an interrupt gate turns them off, iret
\* turns them on again.
Timer(c) ==
  (IF c = Boot
   THEN Acquire("tickslock") \o Do("ticks++") \o Wakeup \o Release("tickslock")
   ELSE << >>) \o Do("preempt") \o DoWith("iret", "interrupt")

\* Interrupts are left on in a call: it comes through a trap gate.
SysSleep ==
  Acquire("tickslock") \o Do("ticks0") \o Release("tickslock") \o DoWith("iret", "call")

Scheduler == Acquire("ptable") \o DoWith("slot", 0) \o Release("ptable")
Forkret   == Release("ptable") \o DoWith("iret", "fork")

SpinInit ==
  /\ locked = [lk \in Lock |-> FALSE] /\ holder = [lk \in Lock |-> NoCpu]
  /\ ncli = [c \in Cpu |-> 0] /\ intena = [c \in Cpu |-> FALSE]
  /\ runs = [c \in Cpu |-> c] /\ ints = [c \in Cpu |-> FALSE]
  /\ todo = [t \in Cpu \cup Process |-> IF t \in Cpu THEN << >> ELSE Forkret]
  /\ pstate = [p \in Process |-> "RUNNABLE"] /\ ticks = 0
  /\ panicked = FALSE

---------------------------------------------------------------------------
(* What processor c does next. *)

Left(c) == todo[runs[c]]
At(c, op) == Left(c) # << >> /\ Head(Left(c))[1] = op
Arg(c) == Head(Left(c))[2]

\* It goes on with `calls', then with what is left.
Goes(c, calls) ==
  todo' = [todo EXCEPT ![runs[c]] = calls \o Tail(@)] /\ UNCHANGED panicked

Panic ==
  panicked' = TRUE /\ UNCHANGED << lockvars, cpuvars, procvars, todo >>

Has(c, lk) == locked[lk] /\ holder[lk] = c

\* acquire turns interrupts off and panics if this processor has the lock,
\* spins for it, and enters its name.  Reading eflags and cli are one step:
\* whoever is interrupted in between has interrupts on before and afterwards.
Pushcli(c) ==
  /\ At(c, "pushcli")
  /\ IF Has(c, Arg(c)) THEN Panic
     ELSE /\ Goes(c, << >>)
          /\ ints' = [ints EXCEPT ![c] = FALSE]
          /\ ncli' = [ncli EXCEPT ![c] = @ + 1]
          /\ intena' = [intena EXCEPT ![c] = IF ncli[c] = 0 THEN ints[c] ELSE @]
          /\ UNCHANGED << lockvars, runs, procvars >>

Xchg(c) ==
  /\ At(c, "xchg") /\ ~locked[Arg(c)] /\ Goes(c, << >>)
  /\ locked' = [locked EXCEPT ![Arg(c)] = TRUE]
  /\ UNCHANGED << holder, cpuvars, procvars >>

Own(c) ==
  /\ At(c, "own") /\ Goes(c, << >>)
  /\ holder' = [holder EXCEPT ![Arg(c)] = c]
  /\ UNCHANGED << locked, cpuvars, procvars >>

\* release takes the name away before the lock is free, then does popcli.
NameLeft_Own(c) == c    \* mutated: the name stays until the next one's
NameLeft(c) == NoCpu

Disown(c) ==
  /\ At(c, "disown")
  /\ IF ~Has(c, Arg(c)) THEN Panic
     ELSE /\ Goes(c, << >>)
          /\ holder' = [holder EXCEPT ![Arg(c)] = NameLeft(c)]
          /\ UNCHANGED << locked, cpuvars, procvars >>

Unlock(c) ==
  /\ At(c, "unlock")
  /\ IF ints[c] \/ ncli[c] = 0
     THEN Panic
     ELSE /\ Goes(c, << >>)
          /\ locked' = [locked EXCEPT ![Arg(c)] = FALSE]
          /\ ncli' = [ncli EXCEPT ![c] = @ - 1]
          /\ ints' = [ints EXCEPT ![c] = ncli[c] = 1 /\ intena[c]]
          /\ UNCHANGED << holder, intena, runs, procvars >>

---------------------------------------------------------------------------
(* proc.c *)

\* The scheduler begins again, with sti, when it has nothing left.
Loop(c) ==
  /\ runs[c] = c /\ Left(c) = << >>
  /\ todo' = [todo EXCEPT ![c] = Scheduler]
  /\ ints' = [ints EXCEPT ![c] = TRUE]
  /\ UNCHANGED << lockvars, ncli, intena, runs, procvars, panicked >>

\* The walk goes on to the next RUNNABLE slot; pushcli and popcli in
\* switchuvm cancel out.
Slot(c) ==
  LET ready == {p \in Process : p >= Arg(c) /\ pstate[p] = "RUNNABLE"} IN
  /\ At(c, "slot")
  /\ IF ready = {}
     THEN Goes(c, << >>) /\ UNCHANGED << runs, pstate >>
     ELSE /\ Goes(c, DoWith("slot", Min(ready) + 1))
          /\ pstate' = [pstate EXCEPT ![Min(ready)] = "RUNNING"]
          /\ runs' = [runs EXCEPT ![c] = Min(ready)]
  /\ UNCHANGED << lockvars, ncli, intena, ints, ticks >>

\* The caller's new state, and sched.  swtch does not take FL_IF along, and
\* intena is the processor's, so sched keeps the process's value itself.
KeptIntena(c) == DoWith("intena", intena[c])
GoesAway(c) ==
  /\ At(c, "sched")
  /\ IF ~Has(c, "ptable") \/ ncli[c] # 1 \/ ints[c]
     THEN Panic
     ELSE /\ Goes(c, KeptIntena(c))
          /\ pstate' = [pstate EXCEPT ![runs[c]] = Arg(c)]
          /\ runs' = [runs EXCEPT ![c] = c]
          /\ UNCHANGED << lockvars, ncli, intena, ints, ticks >>

ComesBack(c) ==
  /\ At(c, "intena") /\ Goes(c, << >>)
  /\ intena' = [intena EXCEPT ![c] = Arg(c)]
  /\ UNCHANGED << lockvars, ncli, runs, ints, procvars >>

Wakeup1(c) ==
  /\ At(c, "wakeup1") /\ Goes(c, << >>)
  /\ pstate' = [p \in Process |-> IF pstate[p] = "SLEEPING" THEN "RUNNABLE" ELSE pstate[p]]
  /\ UNCHANGED << lockvars, cpuvars, ticks >>

---------------------------------------------------------------------------
(* Interrupts and calls. *)

TimerInterrupts(c) ==
  /\ ints[c]
  /\ todo' = [todo EXCEPT ![runs[c]] = Timer(c) \o @]
  /\ ints' = [ints EXCEPT ![c] = FALSE]
  /\ UNCHANGED << lockvars, ncli, intena, runs, procvars, panicked >>

Tick(c) ==
  /\ At(c, "ticks++") /\ Goes(c, << >>)
  /\ ticks' = (ticks + 1) % TickWrap
  /\ UNCHANGED << lockvars, cpuvars, pstate >>

\* A process that runs gives way; an idle processor has none.
Preempt(c) ==
  /\ At(c, "preempt")
  /\ Goes(c, IF runs[c] \in Process THEN Yield ELSE << >>)
  /\ UNCHANGED << lockvars, cpuvars, procvars >>

Iret(c) ==
  /\ At(c, "iret") /\ Goes(c, << >>)
  /\ ints' = [ints EXCEPT ![c] = TRUE]
  /\ UNCHANGED << lockvars, ncli, intena, runs, procvars >>

CallSleep(c) ==
  /\ runs[c] \in Process /\ Left(c) = << >>
  /\ todo' = [todo EXCEPT ![runs[c]] = SysSleep]
  /\ UNCHANGED << lockvars, cpuvars, procvars, panicked >>

\* ticks0 = ticks, and the test of the loop; kill is left to Proc.
Ticks0(c) ==
  /\ At(c, "ticks0") /\ Goes(c, DoWith("while", ticks))
  /\ UNCHANGED << lockvars, cpuvars, procvars >>

Over(ticks0) == (ticks - ticks0) % TickWrap >= Nap
While(c) ==
  /\ At(c, "while")
  /\ Goes(c, IF Over(Arg(c)) THEN << >>
             ELSE Sleep("tickslock") \o DoWith("while", Arg(c)))
  /\ UNCHANGED << lockvars, cpuvars, procvars >>

SpinNext ==
  /\ ~panicked
  /\ \E c \in Cpu :
       \/ Pushcli(c) \/ Xchg(c) \/ Own(c) \/ Disown(c) \/ Unlock(c)
       \/ Loop(c) \/ Slot(c)
       \/ GoesAway(c) \/ ComesBack(c) \/ Wakeup1(c)
       \/ TimerInterrupts(c) \/ Tick(c) \/ Preempt(c) \/ Iret(c)
       \/ CallSleep(c) \/ Ticks0(c) \/ While(c)

---------------------------------------------------------------------------
(* Properties. *)

Places(c, op) == {i \in DOMAIN Left(c) : Left(c)[i][1] = op}
For(c, ops, lk) == {i \in DOMAIN Left(c) : Left(c)[i][1] \in ops /\ Left(c)[i][2] = lk}

\* The first that c will do with the lock is to give it back.
Inside(c, lk) ==
  LET i == For(c, {"xchg", "unlock"}, lk) IN i # {} /\ Left(c)[Min(i)][1] = "unlock"

Spins(c) == At(c, "xchg") /\ locked[Arg(c)]

\* How the code that c is in was entered.
Entered(c) ==
  LET i == Places(c, "iret") IN
  IF i # {} THEN Left(c)[Min(i)][2] ELSE IF runs[c] = c THEN "scheduler" ELSE "user"

OneInside ==
  \A lk \in Lock :
    /\ \A c, d \in Cpu : Inside(c, lk) /\ Inside(d, lk) => c = d
    /\ locked[lk] <=> \E c \in Cpu : Inside(c, lk)

InterruptsRight ==
  \A c \in Cpu :
    /\ ncli[c] = Cardinality(Places(c, "unlock")) - Cardinality(Places(c, "pushcli"))
    /\ ncli[c] > 0 \/ Entered(c) = "interrupt" => ~ints[c]
    /\ ncli[c] = 0 /\ Entered(c) \in {"call", "user"} => ints[c]

TicksSeen ==
  \A p \in Process : pstate[p] = "SLEEPING" =>
    \/ \A i \in DOMAIN todo[p] : todo[p][i][1] = "while" => ~Over(todo[p][i][2])
    \/ \E c \in Cpu : Places(c, "wakeup1") # {} /\ Places(c, "ticks++") = {}

\* Whoever is between acquire and release has the lock alone, also when one
\* process took it and another, or the scheduler, gives it back; no assertion
\* of acquire, release, popcli and sched fails.  A processor with a lock takes
\* no interrupts, a handler never does, and user code and calls without a lock
\* always do, whichever process or processor set intena last.  Processors do
\* not spin for each other in a circle.  Nobody sleeps on when his ticks are
\* over, unless the handler that has counted the last one is still on its way
\* to wakeup1 (acquire, release, sleep, sched, and trap's timer).
LocksInOrder ==
  ~panicked /\ OneInside /\ InterruptsRight /\ TicksSeen /\ \E c \in Cpu : ~Spins(c)
=============================================================================
