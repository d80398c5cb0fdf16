----------------------------- MODULE ProcProofs -----------------------------
(***************************************************************************)
(* Theorems about Proc for every size of the process table, every number   *)
(* of processors and every set of system calls.                            *)
(*                                                                         *)
(* That a process always has a parent to collect it is not inductive: a    *)
(* failed fork empties the slot that it was filling, and exit hands the    *)
(* children to init.  The strengthening says that a slot being filled is   *)
(* an EMBRYO that one process fills, that only living processes are inside *)
(* calls, and that init lives and is nobody's child.  As no two slots in   *)
(* use have the same pid, a slot's phase is that of its pid, which is what *)
(* the refinement of Lifecycle needs.                                      *)
(***************************************************************************)
EXTENDS Proc, TLAPS, FiniteSetTheorems, Numbers

\* Only a process that can run is inside a system call.
CallersRun == \A p \in Slot : pc[p] # "user" => CanRun(p)

\* What fork and clone fill is a slot that allocproc took, for them alone.
FillsEmbryo ==
  /\ \A p \in Slot : pc[p] \in {"fork", "clone"} =>
        np[p] \in Slot /\ state[np[p]] = "EMBRYO"
  /\ \A p, q \in Slot :
        pc[p] \in {"fork", "clone"} /\ pc[q] \in {"fork", "clone"} /\ p # q
          => np[p] # np[q]

InitLives == CanRun(initproc) /\ parent[initproc] = NoSlot

TableInv == PidUnique /\ ParentIsAlive /\ CallersRun /\ FillsEmbryo /\ InitLives

IInv == TypeOK /\ TableInv

LEMMA MinSlot ==
  ASSUME NEW S \in SUBSET Slot, S # {}
  PROVE  Min(S) \in S /\ Min(S) \in Slot
  <1>1. Slot \subseteq Nat
    BY ProcAssumption DEF Slot
  <1>2. S \in SUBSET Nat
    BY <1>1
  <1>3. Min(S) \in S
    BY <1>2, MinInSet
  <1> QED BY <1>3

LEMMA FirstFreeSpace ==
  ASSUME FreeSpace # {}
  PROVE  Min(FreeSpace) \in Space
  <1>1. FreeSpace \in SUBSET Nat /\ FreeSpace \subseteq Space
    BY ProcAssumption DEF FreeSpace, Space
  <1> QED BY <1>1, MinInSet

LEMMA InitSlot == initproc \in Slot /\ NoSlot \notin Slot
  BY ProcAssumption DEF Slot, initproc, NoSlot

LEMMA InitInv == Init => IInv
  <1> SUFFICES ASSUME Init PROVE IInv
    OBVIOUS
  <1> USE InitSlot DEF Init
  <1>1. TypeOK
    <2>1. 1 \in Space /\ {0, 1} \subseteq 0 .. MaxPid /\ 2 \in 2 .. MaxPid + 1
      BY ProcAssumption DEF Space
    <2>2. state \in [Slot -> States]
      BY DEF States
    <2>3. pc \in [Slot -> Pcs]
      BY DEF Pcs
    <2>4. pid \in [Slot -> 0 .. MaxPid]
      BY <2>1
    <2>5. pgdir \in [Slot -> Space \cup {NoSpace}]
      BY <2>1
    <2>6. /\ parent \in [Slot -> Slot \cup {NoSlot}]
          /\ np \in [Slot -> Slot \cup {NoSlot}]
          /\ chan \in [Slot -> Slot \cup {NoChan, Ticks}]
      OBVIOUS
    <2>7. killed \in [Slot -> BOOLEAN] /\ kstack \in [Slot -> BOOLEAN]
      BY Zenon
    <2>8. num_child \in [Slot -> Int]
      OBVIOUS
    <2>9. parent_pid \in [Slot -> {-1} \cup 0 .. MaxPid]
      BY <2>1
    <2>10. shell \in -1 .. MaxPid
      BY ProcAssumption
    <2> QED BY <2>1, <2>2, <2>3, <2>4, <2>5, <2>6, <2>7, <2>8, <2>9, <2>10 DEF TypeOK
  <1>2. PidUnique
    BY DEF PidUnique, InUse
  <1>3. ParentIsAlive /\ CallersRun /\ InitLives
    BY DEF ParentIsAlive, CallersRun, InitLives, CanRun
  <1>4. FillsEmbryo
    <2>1. \A p \in Slot : ~ (pc[p] \in {"fork", "clone"})
      OBVIOUS
    <2> QED BY <2>1 DEF FillsEmbryo
  <1> QED BY <1>1, <1>2, <1>3, <1>4 DEF IInv, TableInv

---------------------------------------------------------------------------
(* Types. *)

(* wakeup1 changes states of processes, to a state of a process.           *)
LEMMA WakeupType ==
  ASSUME NEW st \in [Slot -> States], NEW c
  PROVE  /\ wakeup1(st, c) \in [Slot -> States]
         /\ \A q \in Slot : 
              \/ wakeup1(st, c)[q] = st[q]
              \/ (st[q] = "SLEEPING" /\ wakeup1(st, c)[q] = "RUNNABLE")
  BY DEF wakeup1, States

LEMMA AllocType ==
  ASSUME TypeOK, NEW p \in Slot, NEW call \in {"fork", "clone"},
         allocproc(p, call)
  PROVE  TypeOK'
  <1> DEFINE q == Min(FreeSlots)
  <1>1. q \in Slot
    <2>1. FreeSlots \in SUBSET Slot /\ FreeSlots # {}
      BY DEF allocproc, FreeSlots
    <2> QED BY <2>1, MinSlot
  <1> HIDE DEF q
  <1>2. /\ state' = [state EXCEPT ![q] = "EMBRYO"]
        /\ pid' = [pid EXCEPT ![q] = nextpid]
        /\ parent_pid' = [parent_pid EXCEPT ![q] = -1]
        /\ num_child' = [num_child EXCEPT ![q] = 0]
        /\ np' = [np EXCEPT ![p] = q]
        /\ pc' = [pc EXCEPT ![p] = call]
        /\ nextpid' = nextpid + 1 /\ nextpid <= MaxPid
        /\ UNCHANGED << parent, killed, chan, pgdir, kstack, memvars, named, shell >>
    BY DEF allocproc, NewPid, q
  <1>3. nextpid \in 0 .. MaxPid /\ nextpid' \in 2 .. MaxPid + 1
    BY <1>2, ProcAssumption DEF TypeOK
  <1>4. state' \in [Slot -> States] /\ pc' \in [Slot -> Pcs]
    BY <1>2 DEF TypeOK, States, Pcs
  <1>5. /\ pid' \in [Slot -> 0 .. MaxPid] /\ num_child' \in [Slot -> Int]
        /\ parent_pid' \in [Slot -> {-1} \cup 0 .. MaxPid]
        /\ np' \in [Slot -> Slot \cup {NoSlot}]
    BY <1>1, <1>2, <1>3 DEF TypeOK
  <1> QED BY <1>2, <1>3, <1>4, <1>5 DEF TypeOK, memvars

LEMMA FinishType ==
  ASSUME TypeOK, NEW p \in Slot, NEW space \in Space \cup {NoSpace},
         Finish(p, space)
  PROVE  /\ state' \in [Slot -> States] /\ kstack' \in [Slot -> BOOLEAN]
         /\ pgdir' \in [Slot -> Space \cup {NoSpace}]
         /\ parent' \in [Slot -> Slot \cup {NoSlot}]
         /\ pc' \in [Slot -> Pcs] /\ np' \in [Slot -> Slot \cup {NoSlot}]
         /\ UNCHANGED << pid, killed, chan, nextpid, badfree, named >>
  BY DEF TypeOK, Finish, States, Pcs

LEMMA ForkFinishType ==
  ASSUME TypeOK, TableInv, NEW p \in Slot, ForkFinish(p)
  PROVE  TypeOK'
  <1>1. CopyOf(p) \in Space
    BY FirstFreeSpace DEF ForkFinish, CopyOf
  <1>2. Finish(p, CopyOf(p)) /\ live' = live \cup {CopyOf(p)}
        /\ UNCHANGED threadvars
    BY DEF ForkFinish
  <1>3. shell' \in -1 .. MaxPid
    <2>1. np[p] \in Slot
      BY DEF ForkFinish, TableInv, FillsEmbryo
    <2>2. pid[np[p]] \in 0 .. MaxPid /\ shell \in -1 .. MaxPid
      BY <2>1 DEF TypeOK
    <2>3. shell' = pid[np[p]] \/ shell' = shell
      BY DEF ForkFinish
    <2> QED BY <2>2, <2>3
  <1> QED BY <1>1, <1>2, <1>3, FinishType DEF TypeOK, threadvars

LEMMA CloneFinishType ==
  ASSUME TypeOK, NEW p \in Slot, CloneFinish(p)
  PROVE  TypeOK'
  <1>1. pgdir[p] \in Space \cup {NoSpace} /\ pid[p] \in 0 .. MaxPid
    BY DEF TypeOK
  <1>2. Finish(p, pgdir[p]) /\ live' = live /\ shell' = shell
    BY DEF CloneFinish
  <1>3. num_child' \in [Slot -> Int]
    <2>1. num_child[p] + 1 \in Int
      BY DEF TypeOK
    <2> QED BY <2>1 DEF CloneFinish, TypeOK
  <1>4. parent_pid' \in [Slot -> {-1} \cup 0 .. MaxPid]
    BY <1>1, Zenon DEF CloneFinish, TypeOK
  <1> QED BY <1>1, <1>2, <1>3, <1>4, FinishType DEF TypeOK

LEMMA LeaveType ==
  ASSUME TypeOK, NEW p \in Slot, Leave(p)
  PROVE  TypeOK'
  <1>1. state' \in [Slot -> States]
    <2>1. WakeParent(p) \in [Slot -> States]
      BY WakeupType DEF WakeParent, TypeOK
    <2>2. WakeInit(WakeParent(p), p) \in [Slot -> States]
      BY <2>1, WakeupType DEF WakeInit
    <2> QED BY <2>2 DEF Leave, States
  <1>2. parent' \in [Slot -> Slot \cup {NoSlot}]
    <2>1. \A q \in Slot : parent[q] \in Slot \cup {NoSlot}
      BY DEF TypeOK
    <2>2. parent' = [q \in Slot |-> IF q \in GivesToInit(p) THEN initproc
                                                          ELSE parent[q]]
      BY DEF Leave
    <2> QED BY <2>1, <2>2, InitSlot
  <1>3. live' \subseteq Space /\ pgdir' \in [Slot -> Space \cup {NoSpace}]
    <2> DEFINE s == Min(FreeSpace)
    <2>1. \/ UNCHANGED << pgdir, live >>
          \/ s \in Space /\ live' = live \cup {s} /\ pgdir' = [pgdir EXCEPT ![p] = s]
          \/ live' = live /\ pgdir' = [pgdir EXCEPT ![p] = NoSpace]
      BY FirstFreeSpace DEF Leave
    <2> HIDE DEF s
    <2> QED BY <2>1 DEF TypeOK
  <1> QED BY <1>1, <1>2, <1>3 DEF Leave, TypeOK, threadvars

LEMMA CollectType ==
  ASSUME TypeOK, NEW p \in Slot, Collect(p)
  PROVE  TypeOK'
  <1> DEFINE mine == Mine(p, pc[p])
             zombies == Collectable(mine)
  <1>0. shell' \in -1 .. MaxPid
    <2>1. shell' = 0 \/ shell' = shell
      BY DEF Collect
    <2> QED BY <2>1, ProcAssumption DEF TypeOK
  <1>1. CASE zombies = {}
    <2>1. /\ state' \in [Slot -> States] /\ pc' \in [Slot -> Pcs]
          /\ chan' \in [Slot -> Slot \cup {NoChan, Ticks}]
          /\ UNCHANGED << pid, parent, killed, kstack, num_child, memvars >>
      BY <1>1 DEF Collect, TypeOK, States, Pcs
    <2> QED BY <2>1, <1>0 DEF Collect, TypeOK, memvars
  <1>2. CASE zombies # {}
    <2> DEFINE q == Min(zombies)
    <2>1. q \in Slot
      <3>1. zombies \in SUBSET Slot
        BY DEF Collectable, Mine, Children
      <3> QED BY <3>1, <1>2, MinSlot
    <2>2. /\ Reap(q, pc[p])
          /\ pc' = [pc EXCEPT ![p] = "user"]
          /\ chan' = [chan EXCEPT ![p] = NoChan]
          /\ UNCHANGED << pgdir, parent_pid, nextpid, np, named >>
      BY <1>2 DEF Collect
    <2> HIDE DEF q
    <2>3. /\ kstack' = [kstack EXCEPT ![q] = FALSE]
          /\ killed' = [killed EXCEPT ![q] = FALSE]
          /\ state' = [state EXCEPT ![q] = "UNUSED"]
          /\ pid' = [pid EXCEPT ![q] = 0]
          /\ parent' = [parent EXCEPT ![q] = NoSlot]
      BY <2>2 DEF Reap, Unkilled
    <2>4. num_child' \in [Slot -> Int]
      BY <2>2 DEF Reap, TypeOK
    <2>5. live' \subseteq Space /\ badfree' \in BOOLEAN
      <3>1. UNCHANGED memvars \/ freevm(pgdir[q])
        BY <2>2 DEF Reap
      <3>2. CASE UNCHANGED memvars
        BY <3>2 DEF memvars, TypeOK
      <3>3. CASE freevm(pgdir[q])
        BY <3>3, Zenon DEF freevm, TypeOK
      <3> QED BY <3>1, <3>2, <3>3
    <2>6. /\ kstack' \in [Slot -> BOOLEAN] /\ killed' \in [Slot -> BOOLEAN]
          /\ state' \in [Slot -> States] /\ pid' \in [Slot -> 0 .. MaxPid]
          /\ parent' \in [Slot -> Slot \cup {NoSlot}]
      <3>1. 0 \in 0 .. MaxPid
        BY ProcAssumption
      <3> QED BY <2>3, <3>1 DEF TypeOK, States
    <2>7. pc' \in [Slot -> Pcs] /\ chan' \in [Slot -> Slot \cup {NoChan, Ticks}]
      BY <2>2 DEF TypeOK, Pcs
    <2> QED BY <2>2, <2>4, <2>5, <2>6, <2>7, <1>0 DEF TypeOK
  <1> QED BY <1>1, <1>2

LEMMA StepType ==
  ASSUME TypeOK, TableInv, NEW p \in Slot, Step(p) \/ Yield(p) \/ Run(p)
  PROVE  TypeOK'
  <1>1. CASE ForkAlloc(p) \/ CloneAlloc(p)
    BY <1>1, AllocType DEF ForkAlloc, CloneAlloc
  <1>2. CASE AllocFails(p)
    <2>1. shell' \in -1 .. MaxPid
      BY <1>2, ProcAssumption DEF AllocFails, TypeOK
    <2> QED BY <1>2, <2>1 DEF AllocFails, TypeOK, States, Pcs, threadvars, memvars
  <1>3. CASE Exit(p) \/ ExitKilled(p)
    BY <1>3, LeaveType DEF Exit, ExitKilled
  <1>4. CASE EnterWait(p) \/ EnterJoin(p) \/ EnterSleep(p)
    BY <1>4 DEF EnterWait, EnterJoin, EnterSleep, TypeOK, Pcs, threadvars, memvars
  <1>5. CASE exec(p)
    <2>1. live' \subseteq Space /\ pgdir' \in [Slot -> Space \cup {NoSpace}]
      BY <1>5, FirstFreeSpace DEF exec, TypeOK
    <2>2. badfree' \in BOOLEAN
      BY <1>5, Zenon DEF exec, TypeOK
    <2> QED BY <1>5, <2>1, <2>2 DEF exec, TypeOK, threadvars
  <1>6. CASE \E n \in KillArgs : kill(p, n)
    <2>1. PICK n \in KillArgs : kill(p, n)
      BY <1>6
    <2> DEFINE q == Min(Target(n))
    <2>2. q \in Slot
      <3>1. Target(n) \in SUBSET Slot /\ Target(n) # {}
        BY <2>1 DEF kill, Target
      <3> QED BY <3>1, MinSlot
    <2>3. /\ killed' = [killed EXCEPT ![q] = TRUE]
          /\ state' = [state EXCEPT ![q] = KillWakes(state[q])]
          /\ named' = named \cup {n}
          /\ UNCHANGED << pid, parent, chan, pgdir, kstack, threadvars, nextpid,
                          pc, np, memvars, shell >>
      BY <2>1 DEF kill
    <2> HIDE DEF q
    <2>4. KillWakes(state[q]) \in States
      BY <2>2 DEF KillWakes, TypeOK, States
    <2> QED BY <2>2, <2>3, <2>4 DEF TypeOK, threadvars, memvars
  <1>7. CASE ForkFinish(p) \/ CloneFinish(p)
    BY <1>7, ForkFinishType, CloneFinishType
  <1>8. CASE Collect(p)
    BY <1>8, CollectType
  <1>9. CASE SleepTest(p) \/ SleepOnTicks(p)
    BY <1>9 DEF SleepTest, SleepOnTicks, TypeOK, States, Pcs, threadvars, memvars
  <1>10. CASE Yield(p) \/ Run(p)
    BY <1>10 DEF Yield, Run, TypeOK, States, threadvars, memvars
  <1> QED BY <1>1, <1>2, <1>3, <1>4, <1>5, <1>6, <1>7, <1>8, <1>9, <1>10
          DEF Step, Continue

(* init's fork fails, init exits, the kernel has panicked.                 *)
LEMMA InitFailsChanges ==
  ASSUME InitFails
  PROVE  /\ UNCHANGED << state, pid, parent, killed, chan, pgdir, kstack, threadvars,
                         nextpid, np, memvars, named >>
         /\ pc' = pc \/ (CanRun(initproc) /\ pc' = [pc EXCEPT ![initproc] = "panic"])
         /\ shell' = -1 \/ shell' = shell
  BY DEF InitFails, InitForkFails, InitExits, Spin, InitMay, User, Running, CanRun,
         vars, threadvars, memvars

LEMMA TypeStep == TypeOK /\ TableInv /\ [Next]_vars => TypeOK'
  <1> SUFFICES ASSUME TypeOK, TableInv, [Next]_vars PROVE TypeOK'
    OBVIOUS
  <1>1. CASE Tick
    BY <1>1, WakeupType DEF Tick, TypeOK, threadvars, memvars
  <1>2. CASE \E p \in Slot : Step(p) \/ Yield(p) \/ Run(p)
    BY <1>2, StepType
  <1>3. CASE UNCHANGED vars
    BY <1>3 DEF vars, TypeOK, threadvars, memvars
  <1>4. CASE InitFails
    <2>1. shell' \in -1 .. MaxPid /\ pc' \in [Slot -> Pcs]
      BY <1>4, InitFailsChanges, ProcAssumption DEF TypeOK, Pcs
    <2> QED BY <1>4, <2>1, InitFailsChanges DEF TypeOK, threadvars, memvars
  <1> QED BY <1>1, <1>2, <1>3, <1>4 DEF Next

---------------------------------------------------------------------------
(* Pids and parents. *)

(* A step that lets processes sleep, run and wait but makes and ends none. *)
LEMMA QuietStep ==
  ASSUME TableInv, UNCHANGED << pid, parent, nextpid, np >>,
         \A q \in Slot : state'[q] = state[q] \/ (CanRun(q) /\ CanRun(q)'),
         \A q \in Slot : \/ pc'[q] = pc[q]
                         \/ (pc'[q] \notin {"fork", "clone"} /\ CanRun(q))
  PROVE  TableInv'
  <1> USE DEF TableInv
  <1>1. \A q \in Slot : /\ InUse(q)' <=> InUse(q)
                        /\ CanRun(q)' <=> CanRun(q)
                        /\ (state'[q] = "ZOMBIE") <=> (state[q] = "ZOMBIE")
                        /\ (state'[q] = "EMBRYO") <=> (state[q] = "EMBRYO")
    BY DEF InUse, CanRun
  <1>2. PidUnique'
    BY <1>1 DEF PidUnique
  <1>3. ParentIsAlive'
    BY <1>1 DEF ParentIsAlive
  <1>4. CallersRun'
    BY <1>1 DEF CallersRun
  <1>5. FillsEmbryo'
    BY <1>1 DEF FillsEmbryo
  <1>6. InitLives'
    BY <1>1, InitSlot DEF InitLives
  <1> QED BY <1>2, <1>3, <1>4, <1>5, <1>6

LEMMA AllocTable ==
  ASSUME TypeOK, TableInv, NEW p \in Slot, NEW call \in {"fork", "clone"},
         User(p), allocproc(p, call)
  PROVE  TableInv'
  <1> USE DEF TableInv
  <1> DEFINE q == Min(FreeSlots)
  <1>1. q \in Slot /\ state[q] = "UNUSED"
    <2>1. FreeSlots \in SUBSET Slot /\ FreeSlots # {}
      BY DEF allocproc, FreeSlots
    <2>2. q \in FreeSlots
      BY <2>1, MinSlot
    <2> QED BY <2>2 DEF FreeSlots
  <1>2. /\ state' = [state EXCEPT ![q] = "EMBRYO"]
        /\ pid' = [pid EXCEPT ![q] = nextpid]
        /\ np' = [np EXCEPT ![p] = q]
        /\ pc' = [pc EXCEPT ![p] = call]
        /\ nextpid' = nextpid + 1 /\ parent' = parent
    BY DEF allocproc, NewPid
  <1> HIDE DEF q
  <1>3. state[p] = "RUNNING" /\ pc[p] = "user" /\ p # q
    BY <1>1 DEF User, Running
  <1>4. \A r \in Slot : r # q => state'[r] = state[r] /\ pid'[r] = pid[r]
    BY <1>1, <1>2 DEF TypeOK
  <1>5. state'[q] = "EMBRYO" /\ pid'[q] = nextpid
    BY <1>1, <1>2 DEF TypeOK
  <1>6. /\ pc'[p] = call /\ np'[p] = q
        /\ \A r \in Slot : r # p => pc'[r] = pc[r] /\ np'[r] = np[r]
    BY <1>2 DEF TypeOK
  <1>7. PidUnique'
    <2>1. nextpid \in Nat \ {0} /\ \A r \in Slot : pid[r] \in Int
      BY ProcAssumption DEF TypeOK
    <2>2. \A r \in Slot : InUse(r) => pid[r] \in 1 .. nextpid - 1
      BY DEF PidUnique
    <2>3. \A r \in Slot : InUse(r)' => r = q \/ InUse(r)
      BY <1>4 DEF InUse
    <2>4. \A r \in Slot : InUse(r)' => pid'[r] \in 1 .. nextpid' - 1
      BY <1>2, <1>4, <1>5, <2>1, <2>2, <2>3
    <2>5. \A r, t \in Slot : InUse(r)' /\ InUse(t)' /\ r # t => pid'[r] # pid'[t]
      <3> SUFFICES ASSUME NEW r \in Slot, NEW t \in Slot,
                          InUse(r)', InUse(t)', r # t
                   PROVE  pid'[r] # pid'[t]
        OBVIOUS
      <3>1. CASE r = q
        BY <3>1, <1>4, <1>5, <2>1, <2>2, <2>3
      <3>2. CASE t = q
        BY <3>2, <1>4, <1>5, <2>1, <2>2, <2>3
      <3>3. CASE r # q /\ t # q
        BY <3>3, <1>4, <2>3 DEF PidUnique
      <3> QED BY <3>1, <3>2, <3>3
    <2> QED BY <2>4, <2>5 DEF PidUnique
  <1>8. \A r \in Slot : CanRun(r) => CanRun(r)'
    BY <1>1, <1>4 DEF CanRun
  <1>9. ParentIsAlive'
    <2>1. \A r \in Slot : CanRun(r)' \/ state'[r] = "ZOMBIE"
                            => CanRun(r) \/ state[r] = "ZOMBIE"
      BY <1>4, <1>5 DEF CanRun
    <2> QED BY <1>2, <1>8, <2>1 DEF ParentIsAlive
  <1>10. CallersRun'
    BY <1>3, <1>6, <1>8 DEF CallersRun, CanRun
  <1>11. FillsEmbryo'
    <2>1. \A r \in Slot : r # p /\ pc[r] \in {"fork", "clone"} =>
             np[r] \in Slot /\ np[r] # q /\ state[np[r]] = "EMBRYO"
      BY <1>1 DEF FillsEmbryo
    <2> QED BY <1>1, <1>4, <1>5, <1>6, <2>1 DEF FillsEmbryo
  <1>12. InitLives'
    BY <1>2, <1>8, InitSlot DEF InitLives
  <1> QED BY <1>7, <1>9, <1>10, <1>11, <1>12

LEMMA AllocFailsTable ==
  ASSUME TypeOK, TableInv, NEW p \in Slot, AllocFails(p)
  PROVE  TableInv'
  <1> USE DEF TableInv
  <1> DEFINE q == np[p]
  <1>1. q \in Slot /\ state[q] = "EMBRYO" /\ p # q /\ CanRun(p)
    BY DEF AllocFails, FillsEmbryo, Running, CanRun
  <1>2. /\ state' = [state EXCEPT ![q] = "UNUSED"]
        /\ pc' = [pc EXCEPT ![p] = "user"]
        /\ np' = [np EXCEPT ![p] = NoSlot]
        /\ UNCHANGED << pid, parent, nextpid >>
    BY DEF AllocFails
  <1>3. \A r \in Slot : r # p /\ pc[r] \in {"fork", "clone"} => np[r] # q
    BY DEF FillsEmbryo, AllocFails
  <1> HIDE DEF q
  <1>4. state'[q] = "UNUSED" /\ \A r \in Slot : r # q => state'[r] = state[r]
    BY <1>1, <1>2 DEF TypeOK
  <1>5. /\ pc'[p] = "user"
        /\ \A r \in Slot : r # p => pc'[r] = pc[r] /\ np'[r] = np[r]
    BY <1>2 DEF TypeOK
  <1>6. /\ \A r \in Slot : InUse(r)' => InUse(r)
        /\ \A r \in Slot : CanRun(r)' <=> CanRun(r)
        /\ \A r \in Slot : (state'[r] = "ZOMBIE") <=> (state[r] = "ZOMBIE")
    BY <1>1, <1>4 DEF InUse, CanRun
  <1>7. PidUnique' /\ ParentIsAlive'
    BY <1>2, <1>6 DEF PidUnique, ParentIsAlive
  <1>8. CallersRun' /\ InitLives'
    BY <1>2, <1>5, <1>6, InitSlot DEF CallersRun, InitLives
  <1>9. FillsEmbryo'
    BY <1>3, <1>4, <1>5 DEF FillsEmbryo
  <1> QED BY <1>7, <1>8, <1>9

LEMMA FinishTable ==
  ASSUME TypeOK, TableInv, NEW p \in Slot, NEW space,
         Running(p), pc[p] \in {"fork", "clone"}, Finish(p, space)
  PROVE  TableInv'
  <1> USE DEF TableInv
  <1> DEFINE q == np[p]
  <1>1. q \in Slot /\ state[q] = "EMBRYO" /\ p # q /\ CanRun(p)
    BY DEF FillsEmbryo, Running, CanRun
  <1>2. /\ state' = [state EXCEPT ![q] = "RUNNABLE"]
        /\ parent' = [parent EXCEPT ![q] = p]
        /\ pc' = [pc EXCEPT ![p] = "user"]
        /\ np' = [np EXCEPT ![p] = NoSlot]
        /\ UNCHANGED << pid, nextpid >>
    BY DEF Finish
  <1>3. \A r \in Slot : r # p /\ pc[r] \in {"fork", "clone"} => np[r] # q
    BY DEF FillsEmbryo
  <1> HIDE DEF q
  <1>4. /\ state'[q] = "RUNNABLE" /\ parent'[q] = p
        /\ \A r \in Slot : r # q => state'[r] = state[r] /\ parent'[r] = parent[r]
    BY <1>1, <1>2 DEF TypeOK
  <1>5. /\ pc'[p] = "user"
        /\ \A r \in Slot : r # p => pc'[r] = pc[r] /\ np'[r] = np[r]
    BY <1>2 DEF TypeOK
  <1>6. /\ \A r \in Slot : InUse(r)' <=> InUse(r)
        /\ \A r \in Slot : CanRun(r) => CanRun(r)'
        /\ \A r \in Slot : r # q => /\ CanRun(r)' <=> CanRun(r)
                                    /\ (state'[r] = "ZOMBIE") <=> (state[r] = "ZOMBIE")
    BY <1>1, <1>4 DEF InUse, CanRun
  <1>7. PidUnique'
    BY <1>2, <1>6 DEF PidUnique
  <1>8. ParentIsAlive'
    BY <1>1, <1>4, <1>6 DEF ParentIsAlive
  <1>9. CallersRun'
    BY <1>5, <1>6 DEF CallersRun
  <1>10. FillsEmbryo'
    BY <1>3, <1>4, <1>5 DEF FillsEmbryo
  <1>11. InitLives'
    <2>1. initproc # q
      BY <1>1 DEF InitLives, CanRun
    <2> QED BY <2>1, <1>4, <1>6, InitSlot DEF InitLives
  <1> QED BY <1>7, <1>8, <1>9, <1>10, <1>11

(* exit ends p and otherwise only wakes sleepers.                          *)
LEMMA LeaveStates ==
  ASSUME TypeOK, NEW p \in Slot, Leave(p)
  PROVE  /\ state'[p] = "ZOMBIE"
         /\ \A r \in Slot : r # p => \/ state'[r] = state[r]
                                     \/ (state[r] = "SLEEPING" /\ state'[r] = "RUNNABLE")
  <1> DEFINE st1 == WakeParent(p)
             st2 == WakeInit(st1, p)
  <1>1. /\ st1 \in [Slot -> States]
        /\ \A r \in Slot : \/ st1[r] = state[r]
                           \/ (state[r] = "SLEEPING" /\ st1[r] = "RUNNABLE")
    BY WakeupType DEF WakeParent, TypeOK
  <1>2. st2 = st1 \/ st2 = wakeup1(st1, initproc)
    BY DEF WakeInit
  <1>3. state' = [st2 EXCEPT ![p] = "ZOMBIE"]
    BY DEF Leave
  <1> HIDE DEF st1, st2
  <1>4. /\ st2 \in [Slot -> States]
        /\ \A r \in Slot : \/ st2[r] = st1[r]
                           \/ (st1[r] = "SLEEPING" /\ st2[r] = "RUNNABLE")
    BY <1>1, <1>2, WakeupType
  <1> QED BY <1>1, <1>3, <1>4

LEMMA LeaveTable ==
  ASSUME TypeOK, TableInv, NEW p \in Slot,
         Running(p), pc[p] = "user", p # initproc, Leave(p)
  PROVE  TableInv'
  <1> USE DEF TableInv
  <1>1. /\ state'[p] = "ZOMBIE"
        /\ \A r \in Slot : r # p => \/ state'[r] = state[r]
                                    \/ (state[r] = "SLEEPING" /\ state'[r] = "RUNNABLE")
    BY LeaveStates
  <1>2. /\ \A r \in Slot : parent'[r] = IF parent[r] = p THEN initproc ELSE parent[r]
        /\ UNCHANGED << pid, nextpid, pc, np >>
    BY DEF Leave, GivesToInit, Children
  <1>3. CanRun(p) /\ state[p] = "RUNNING"
    BY DEF Running, CanRun
  <1>4. \A r \in Slot : r # p => /\ CanRun(r)' <=> CanRun(r)
                                 /\ InUse(r)' <=> InUse(r)
                                 /\ (state'[r] = "ZOMBIE") <=> (state[r] = "ZOMBIE")
                                 /\ (state'[r] = "EMBRYO") <=> (state[r] = "EMBRYO")
    BY <1>1 DEF CanRun, InUse
  <1>5. PidUnique'
    <2>1. \A r \in Slot : InUse(r)' => InUse(r)
      BY <1>3, <1>4 DEF InUse
    <2> QED BY <1>2, <2>1 DEF PidUnique
  <1>6. InitLives'
    BY <1>2, <1>4, InitSlot DEF InitLives
  <1>7. ParentIsAlive'
    <2> SUFFICES ASSUME NEW r \in Slot, CanRun(r)' \/ state'[r] = "ZOMBIE",
                        r # initproc
                 PROVE  (parent[r] \in Slot /\ CanRun(parent[r]))'
      BY DEF ParentIsAlive
    <2>1. parent[r] \in Slot /\ CanRun(parent[r])
      BY <1>3, <1>4 DEF ParentIsAlive
    <2>2. CASE parent[r] = p
      BY <2>2, <1>2, <1>6, InitSlot DEF InitLives
    <2>3. CASE parent[r] # p
      BY <2>1, <2>3, <1>2, <1>4
    <2> QED BY <2>2, <2>3
  <1>8. CallersRun'
    BY <1>2, <1>4 DEF CallersRun
  <1>9. FillsEmbryo'
    <2>1. \A r \in Slot : pc[r] \in {"fork", "clone"} => np[r] # p
      BY <1>3 DEF FillsEmbryo
    <2> QED BY <1>2, <1>4, <2>1 DEF FillsEmbryo
  <1> QED BY <1>5, <1>6, <1>7, <1>8, <1>9

LEMMA ReapTable ==
  ASSUME TypeOK, TableInv, NEW p \in Slot, NEW q \in Slot, NEW call,
         CanRun(p), state[q] = "ZOMBIE", parent[q] = p, Reap(q, call),
         pc' = [pc EXCEPT ![p] = "user"],
         UNCHANGED << nextpid, np >>
  PROVE  TableInv'
  <1> USE DEF TableInv
  <1>1. /\ state' = [state EXCEPT ![q] = "UNUSED"]
        /\ pid' = [pid EXCEPT ![q] = 0]
        /\ parent' = [parent EXCEPT ![q] = NoSlot]
    BY DEF Reap
  <1>2. /\ state'[q] = "UNUSED" /\ ~CanRun(q) /\ q # p /\ q # initproc
        /\ \A r \in Slot : r # q => /\ state'[r] = state[r]
                                    /\ pid'[r] = pid[r]
                                    /\ parent'[r] = parent[r]
    BY <1>1, InitSlot DEF TypeOK, CanRun, InitLives
  <1>3. /\ pc'[p] = "user"
        /\ \A r \in Slot : r # p => pc'[r] = pc[r]
    BY DEF TypeOK
  <1>4. /\ \A r \in Slot : InUse(r)' => InUse(r) /\ r # q
        /\ \A r \in Slot : CanRun(r)' <=> CanRun(r)
    BY <1>2 DEF InUse, CanRun
  <1>5. PidUnique'
    BY <1>2, <1>4 DEF PidUnique
  <1>6. ParentIsAlive'
    <2> SUFFICES ASSUME NEW r \in Slot, CanRun(r)' \/ state'[r] = "ZOMBIE",
                        r # initproc
                 PROVE  (parent[r] \in Slot /\ CanRun(parent[r]))'
      BY DEF ParentIsAlive
    <2>1. r # q /\ parent'[r] = parent[r] /\ (CanRun(r) \/ state[r] = "ZOMBIE")
      BY <1>2, <1>4
    <2>2. parent[r] \in Slot /\ CanRun(parent[r])
      BY <2>1 DEF ParentIsAlive
    <2> QED BY <1>4, <2>1, <2>2
  <1>7. CallersRun'
    BY <1>3, <1>4 DEF CallersRun
  <1>8. FillsEmbryo'
    <2>1. \A r \in Slot : pc'[r] \in {"fork", "clone"} =>
             pc[r] = pc'[r] /\ np[r] # q
      BY <1>3 DEF FillsEmbryo
    <2> QED BY <1>2, <2>1 DEF FillsEmbryo
  <1>9. InitLives'
    BY <1>2, <1>4, InitSlot DEF InitLives
  <1> QED BY <1>5, <1>6, <1>7, <1>8, <1>9

LEMMA CollectTable ==
  ASSUME TypeOK, TableInv, NEW p \in Slot, Collect(p)
  PROVE  TableInv'
  <1> DEFINE mine == Mine(p, pc[p])
             zombies == Collectable(mine)
  <1>1. CanRun(p) /\ state[p] = "RUNNING"
    BY DEF Collect, Running, CanRun
  <1>2. CASE zombies = {}
    <2>1. /\ UNCHANGED << pid, parent, nextpid, np >>
          /\ pc' = pc \/ pc' = [pc EXCEPT ![p] = "user"]
          /\ state' = state \/ state' = [state EXCEPT ![p] = "SLEEPING"]
      BY <1>2 DEF Collect
    <2>2. \A q \in Slot : state'[q] = state[q] \/ (CanRun(q) /\ CanRun(q)')
      BY <1>1, <2>1 DEF TypeOK, CanRun
    <2>3. \A q \in Slot : \/ pc'[q] = pc[q]
                          \/ (pc'[q] \notin {"fork", "clone"} /\ CanRun(q))
      BY <1>1, <2>1 DEF TypeOK
    <2> QED BY <2>1, <2>2, <2>3, QuietStep
  <1>3. CASE zombies # {}
    <2> DEFINE q == Min(zombies)
    <2>1. q \in zombies
      <3>1. zombies \in SUBSET Slot
        BY DEF Collectable, Mine, Children
      <3> QED BY <3>1, <1>3, MinSlot
    <2>2. q \in Slot /\ state[q] = "ZOMBIE" /\ parent[q] = p
      BY <2>1 DEF Collectable, Mine, Children
    <2>3. /\ Reap(q, pc[p])
          /\ pc' = [pc EXCEPT ![p] = "user"]
          /\ UNCHANGED << nextpid, np >>
      BY <1>3 DEF Collect
    <2> QED BY <1>1, <2>2, <2>3, ReapTable
  <1> QED BY <1>2, <1>3

LEMMA TableStep == TypeOK /\ TableInv /\ [Next]_vars => TableInv'
  <1> SUFFICES ASSUME TypeOK, TableInv, [Next]_vars PROVE TableInv'
    OBVIOUS
  <1>1. CASE Tick
    <2>1. state' = wakeup1(state, Ticks) /\ UNCHANGED << pid, parent, nextpid, np, pc >>
      BY <1>1 DEF Tick
    <2>2. \A q \in Slot : state'[q] = state[q] \/ (CanRun(q) /\ CanRun(q)')
      BY <2>1, WakeupType DEF CanRun, TypeOK
    <2> QED BY <2>1, <2>2, QuietStep
  <1>4. CASE InitFails
    <2>1. \A q \in Slot : \/ pc'[q] = pc[q]
                          \/ (pc'[q] \notin {"fork", "clone"} /\ CanRun(q))
      BY <1>4, InitFailsChanges, InitSlot DEF TypeOK
    <2> QED BY <1>4, <2>1, InitFailsChanges, QuietStep
  <1>2. ASSUME NEW p \in Slot, Step(p) \/ Yield(p) \/ Run(p) PROVE TableInv'
    <2>1. CASE ForkAlloc(p) \/ CloneAlloc(p)
      BY <2>1, AllocTable DEF ForkAlloc, CloneAlloc, Calls, InitMay
    <2>2. CASE AllocFails(p)
      BY <2>2, AllocFailsTable
    <2>3. CASE ForkFinish(p) \/ CloneFinish(p)
      BY <2>3, FinishTable DEF ForkFinish, CloneFinish
    <2>4. CASE Exit(p) \/ ExitKilled(p)
      BY <2>4, LeaveTable DEF Exit, ExitKilled, User
    <2>5. CASE Collect(p)
      BY <2>5, CollectTable
    <2>6. CASE EnterWait(p) \/ EnterJoin(p) \/ EnterSleep(p)
      <3>1. /\ Running(p) /\ pc' \in {[pc EXCEPT ![p] = c] : c \in {"wait", "join", "sleep"}}
            /\ UNCHANGED << state, pid, parent, nextpid, np >>
        BY <2>6 DEF EnterWait, EnterJoin, EnterSleep, Calls, InitMay, User
      <3>2. \A q \in Slot : \/ pc'[q] = pc[q]
                            \/ (pc'[q] \notin {"fork", "clone"} /\ CanRun(q))
        BY <3>1 DEF TypeOK, CanRun, Running
      <3> QED BY <3>1, <3>2, QuietStep
    <2>7. CASE exec(p)
      BY <2>7, QuietStep DEF exec
    <2>8. CASE \E n \in KillArgs : kill(p, n)
      <3>1. PICK n \in KillArgs : kill(p, n)
        BY <2>8
      <3> DEFINE t == Min(Target(n))
      <3>2. state' = [state EXCEPT ![t] = KillWakes(state[t])]
            /\ UNCHANGED << pid, parent, nextpid, np, pc >>
        BY <3>1 DEF kill
      <3> HIDE DEF t
      <3>3. \A q \in Slot : state'[q] = state[q] \/ (CanRun(q) /\ CanRun(q)')
        BY <3>2 DEF TypeOK, CanRun, KillWakes
      <3> QED BY <3>2, <3>3, QuietStep
    <2>9. CASE SleepTest(p) \/ SleepOnTicks(p)
      <3>1. /\ Running(p) /\ pc[p] \in {"sleep", "sleep1"}
            /\ \E c \in {"user", "sleep", "sleep1"} : pc' = [pc EXCEPT ![p] = c]
            /\ state' = state \/ state' = [state EXCEPT ![p] = "SLEEPING"]
            /\ UNCHANGED << pid, parent, nextpid, np >>
        BY <2>9 DEF SleepTest, SleepOnTicks
      <3>2. /\ \A q \in Slot : state'[q] = state[q] \/ (CanRun(q) /\ CanRun(q)')
            /\ \A q \in Slot : \/ pc'[q] = pc[q]
                               \/ (pc'[q] \notin {"fork", "clone"} /\ CanRun(q))
        BY <3>1 DEF TypeOK, CanRun, Running
      <3> QED BY <3>1, <3>2, QuietStep
    <2>10. CASE Yield(p) \/ Run(p)
      <3>1. /\ state[p] \in {"RUNNING", "RUNNABLE"}
            /\ \E s \in {"RUNNING", "RUNNABLE"} : state' = [state EXCEPT ![p] = s]
            /\ UNCHANGED << pid, parent, nextpid, np, pc >>
        BY <2>10 DEF Yield, Run, Running
      <3>2. \A q \in Slot : state'[q] = state[q] \/ (CanRun(q) /\ CanRun(q)')
        BY <3>1 DEF TypeOK, CanRun
      <3> QED BY <3>1, <3>2, QuietStep
    <2> QED BY <1>2, <2>1, <2>2, <2>3, <2>4, <2>5, <2>6, <2>7, <2>8, <2>9, <2>10
            DEF Step, Continue
  <1>3. CASE UNCHANGED vars
    <2>1. UNCHANGED << state, pid, parent, nextpid, np, pc >>
      BY <1>3 DEF vars
    <2> QED BY <2>1, QuietStep
  <1> QED BY <1>1, <1>2, <1>3, <1>4 DEF Next

LEMMA Invariant == Spec => []IInv
  <1>1. IInv /\ [Next]_vars => IInv'
    BY TypeStep, TableStep DEF IInv
  <1> QED BY <1>1, InitInv, PTL DEF Spec

(* Every slot keeps a state, and every process that is created is typed    *)
(* (what init keeps as its shell's pid is the pid of the slot it filled).  *)
THEOREM TypeCorrect == Spec => []TypeOK
  <1>1. IInv => TypeOK
    BY DEF IInv
  <1> QED BY <1>1, Invariant, PTL

(* allocproc never hands out a pid that a slot in use still has, whatever  *)
(* fork, clone, wait and join do at the same time.                         *)
THEOREM PidsUnique == Spec => []PidUnique
  <1>1. IInv => PidUnique
    BY DEF IInv, TableInv
  <1> QED BY <1>1, Invariant, PTL

(* exit leaves no child without a living parent: wait and join always find *)
(* somebody to run them, also when children and parents end at once.       *)
THEOREM ParentsAlive == Spec => []ParentIsAlive
  <1>1. IInv => ParentIsAlive
    BY DEF IInv, TableInv
  <1> QED BY <1>1, Invariant, PTL

---------------------------------------------------------------------------
(* The table implements Lifecycle. *)

\* What Life says of each pid, for any slot that has it.
LifeIs ==
  \A n \in 1 .. MaxPid :
    /\ n >= nextpid => Life[n] = "unborn"
    /\ n < nextpid /\ (\A p \in Slot : ~ (InUse(p) /\ pid[p] = n)) => Life[n] = "gone"
    /\ \A p \in Slot : InUse(p) /\ pid[p] = n => Life[n] = PhaseOf(p)

LEMMA LifeIsSo == IInv => LifeIs
  <1> SUFFICES ASSUME IInv, NEW n \in 1 .. MaxPid
               PROVE  /\ n >= nextpid => Life[n] = "unborn"
                      /\ n < nextpid /\ (\A p \in Slot : ~ (InUse(p) /\ pid[p] = n))
                           => Life[n] = "gone"
                      /\ \A p \in Slot : InUse(p) /\ pid[p] = n => Life[n] = PhaseOf(p)
    BY DEF LifeIs
  <1> DEFINE holder == {p \in Slot : InUse(p) /\ pid[p] = n}
  <1>1. Life[n] = IF n >= nextpid THEN "unborn"
                  ELSE IF holder = {} THEN "gone" ELSE PhaseOf(Min(holder))
    BY DEF Life
  <1>2. n \in Int /\ nextpid \in Int
    BY DEF IInv, TypeOK
  <1>3. ASSUME NEW p \in Slot, InUse(p), pid[p] = n
        PROVE  Life[n] = PhaseOf(p)
    <2>1. ~ (n >= nextpid)
      BY <1>3, <1>2 DEF IInv, TableInv, PidUnique
    <2>2. Min(holder) \in holder
      BY <1>3, MinSlot
    <2>3. Min(holder) = p
      BY <1>3, <2>2 DEF IInv, TableInv, PidUnique
    <2> QED BY <1>1, <1>3, <2>1, <2>3
  <1> QED BY <1>1, <1>2, <1>3

LEMMA LifeIsSoNext == IInv' => LifeIs'
  BY LifeIsSo, PTL

(* A pid is where it was when the slots that have it are in their phase.   *)
LEMMA LifeStays ==
  ASSUME IInv, IInv', NEW n \in 1 .. MaxPid,
         (n >= nextpid') <=> (n >= nextpid),
         \A p \in Slot : InUse(p) /\ pid[p] = n =>
            InUse(p)' /\ pid'[p] = n /\ PhaseOf(p)' = PhaseOf(p),
         \A p \in Slot : InUse(p)' /\ pid'[p] = n => InUse(p) /\ pid[p] = n
  PROVE  Life'[n] = Life[n]
  <1>1. LifeIs /\ LifeIs'
    BY LifeIsSo, LifeIsSoNext
  <1>2. n \in Int /\ nextpid \in Int /\ nextpid' \in Int
    BY DEF IInv, TypeOK
  <1>3. CASE n >= nextpid
    BY <1>1, <1>3 DEF LifeIs
  <1>4. CASE n < nextpid /\ \A p \in Slot : ~ (InUse(p) /\ pid[p] = n)
    <2>1. n < nextpid' /\ \A p \in Slot : ~ (InUse(p)' /\ pid'[p] = n)
      BY <1>2, <1>4
    <2> QED BY <1>1, <1>4, <2>1 DEF LifeIs
  <1>5. CASE \E p \in Slot : InUse(p) /\ pid[p] = n
    <2>1. PICK p \in Slot : InUse(p) /\ pid[p] = n
      BY <1>5
    <2>2. Life[n] = PhaseOf(p)
      BY <1>1, <2>1 DEF LifeIs
    <2>3. Life'[n] = PhaseOf(p)'
      BY <1>1, <2>1 DEF LifeIs
    <2> QED BY <2>1, <2>2, <2>3
  <1> QED BY <1>2, <1>3, <1>4, <1>5

LEMMA LifeFunction ==
  /\ Life = [n \in 1 .. MaxPid |-> Life[n]]
  /\ Life' = [n \in 1 .. MaxPid |-> Life'[n]]
  BY DEF Life

\* One pid goes one phase further, or none does.
LifeMoves == Life' = Life \/ \E n \in 1 .. MaxPid : Abstract!Advance(n)

(* Slot q changes its phase with its pid n, the others keep theirs.        *)
LEMMA OneMoves ==
  ASSUME IInv, IInv', NEW q \in Slot, NEW n \in 1 .. MaxPid,
         << Life[n], Life'[n] >> \in Abstract!Allowed,
         InUse(q) => pid[q] = n, InUse(q)' => pid'[q] = n,
         \A p \in Slot : p # q =>
            /\ InUse(p)' <=> InUse(p)
            /\ pid'[p] = pid[p] /\ PhaseOf(p)' = PhaseOf(p),
         \A m \in 1 .. MaxPid : m # n => (m >= nextpid' <=> m >= nextpid)
  PROVE  LifeMoves
  <1>1. \A m \in 1 .. MaxPid : m # n => Life'[m] = Life[m]
    BY LifeStays
  <1>2. Life' = [Life EXCEPT ![n] = Life'[n]]
    BY <1>1, LifeFunction
  <1>3. Life'[n] \in Abstract!Phase
    BY DEF Abstract!Allowed, Abstract!Phase
  <1>4. Abstract!Advance(n)
    BY <1>2, <1>3 DEF Abstract!Advance
  <1> QED BY <1>4 DEF LifeMoves

LEMMA NoneMoves ==
  ASSUME IInv, IInv', UNCHANGED << pid, nextpid >>,
         \A p \in Slot : state'[p] = state[p] \/ (CanRun(p) /\ CanRun(p)')
  PROVE  LifeMoves
  <1>1. \A p \in Slot : (InUse(p)' <=> InUse(p)) /\ PhaseOf(p)' = PhaseOf(p)
    BY DEF InUse, CanRun, PhaseOf
  <1>2. \A n \in 1 .. MaxPid : Life'[n] = Life[n]
    BY <1>1, LifeStays
  <1> QED BY <1>2, LifeFunction DEF LifeMoves

LEMMA AllocLife ==
  ASSUME IInv, IInv', NEW p \in Slot, NEW call, allocproc(p, call)
  PROVE  LifeMoves
  <1>1. PICK q \in Slot : q = Min(FreeSlots) /\ state[q] = "UNUSED"
    <2>1. FreeSlots \in SUBSET Slot /\ FreeSlots # {}
      BY DEF allocproc, FreeSlots
    <2> QED BY <2>1, MinSlot DEF FreeSlots
  <1>2. /\ state' = [state EXCEPT ![q] = "EMBRYO"]
        /\ pid' = [pid EXCEPT ![q] = nextpid]
        /\ nextpid' = nextpid + 1 /\ nextpid <= MaxPid
    BY <1>1 DEF allocproc, NewPid
  <1>3. /\ state'[q] = "EMBRYO" /\ pid'[q] = nextpid
        /\ \A r \in Slot : r # q => state'[r] = state[r] /\ pid'[r] = pid[r]
    BY <1>1, <1>2 DEF IInv, TypeOK
  <1>4. nextpid \in 1 .. MaxPid /\ nextpid \in Int
    BY <1>2 DEF IInv, TypeOK
  <1>5. InUse(q)' /\ ~InUse(q) /\ PhaseOf(q)' = "embryo"
    BY <1>1, <1>3 DEF InUse, PhaseOf
  <1>6. \A r \in Slot : r # q => (InUse(r)' <=> InUse(r)) /\ PhaseOf(r)' = PhaseOf(r)
    BY <1>3 DEF InUse, PhaseOf
  <1>7. Life[nextpid] = "unborn" /\ Life'[nextpid] = "embryo"
    BY <1>3, <1>4, <1>5, LifeIsSo, LifeIsSoNext DEF LifeIs
  <1>8. << Life[nextpid], Life'[nextpid] >> \in Abstract!Allowed
    BY <1>7 DEF Abstract!Allowed
  <1>9. \A m \in 1 .. MaxPid : m # nextpid => (m >= nextpid' <=> m >= nextpid)
    BY <1>2, <1>4
  <1>10. PICK n \in 1 .. MaxPid : n = nextpid
    BY <1>4
  <1> QED BY <1>3, <1>5, <1>6, <1>8, <1>9, <1>10, OneMoves

(* A step after which slot q, which has its pid, is in another phase.      *)
LEMMA SlotMoves ==
  ASSUME IInv, IInv', NEW q \in Slot, InUse(q), nextpid' = nextpid,
         \A p \in Slot : p # q =>
            pid'[p] = pid[p] /\ (state'[p] = state[p] \/ (CanRun(p) /\ CanRun(p)')),
         \/ /\ state'[q] = "UNUSED"
            /\ PhaseOf(q) \in {"embryo", "dead"}
         \/ /\ pid'[q] = pid[q]
            /\ \/ PhaseOf(q) = "embryo" /\ state'[q] = "RUNNABLE"
               \/ PhaseOf(q) = "alive" /\ state'[q] = "ZOMBIE"
  PROVE  LifeMoves
  <1>1. PICK n \in 1 .. MaxPid : n = pid[q]
    BY DEF IInv, TableInv, PidUnique, TypeOK
  <1>2. \A p \in Slot : p # q => /\ InUse(p)' <=> InUse(p)
                                 /\ pid'[p] = pid[p] /\ PhaseOf(p)' = PhaseOf(p)
    BY DEF InUse, CanRun, PhaseOf
  <1>3. Life[n] = PhaseOf(q)
    BY <1>1, LifeIsSo DEF LifeIs
  <1>4. CASE state'[q] = "UNUSED" /\ PhaseOf(q) \in {"embryo", "dead"}
    <2>1. ~InUse(q)'
      BY <1>4 DEF InUse
    <2>2. n < nextpid' /\ \A p \in Slot : ~ (InUse(p)' /\ pid'[p] = n)
      BY <1>1, <1>2, <2>1 DEF IInv, TableInv, PidUnique, TypeOK
    <2>3. Life'[n] = "gone"
      BY <2>2, LifeIsSoNext DEF LifeIs
    <2>4. << Life[n], Life'[n] >> \in Abstract!Allowed
      BY <1>3, <1>4, <2>3 DEF Abstract!Allowed
    <2> QED BY <1>1, <1>2, <2>1, <2>4, OneMoves
  <1>5. CASE /\ pid'[q] = pid[q]
             /\ \/ PhaseOf(q) = "embryo" /\ state'[q] = "RUNNABLE"
                \/ PhaseOf(q) = "alive" /\ state'[q] = "ZOMBIE"
    <2>1. /\ InUse(q)'
          /\ << PhaseOf(q), PhaseOf(q)' >> \in {<< "embryo", "alive" >>, << "alive", "dead" >>}
      BY <1>5 DEF InUse, PhaseOf
    <2>2. Life'[n] = PhaseOf(q)'
      BY <1>1, <1>5, <2>1, LifeIsSoNext DEF LifeIs
    <2>3. << Life[n], Life'[n] >> \in Abstract!Allowed
      BY <1>3, <2>1, <2>2 DEF Abstract!Allowed
    <2> QED BY <1>1, <1>2, <1>5, <2>3, OneMoves
  <1> QED BY <1>4, <1>5

LEMMA LifeStep ==
  ASSUME IInv, IInv', [Next]_vars
  PROVE  LifeMoves
  <1> USE DEF IInv, TableInv
  <1>1. CASE Tick
    <2>1. state' = wakeup1(state, Ticks) /\ UNCHANGED << pid, nextpid >>
      BY <1>1 DEF Tick
    <2>2. \A q \in Slot : state'[q] = state[q] \/ (CanRun(q) /\ CanRun(q)')
      BY <2>1, WakeupType DEF CanRun, TypeOK
    <2> QED BY <2>1, <2>2, NoneMoves
  <1>4. CASE InitFails
    BY <1>4, InitFailsChanges, NoneMoves
  <1>2. ASSUME NEW p \in Slot, Step(p) \/ Yield(p) \/ Run(p) PROVE LifeMoves
    <2>1. CASE ForkAlloc(p) \/ CloneAlloc(p)
      BY <2>1, AllocLife DEF ForkAlloc, CloneAlloc
    <2>2. CASE AllocFails(p) \/ ForkFinish(p) \/ CloneFinish(p)
      <3>1. PICK q \in Slot : q = np[p] /\ state[q] = "EMBRYO"
        BY <2>2 DEF FillsEmbryo, AllocFails, ForkFinish, CloneFinish
      <3>2. /\ \E s \in {"UNUSED", "RUNNABLE"} : state' = [state EXCEPT ![q] = s]
            /\ UNCHANGED << pid, nextpid >>
        BY <2>2, <3>1 DEF AllocFails, ForkFinish, CloneFinish, Finish
      <3>3. /\ state'[q] \in {"UNUSED", "RUNNABLE"}
            /\ \A r \in Slot : r # q => state'[r] = state[r]
        BY <3>2 DEF TypeOK
      <3>4. InUse(q) /\ PhaseOf(q) = "embryo"
        BY <3>1 DEF InUse, PhaseOf
      <3> QED BY <3>2, <3>3, <3>4, SlotMoves
    <2>3. CASE Exit(p) \/ ExitKilled(p)
      <3>1. Leave(p) /\ state[p] = "RUNNING"
        BY <2>3 DEF Exit, ExitKilled, User, Running
      <3>2. /\ state'[p] = "ZOMBIE" /\ UNCHANGED << pid, nextpid >>
            /\ \A r \in Slot : r # p => \/ state'[r] = state[r]
                                        \/ CanRun(r) /\ CanRun(r)'
        BY <3>1, LeaveStates DEF CanRun, Leave
      <3>3. InUse(p) /\ PhaseOf(p) = "alive"
        BY <3>1 DEF InUse, PhaseOf
      <3> QED BY <3>2, <3>3, SlotMoves
    <2>4. CASE Collect(p)
      <3> DEFINE zombies == Collectable(Mine(p, pc[p]))
      <3>1. CASE zombies = {}
        <4>1. /\ UNCHANGED << pid, nextpid >> /\ state[p] = "RUNNING"
              /\ state' = state \/ state' = [state EXCEPT ![p] = "SLEEPING"]
          BY <2>4, <3>1 DEF Collect, Running
        <4>2. \A q \in Slot : state'[q] = state[q] \/ (CanRun(q) /\ CanRun(q)')
          BY <4>1 DEF TypeOK, CanRun
        <4> QED BY <4>1, <4>2, NoneMoves
      <3>2. CASE zombies # {}
        <4>1. zombies \in SUBSET Slot
          BY DEF Collectable, Mine, Children
        <4>2. PICK q \in zombies : q = Min(zombies)
          BY <3>2, <4>1, MinSlot
        <4>3. q \in Slot /\ state[q] = "ZOMBIE"
          BY <4>1, <4>2 DEF Collectable
        <4>4. /\ state' = [state EXCEPT ![q] = "UNUSED"]
              /\ pid' = [pid EXCEPT ![q] = 0] /\ nextpid' = nextpid
          BY <2>4, <3>2, <4>2 DEF Collect, Reap
        <4>5. /\ state'[q] = "UNUSED"
              /\ \A r \in Slot : r # q => state'[r] = state[r] /\ pid'[r] = pid[r]
          BY <4>3, <4>4 DEF TypeOK
        <4>6. InUse(q) /\ PhaseOf(q) = "dead"
          BY <4>3 DEF InUse, PhaseOf
        <4> QED BY <4>3, <4>4, <4>5, <4>6, SlotMoves
      <3> QED BY <3>1, <3>2
    <2>5. CASE EnterWait(p) \/ EnterJoin(p) \/ EnterSleep(p) \/ exec(p)
      <3>1. UNCHANGED << state, pid, nextpid >>
        BY <2>5 DEF EnterWait, EnterJoin, EnterSleep, exec
      <3> QED BY <3>1, NoneMoves
    <2>6. CASE \E n \in KillArgs : kill(p, n)
      <3>1. PICK n \in KillArgs : kill(p, n)
        BY <2>6
      <3> DEFINE t == Min(Target(n))
      <3>2. state' = [state EXCEPT ![t] = KillWakes(state[t])]
            /\ UNCHANGED << pid, nextpid >>
        BY <3>1 DEF kill
      <3> HIDE DEF t
      <3>3. \A q \in Slot : state'[q] = state[q] \/ (CanRun(q) /\ CanRun(q)')
        BY <3>2 DEF TypeOK, CanRun, KillWakes
      <3> QED BY <3>2, <3>3, NoneMoves
    <2>7. CASE SleepTest(p) \/ SleepOnTicks(p) \/ Yield(p) \/ Run(p)
      <3>1. /\ CanRun(p) /\ UNCHANGED << pid, nextpid >>
            /\ \/ state' = state
               \/ \E s \in {"SLEEPING", "RUNNING", "RUNNABLE"} :
                     state' = [state EXCEPT ![p] = s]
        BY <2>7 DEF SleepTest, SleepOnTicks, Yield, Run, Running, CanRun
      <3>2. \A q \in Slot : state'[q] = state[q] \/ (CanRun(q) /\ CanRun(q)')
        BY <3>1 DEF TypeOK, CanRun
      <3> QED BY <3>1, <3>2, NoneMoves
    <2> QED BY <1>2, <2>1, <2>2, <2>3, <2>4, <2>5, <2>6, <2>7 DEF Step, Continue
  <1>3. CASE UNCHANGED vars
    <2>1. UNCHANGED << state, pid, nextpid >>
      BY <1>3 DEF vars
    <2> QED BY <2>1, NoneMoves
  <1> QED BY <1>1, <1>2, <1>3, <1>4 DEF Next

(* Whatever slots the processes move through: a pid is born once, lives,   *)
(* is dead until it is collected, and does not come back (allocproc, fork, *)
(* clone, exit, wait, join).                                               *)
THEOREM LifecycleImplemented == Spec => ImplementsLifecycle
  <1>1. Init => Abstract!Init
    <2> SUFFICES ASSUME Init PROVE Life = [n \in 1 .. MaxPid |-> IF n = 1 THEN "alive" ELSE "unborn"]
      BY DEF Abstract!Init
    <2>1. LifeIs /\ nextpid = 2
      BY InitInv, LifeIsSo DEF Init
    <2>2. InUse(initproc) /\ pid[initproc] = 1 /\ PhaseOf(initproc) = "alive"
      BY InitSlot DEF Init, InUse, PhaseOf
    <2>3. \A n \in 1 .. MaxPid : Life[n] = IF n = 1 THEN "alive" ELSE "unborn"
      BY <2>1, <2>2, InitSlot DEF LifeIs
    <2> QED BY <2>3, LifeFunction
  <1>2. IInv /\ IInv' /\ [Next]_vars => [Abstract!Next]_Life
    BY LifeStep DEF LifeMoves, Abstract!Next
  <1> QED BY <1>1, <1>2, Invariant, PTL DEF Spec, ImplementsLifecycle, Abstract!Spec

---------------------------------------------------------------------------
(* Who is marked as killed. *)

\* An empty slot bears no mark, and has no pid by which kill could find it.
Marks ==
  /\ \A q \in Slot : ~InUse(q) => ~killed[q] /\ pid[q] = 0
  /\ KilledWasNamed

(* A step that leaves the marks and the pids, and fills or empties no slot *)
(* that has a mark.                                                        *)
LEMMA MarksStay ==
  ASSUME Marks, UNCHANGED << pid, killed, named >>,
         \A q \in Slot : InUse(q)' <=> InUse(q)
  PROVE  Marks'
  BY DEF Marks, KilledWasNamed

LEMMA MarksStep ==
  ASSUME 0 \notin KillArgs, ~MemoryFails, IInv, Marks, [Next]_vars
  PROVE  Marks'
  <1> USE DEF IInv, TableInv
  <1>1. CASE Tick
    <2>1. \A q \in Slot : InUse(q)' <=> InUse(q)
      BY <1>1, WakeupType DEF Tick, InUse, TypeOK
    <2> QED BY <1>1, <2>1, MarksStay DEF Tick
  <1>4. CASE InitFails
    BY <1>4, InitFailsChanges, MarksStay DEF InUse
  <1>2. ASSUME NEW p \in Slot, Step(p) \/ Yield(p) \/ Run(p) PROVE Marks'
    <2>1. CASE ForkAlloc(p) \/ CloneAlloc(p)
      <3>1. PICK call : allocproc(p, call)
        BY <2>1 DEF ForkAlloc, CloneAlloc
      <3>2. PICK q \in Slot : q = Min(FreeSlots) /\ state[q] = "UNUSED"
        <4>1. FreeSlots \in SUBSET Slot /\ FreeSlots # {}
          BY <3>1 DEF allocproc, FreeSlots
        <4> QED BY <4>1, MinSlot DEF FreeSlots
      <3>3. /\ state' = [state EXCEPT ![q] = "EMBRYO"]
            /\ pid' = [pid EXCEPT ![q] = nextpid]
            /\ UNCHANGED << killed, named >>
        BY <3>1, <3>2 DEF allocproc
      <3>4. \A r \in Slot : r # q => (InUse(r)' <=> InUse(r)) /\ pid'[r] = pid[r]
        BY <3>3 DEF TypeOK, InUse
      <3>5. InUse(q)' /\ ~killed'[q]
        BY <3>2, <3>3 DEF TypeOK, InUse, Marks
      <3> QED BY <3>3, <3>4, <3>5 DEF Marks, KilledWasNamed
    <2>2. CASE AllocFails(p)
      BY <2>2 DEF AllocFails
    <2>3. CASE ForkFinish(p) \/ CloneFinish(p)
      <3>1. np[p] \in Slot /\ state[np[p]] = "EMBRYO"
        BY <2>3 DEF FillsEmbryo, ForkFinish, CloneFinish
      <3>2. state' = [state EXCEPT ![np[p]] = "RUNNABLE"] /\ UNCHANGED << pid, killed, named >>
        BY <2>3 DEF ForkFinish, CloneFinish, Finish
      <3>3. \A q \in Slot : InUse(q)' <=> InUse(q)
        BY <3>1, <3>2 DEF TypeOK, InUse
      <3> QED BY <3>2, <3>3, MarksStay
    <2>4. CASE Exit(p) \/ ExitKilled(p)
      <3>1. Leave(p) /\ state[p] = "RUNNING"
        BY <2>4 DEF Exit, ExitKilled, User, Running
      <3>2. \A q \in Slot : InUse(q)' <=> InUse(q)
        BY <3>1, LeaveStates DEF InUse
      <3> QED BY <3>1, <3>2, MarksStay DEF Leave
    <2>5. CASE Collect(p)
      <3> DEFINE zombies == Collectable(Mine(p, pc[p]))
      <3>1. CASE zombies = {}
        <4>1. /\ UNCHANGED << pid, killed, named >> /\ state[p] = "RUNNING"
              /\ state' = state \/ state' = [state EXCEPT ![p] = "SLEEPING"]
          BY <2>5, <3>1 DEF Collect, Running
        <4>2. \A q \in Slot : InUse(q)' <=> InUse(q)
          BY <4>1 DEF TypeOK, InUse
        <4> QED BY <4>1, <4>2, MarksStay
      <3>2. CASE zombies # {}
        <4>1. zombies \in SUBSET Slot
          BY DEF Collectable, Mine, Children
        <4>2. PICK q \in zombies : q = Min(zombies)
          BY <3>2, <4>1, MinSlot
        <4>3. /\ state' = [state EXCEPT ![q] = "UNUSED"]
              /\ pid' = [pid EXCEPT ![q] = 0]
              /\ killed' = [killed EXCEPT ![q] = FALSE] /\ named' = named
          BY <2>5, <3>2, <4>2 DEF Collect, Reap, Unkilled
        <4>4. /\ ~InUse(q)' /\ ~killed'[q] /\ pid'[q] = 0
              /\ \A r \in Slot : r # q => /\ InUse(r)' <=> InUse(r)
                                          /\ pid'[r] = pid[r] /\ killed'[r] = killed[r]
          BY <4>1, <4>3 DEF TypeOK, InUse
        <4> QED BY <4>3, <4>4 DEF Marks, KilledWasNamed
      <3> QED BY <3>1, <3>2
    <2>6. CASE EnterWait(p) \/ EnterJoin(p) \/ EnterSleep(p) \/ exec(p)
      <3>1. UNCHANGED << state, pid, killed, named >>
        BY <2>6 DEF EnterWait, EnterJoin, EnterSleep, exec
      <3> QED BY <3>1, MarksStay DEF InUse
    <2>7. CASE \E n \in KillArgs : kill(p, n)
      <3>1. PICK n \in KillArgs : kill(p, n)
        BY <2>7
      <3>2. PICK t \in Slot : t = Min(Target(n)) /\ pid[t] = n
        <4>1. Target(n) \in SUBSET Slot /\ Target(n) # {}
          BY <3>1 DEF kill, Target
        <4> QED BY <4>1, MinSlot DEF Target
      <3>3. /\ killed' = [killed EXCEPT ![t] = TRUE]
            /\ state' = [state EXCEPT ![t] = KillWakes(state[t])]
            /\ named' = named \cup {n} /\ pid' = pid
        BY <3>1, <3>2 DEF kill
      <3>4. InUse(t) /\ n # 0
        BY <3>2 DEF Marks
      <3>5. \A q \in Slot : InUse(q)' <=> InUse(q)
        BY <3>3, <3>4 DEF TypeOK, InUse, KillWakes
      <3>6. \A q \in Slot : q # t => killed'[q] = killed[q]
        BY <3>3 DEF TypeOK
      <3> QED BY <3>2, <3>3, <3>4, <3>5, <3>6 DEF Marks, KilledWasNamed
    <2>8. CASE SleepTest(p) \/ SleepOnTicks(p) \/ Yield(p) \/ Run(p)
      <3>1. /\ InUse(p) /\ UNCHANGED << pid, killed, named >>
            /\ \/ state' = state
               \/ \E s \in {"SLEEPING", "RUNNING", "RUNNABLE"} :
                     state' = [state EXCEPT ![p] = s]
        BY <2>8 DEF SleepTest, SleepOnTicks, Yield, Run, Running, InUse
      <3>2. \A q \in Slot : InUse(q)' <=> InUse(q)
        BY <3>1 DEF TypeOK, InUse
      <3> QED BY <3>1, <3>2, MarksStay
    <2> QED BY <1>2, <2>1, <2>2, <2>3, <2>4, <2>5, <2>6, <2>7, <2>8 DEF Step, Continue
  <1>3. CASE UNCHANGED vars
    BY <1>3, MarksStay DEF vars, InUse
  <1> QED BY <1>1, <1>2, <1>3, <1>4 DEF Next

(* kill ends nobody but whom it names, when programs do not pass 0 and no  *)
(* fork fails: no slot hands a mark, or a pid to be marked by, on to the   *)
(* next process in it (kill, wait, join, allocproc).                       *)
THEOREM KilledNamed ==
  0 \notin KillArgs /\ ~MemoryFails /\ Spec => []KilledWasNamed
  <1> DEFINE Fair == 0 \notin KillArgs /\ ~MemoryFails
  <1>1. Init /\ Fair => Fair /\ Marks
    BY DEF Init, Marks, KilledWasNamed, InUse
  <1>2. (Fair /\ Marks) /\ IInv /\ [Next]_vars => (Fair /\ Marks)'
    BY MarksStep
  <1>3. Fair /\ Marks => KilledWasNamed
    BY DEF Marks
  <1> HIDE DEF Fair
  <1>4. Fair /\ Spec => []KilledWasNamed
    BY <1>1, <1>2, <1>3, Invariant, PTL DEF Spec
  <1> QED BY <1>4 DEF Fair

---------------------------------------------------------------------------
(***************************************************************************)
(* Theorems about the threads, the address spaces and the sleepers of Proc *)
(* for programs that join their threads before they end (JoinFirst), for   *)
(* every size of the process table and every set of system calls.          *)
(*                                                                         *)
(* wait and join tell threads from other children by comparing address     *)
(* spaces; num_child counts by pid.  The invariant says that both mean the *)
(* same: a thread is alive together with its creator, whose address space  *)
(* and pid it names, every other process has a space of its own, and what  *)
(* is about to end has no thread.                                          *)
(***************************************************************************)

\* A process that has not been collected.
Lives(q) == CanRun(q) \/ state[q] = "ZOMBIE"

\* A slot that is not a process is nobody's child and has no stack; one that
\* is being filled has no creator and no threads.
Unborn ==
  /\ \A q \in Slot : ~Lives(q) => parent[q] = NoSlot /\ ~kstack[q]
  /\ \A q \in Slot : state[q] = "EMBRYO" => parent_pid[q] = -1 /\ num_child[q] = 0

\* A thread's parent is the process that made it, which can run, is no
\* thread itself and shares its space.
ThreadsBelong ==
  \A q \in Slot : Lives(q) /\ IsThread(q) =>
     /\ parent[q] \in Slot /\ CanRun(parent[q]) /\ ~IsThread(parent[q])
     /\ parent_pid[q] = pid[parent[q]] /\ pgdir[q] = pgdir[parent[q]]

\* Every process has an allocated space, and no two that are not threads the
\* same, nor such a process that of its parent.
OwnSpaces ==
  /\ \A q \in Slot : Lives(q) => pgdir[q] \in live
  /\ \A q, r \in Slot :
        Lives(q) /\ Lives(r) /\ ~IsThread(q) /\ ~IsThread(r) /\ q # r
          => pgdir[q] # pgdir[r]
  /\ \A q \in Slot : Lives(q) /\ ~IsThread(q) /\ q # initproc
                       => pgdir[parent[q]] # pgdir[q]

SpacesUsed ==
  /\ ~badfree
  /\ \A s \in live : \E q \in Slot : Lives(q) /\ pgdir[q] = s

\* No child shares p's space.
Alone(p) == \A q \in Slot : ~ (parent[q] = p /\ pgdir[q] = pgdir[p])

\* Who is killed has no threads and makes none; threads make none either.
EndsAlone ==
  \A p \in Slot : /\ CanRun(p) /\ killed[p] => Alone(p) /\ pc[p] # "clone"
                  /\ pc[p] = "clone" => ~IsThread(p)

\* What p waits for in wait or join.
Awaits(p, q) ==
  parent[q] = p /\ ((pgdir[q] = pgdir[p]) <=> (pc[p] = "join"))

WaitsInCall(p) == state[p] = "SLEEPING" /\ pc[p] \in {"wait", "join"}

\* SleeperHasReason, and the channel on which the children will wake p.
Reasons ==
  \A p \in Slot : WaitsInCall(p) =>
     /\ chan[p] = p
     /\ \E q \in Slot : Awaits(p, q)
     /\ \A q \in Slot : Awaits(p, q) => state[q] # "ZOMBIE"

\* The threads that num_child[p] counts.
Made(p) == {q \in Slot : Lives(q) /\ parent_pid[q] = pid[p]}
Counted == \A p \in Slot : CanRun(p) => num_child[p] = Cardinality(Made(p))

TInv == /\ Unborn /\ ThreadsBelong /\ OwnSpaces /\ SpacesUsed /\ EndsAlone
        /\ Reasons /\ Counted

---------------------------------------------------------------------------
(* The parts of the invariant and the properties. *)

LEMMA AloneIsNoThreads ==
  ASSUME NEW p \in Slot
  PROVE  Alone(p) <=> Threads(p) = {}
  BY DEF Alone, Threads, Children

LEMMA MineIsAwaited ==
  ASSUME NEW p \in Slot, pc[p] \in {"wait", "join"}
  PROVE  \A q \in Slot : q \in Mine(p, pc[p]) <=> Awaits(p, q)
  BY DEF Mine, Children, Awaits

LEMMA SleepersImply == Reasons => SleeperHasReason
  <1> SUFFICES ASSUME Reasons, NEW p \in Slot, state[p] = "SLEEPING",
                      pc[p] \in {"wait", "join"}
               PROVE  /\ Mine(p, pc[p]) # {}
                      /\ \A q \in Mine(p, pc[p]) : state[q] # "ZOMBIE"
    BY DEF SleeperHasReason
  <1>1. /\ \E q \in Slot : Awaits(p, q)
        /\ \A q \in Slot : Awaits(p, q) => state[q] # "ZOMBIE"
    BY DEF Reasons, WaitsInCall
  <1>2. Mine(p, pc[p]) \subseteq Slot
    BY DEF Mine, Children
  <1> QED BY <1>1, <1>2, MineIsAwaited

LEMMA CountedImplies == Counted => NumChildCounts
  BY DEF Counted, NumChildCounts, Made, Lives

LEMMA SpacesImply == Unborn /\ OwnSpaces /\ SpacesUsed => SpacesInOrder
  <1> SUFFICES ASSUME Unborn, OwnSpaces, SpacesUsed PROVE SpacesInOrder
    OBVIOUS
  <1>1. SpaceInUseIsAllocated
    BY DEF SpaceInUseIsAllocated, OwnSpaces, SpacesUsed, Lives
  <1>2. \A q \in Slot : Lives(q) => InUse(q)
    BY DEF Lives, CanRun, InUse
  <1>3. NothingLeaks
    BY <1>2 DEF NothingLeaks, SpacesUsed, Unborn
  <1> QED BY <1>1, <1>3 DEF SpacesInOrder

LEMMA MadeFinite ==
  ASSUME NEW p
  PROVE  /\ IsFiniteSet(Made(p)) /\ IsFiniteSet(Made(p)')
         /\ Cardinality(Made(p)) \in Nat /\ Cardinality(Made(p)') \in Nat
  <1>1. IsFiniteSet(Slot)
    BY ProcAssumption, FS_Interval DEF Slot
  <1>2. Made(p) \subseteq Slot /\ Made(p)' \subseteq Slot
    BY DEF Made
  <1> QED BY <1>1, <1>2, FS_Subset, FS_CardinalityType

LEMMA InitThreads == Init => TInv
  <1> SUFFICES ASSUME Init PROVE TInv
    OBVIOUS
  <1> USE InitSlot DEF Init
  <1>1. \A q \in Slot : Lives(q) <=> q = initproc
    BY DEF Lives, CanRun
  <1>2. Unborn /\ ThreadsBelong
    BY <1>1 DEF Unborn, ThreadsBelong, IsThread
  <1>3. OwnSpaces /\ SpacesUsed
    <2>1. pgdir[initproc] = 1 /\ live = {1} /\ ~badfree
      OBVIOUS
    <2> QED BY <1>1, <2>1 DEF OwnSpaces, SpacesUsed
  <1>4. EndsAlone /\ Reasons
    BY DEF EndsAlone, Reasons, WaitsInCall
  <1>5. Counted
    <2> SUFFICES ASSUME NEW p \in Slot, CanRun(p)
                 PROVE  num_child[p] = Cardinality(Made(p))
      BY DEF Counted
    <2>1. p = initproc
      BY <1>1 DEF Lives
    <2>2. Made(p) = {}
      BY <1>1, <2>1 DEF Made
    <2> QED BY <2>2, FS_EmptySet
  <1> QED BY <1>2, <1>3, <1>4, <1>5 DEF TInv

---------------------------------------------------------------------------
(* Steps. *)

(* A step that lets processes run, sleep, wake up and be killed, but makes *)
(* and ends none.                                                          *)
LEMMA QuietThreads ==
  ASSUME TInv,
         UNCHANGED << pid, parent, pgdir, kstack, threadvars, memvars >>,
         \A q \in Slot : state'[q] = state[q] \/ (CanRun(q) /\ CanRun(q)'),
         \A q \in Slot : killed'[q] = killed[q] \/ (Alone(q) /\ pc[q] # "clone"),
         \A q \in Slot : pc'[q] = pc[q] \/ pc'[q] # "clone",
         \A q \in Slot : WaitsInCall(q)' =>
            \/ WaitsInCall(q) /\ pc'[q] = pc[q] /\ chan'[q] = chan[q]
            \/ /\ chan'[q] = q /\ pc'[q] = pc[q]
               /\ \E r \in Slot : Awaits(q, r)
               /\ \A r \in Slot : Awaits(q, r) => state[r] # "ZOMBIE"
  PROVE  TInv'
  <1> USE DEF TInv, threadvars, memvars
  <1>1. \A q \in Slot : /\ CanRun(q)' <=> CanRun(q)
                        /\ Lives(q)' <=> Lives(q)
                        /\ (state'[q] = "ZOMBIE") <=> (state[q] = "ZOMBIE")
                        /\ (state'[q] = "EMBRYO") <=> (state[q] = "EMBRYO")
                        /\ IsThread(q)' <=> IsThread(q)
                        /\ Alone(q)' <=> Alone(q)
    BY DEF CanRun, Lives, IsThread, Alone
  <1>2. Unborn'
    BY <1>1 DEF Unborn
  <1>3. ThreadsBelong'
    BY <1>1 DEF ThreadsBelong
  <1>4. OwnSpaces'
    BY <1>1, InitSlot DEF OwnSpaces
  <1>5. SpacesUsed'
    BY <1>1 DEF SpacesUsed
  <1>6. EndsAlone'
    BY <1>1 DEF EndsAlone
  <1>7. Reasons'
    BY <1>1 DEF Reasons, Awaits
  <1>8. Counted'
    <2>1. \A q \in Slot : Made(q)' = Made(q)
      BY <1>1 DEF Made
    <2> QED BY <1>1, <2>1 DEF Counted
  <1> QED BY <1>2, <1>3, <1>4, <1>5, <1>6, <1>7, <1>8

LEMMA SchedulingThreads ==
  ASSUME TypeOK, TInv, NEW p \in Slot, Yield(p) \/ Run(p)
  PROVE  TInv'
  <1>1. /\ state[p] \in {"RUNNING", "RUNNABLE"}
        /\ \E s \in {"RUNNING", "RUNNABLE"} : state' = [state EXCEPT ![p] = s]
        /\ UNCHANGED << pid, parent, killed, chan, pgdir, kstack, threadvars, pc,
                        memvars >>
    BY DEF Yield, Run, Running
  <1>2. \A q \in Slot : state'[q] = state[q] \/ (CanRun(q) /\ CanRun(q)')
    BY <1>1 DEF TypeOK, CanRun
  <1>3. \A q \in Slot : WaitsInCall(q)' => WaitsInCall(q)
    BY <1>1 DEF TypeOK, WaitsInCall
  <1> QED BY <1>1, <1>2, <1>3, QuietThreads

LEMMA TickThreads ==
  ASSUME TypeOK, TInv, Tick
  PROVE  TInv'
  <1>1. /\ state' = wakeup1(state, Ticks)
        /\ UNCHANGED << pid, parent, killed, chan, pgdir, kstack, threadvars, pc,
                        memvars >>
    BY DEF Tick
  <1>2. \A q \in Slot : \/ state'[q] = state[q]
                        \/ state[q] = "SLEEPING" /\ state'[q] = "RUNNABLE"
    BY <1>1, WakeupType DEF TypeOK
  <1>3. \A q \in Slot : state'[q] = state[q] \/ (CanRun(q) /\ CanRun(q)')
    BY <1>2 DEF CanRun
  <1>4. \A q \in Slot : WaitsInCall(q)' => WaitsInCall(q)
    BY <1>1, <1>2 DEF WaitsInCall
  <1> QED BY <1>1, <1>3, <1>4, QuietThreads

LEMMA EnterThreads ==
  ASSUME TypeOK, TInv, NEW p \in Slot,
         EnterWait(p) \/ EnterJoin(p) \/ EnterSleep(p)
  PROVE  TInv'
  <1>1. /\ state[p] = "RUNNING"
        /\ \E c \in {"wait", "join", "sleep"} : pc' = [pc EXCEPT ![p] = c]
        /\ UNCHANGED << state, pid, parent, killed, chan, pgdir, kstack, threadvars,
                        memvars >>
    BY DEF EnterWait, EnterJoin, EnterSleep, Calls, InitMay, User, Running
  <1>2. \A q \in Slot : pc'[q] = pc[q] \/ (q = p /\ pc'[q] # "clone")
    BY <1>1 DEF TypeOK
  <1>3. \A q \in Slot : WaitsInCall(q)' => WaitsInCall(q) /\ pc'[q] = pc[q]
    BY <1>1, <1>2 DEF WaitsInCall
  <1> QED BY <1>1, <1>2, <1>3, QuietThreads

LEMMA SleepThreads ==
  ASSUME TypeOK, TInv, NEW p \in Slot, SleepTest(p) \/ SleepOnTicks(p)
  PROVE  TInv'
  <1>1. /\ state[p] = "RUNNING"
        /\ \E c \in {"user", "sleep", "sleep1"} : pc' = [pc EXCEPT ![p] = c]
        /\ \E c \in {NoChan, Ticks} : chan' = [chan EXCEPT ![p] = c]
        /\ state' = state \/ state' = [state EXCEPT ![p] = "SLEEPING"]
        /\ UNCHANGED << pid, parent, killed, pgdir, kstack, threadvars, memvars >>
    BY DEF SleepTest, SleepOnTicks, Running
  <1>2. /\ pc'[p] \in {"user", "sleep", "sleep1"}
        /\ state'[p] \in {"RUNNING", "SLEEPING"}
        /\ \A q \in Slot : q # p => /\ pc'[q] = pc[q] /\ chan'[q] = chan[q]
                                    /\ state'[q] = state[q]
    BY <1>1 DEF TypeOK
  <1>3. \A q \in Slot : state'[q] = state[q] \/ (CanRun(q) /\ CanRun(q)')
    BY <1>1, <1>2 DEF CanRun
  <1>4. \A q \in Slot : WaitsInCall(q)' =>
           WaitsInCall(q) /\ pc'[q] = pc[q] /\ chan'[q] = chan[q]
    BY <1>2 DEF WaitsInCall
  <1>5. \A q \in Slot : pc'[q] = pc[q] \/ pc'[q] # "clone"
    BY <1>2
  <1> QED BY <1>1, <1>3, <1>4, <1>5, QuietThreads

(* kill marks only what has no threads (JoinFirst).                        *)
LEMMA KillThreads ==
  ASSUME JoinFirst, TypeOK, TInv, NEW p \in Slot, NEW n \in KillArgs, kill(p, n)
  PROVE  TInv'
  <1> DEFINE t == Min(Target(n))
  <1>1. /\ Threads(t) = {} /\ pc[t] # "clone"
        /\ killed' = [killed EXCEPT ![t] = TRUE]
        /\ state' = [state EXCEPT ![t] = KillWakes(state[t])]
        /\ UNCHANGED << pid, parent, chan, pgdir, kstack, threadvars, pc, memvars >>
    BY DEF kill
  <1>2. t \in Slot
    <2>1. Target(n) \in SUBSET Slot /\ Target(n) # {}
      BY DEF kill, Target
    <2> QED BY <2>1, MinSlot
  <1> HIDE DEF t
  <1>3. \A q \in Slot : \/ state'[q] = state[q]
                        \/ state[q] = "SLEEPING" /\ state'[q] = "RUNNABLE"
    BY <1>1 DEF TypeOK, KillWakes
  <1>4. \A q \in Slot : state'[q] = state[q] \/ (CanRun(q) /\ CanRun(q)')
    BY <1>3 DEF CanRun
  <1>5. \A q \in Slot : killed'[q] = killed[q] \/ (Alone(q) /\ pc[q] # "clone")
    BY <1>1, <1>2, AloneIsNoThreads DEF TypeOK
  <1>6. \A q \in Slot : WaitsInCall(q)' => WaitsInCall(q)
    BY <1>1, <1>3 DEF WaitsInCall
  <1> QED BY <1>1, <1>4, <1>5, <1>6, QuietThreads

(* A step that changes no process, only slots that are not one yet, and    *)
(* the pc of the process p that makes it.                                  *)
LEMMA SlotThreads ==
  ASSUME TInv, NEW p \in Slot, state[p] = "RUNNING", state'[p] = "RUNNING",
         UNCHANGED << parent, killed, chan, pgdir, kstack, memvars >>,
         \A r \in Slot : Lives(r) =>
            /\ state'[r] = state[r] /\ pid'[r] = pid[r]
            /\ parent_pid'[r] = parent_pid[r] /\ num_child'[r] = num_child[r],
         \A r \in Slot : Lives(r)' => Lives(r),
         \A r \in Slot : state'[r] = "EMBRYO" =>
            parent_pid'[r] = -1 /\ num_child'[r] = 0,
         \A r \in Slot : r # p => pc'[r] = pc[r],
         pc[p] # "clone" \/ pc'[p] # "clone",
         pc'[p] = "clone" => ~killed[p] /\ ~IsThread(p),
         \A r \in Slot : pc[r] # "user" => CanRun(r)
  PROVE  TInv'
  <1> USE DEF TInv, memvars
  <1>1. \A r \in Slot : /\ Lives(r)' <=> Lives(r)
                        /\ CanRun(r)' <=> CanRun(r)
                        /\ Lives(r) => (IsThread(r)' <=> IsThread(r))
                        /\ CanRun(r) => Lives(r)
                        /\ Alone(r)' <=> Alone(r)
    BY DEF Lives, CanRun, IsThread, Alone
  <1>2. Unborn'
    BY <1>1 DEF Unborn
  <1>3. ThreadsBelong'
    BY <1>1 DEF ThreadsBelong
  <1>4. OwnSpaces'
    BY <1>1, InitSlot DEF OwnSpaces
  <1>5. SpacesUsed'
    BY <1>1 DEF SpacesUsed
  <1>6. EndsAlone'
    <2> SUFFICES ASSUME NEW r \in Slot
                 PROVE  /\ (CanRun(r) /\ killed[r] => Alone(r) /\ pc[r] # "clone")'
                        /\ (pc[r] = "clone" => ~IsThread(r))'
      BY DEF EndsAlone
    <2>1. CASE r = p
      BY <2>1, <1>1 DEF EndsAlone, Lives, CanRun
    <2>2. CASE r # p
      BY <2>2, <1>1 DEF EndsAlone
    <2> QED BY <2>1, <2>2
  <1>7. Reasons'
    <2> SUFFICES ASSUME NEW r \in Slot, WaitsInCall(r)'
                 PROVE  /\ chan'[r] = r
                        /\ \E q \in Slot : Awaits(r, q)'
                        /\ \A q \in Slot : Awaits(r, q)' => state'[q] # "ZOMBIE"
      BY DEF Reasons
    <2>1. r # p /\ Lives(r)'
      BY DEF WaitsInCall, Lives, CanRun
    <2>2. WaitsInCall(r) /\ pc'[r] = pc[r]
      BY <2>1, <1>1 DEF WaitsInCall
    <2>3. \A q \in Slot : Awaits(r, q)' <=> Awaits(r, q)
      BY <2>2 DEF Awaits
    <2>4. \A q \in Slot : state'[q] = "ZOMBIE" => state[q] = "ZOMBIE"
      BY <1>1 DEF Lives
    <2> QED BY <2>2, <2>3, <2>4 DEF Reasons
  <1>8. Counted'
    <2>1. \A r \in Slot : CanRun(r) => Made(r)' = Made(r)
      BY <1>1 DEF Made
    <2> QED BY <1>1, <2>1 DEF Counted
  <1> QED BY <1>2, <1>3, <1>4, <1>5, <1>6, <1>7, <1>8

LEMMA AllocThreads ==
  ASSUME JoinFirst, TypeOK, TableInv, TInv, NEW p \in Slot,
         ForkAlloc(p) \/ CloneAlloc(p)
  PROVE  TInv'
  <1> DEFINE q == Min(FreeSlots)
  <1>1. PICK call \in {"fork", "clone"} :
          /\ User(p) /\ allocproc(p, call)
          /\ call = "clone" => ~IsThread(p)
    BY DEF ForkAlloc, CloneAlloc, Calls, InitMay
  <1>2. q \in Slot /\ state[q] = "UNUSED"
    <2>1. FreeSlots \in SUBSET Slot /\ FreeSlots # {}
      BY <1>1 DEF allocproc, FreeSlots
    <2>2. q \in FreeSlots
      BY <2>1, MinSlot
    <2> QED BY <2>2 DEF FreeSlots
  <1>3. /\ state' = [state EXCEPT ![q] = "EMBRYO"]
        /\ pid' = [pid EXCEPT ![q] = nextpid]
        /\ parent_pid' = [parent_pid EXCEPT ![q] = -1]
        /\ num_child' = [num_child EXCEPT ![q] = 0]
        /\ pc' = [pc EXCEPT ![p] = call]
        /\ UNCHANGED << parent, killed, chan, pgdir, kstack, memvars >>
    BY <1>1 DEF allocproc
  <1> HIDE DEF q
  <1>4. state[p] = "RUNNING" /\ pc[p] = "user" /\ ~killed[p] /\ p # q /\ ~Lives(q)
    BY <1>1, <1>2 DEF User, Running, Lives, CanRun
  <1>5. /\ state'[q] = "EMBRYO" /\ parent_pid'[q] = -1 /\ num_child'[q] = 0
        /\ \A r \in Slot : r # q => /\ state'[r] = state[r] /\ pid'[r] = pid[r]
                                    /\ parent_pid'[r] = parent_pid[r]
                                    /\ num_child'[r] = num_child[r]
    BY <1>2, <1>3 DEF TypeOK
  <1>6. pc'[p] = call /\ \A r \in Slot : r # p => pc'[r] = pc[r]
    BY <1>3 DEF TypeOK
  <1>7. \A r \in Slot : Lives(r)' => Lives(r)
    BY <1>5 DEF Lives, CanRun
  <1>8. \A r \in Slot : state'[r] = "EMBRYO" => parent_pid'[r] = -1 /\ num_child'[r] = 0
    BY <1>5 DEF TInv, Unborn
  <1>9. \A r \in Slot : pc[r] # "user" => CanRun(r)
    BY DEF TableInv, CallersRun
  <1> QED BY <1>1, <1>3, <1>4, <1>5, <1>6, <1>7, <1>8, <1>9, SlotThreads

LEMMA AllocFailsThreads ==
  ASSUME TypeOK, TableInv, TInv, NEW p \in Slot, AllocFails(p)
  PROVE  TInv'
  <1> DEFINE q == np[p]
  <1>1. q \in Slot /\ state[q] = "EMBRYO" /\ state[p] = "RUNNING" /\ ~Lives(q)
    BY DEF AllocFails, TableInv, FillsEmbryo, Running, Lives, CanRun
  <1>2. /\ state' = [state EXCEPT ![q] = "UNUSED"]
        /\ pc' = [pc EXCEPT ![p] = "user"]
        /\ UNCHANGED << pid, parent, killed, chan, pgdir, kstack, parent_pid,
                        num_child, memvars >>
    BY DEF AllocFails, threadvars
  <1> HIDE DEF q
  <1>3. state'[q] = "UNUSED" /\ \A r \in Slot : r # q => state'[r] = state[r]
    BY <1>1, <1>2 DEF TypeOK
  <1>4. pc'[p] = "user" /\ \A r \in Slot : r # p => pc'[r] = pc[r]
    BY <1>2 DEF TypeOK
  <1>5. \A r \in Slot : Lives(r)' => Lives(r)
    BY <1>3 DEF Lives, CanRun
  <1>6. \A r \in Slot : state'[r] = "EMBRYO" => parent_pid'[r] = -1 /\ num_child'[r] = 0
    BY <1>2, <1>3 DEF TInv, Unborn
  <1>7. \A r \in Slot : pc[r] # "user" => CanRun(r)
    BY DEF TableInv, CallersRun
  <1>8. /\ state'[p] = "RUNNING"
        /\ \A r \in Slot : Lives(r) => state'[r] = state[r]
    BY <1>1, <1>3
  <1> QED BY <1>1, <1>2, <1>4, <1>5, <1>6, <1>7, <1>8, SlotThreads

(* Nobody is the child of a slot that is not a process.                    *)
LEMMA NoChildrenYet ==
  ASSUME TableInv, TInv, NEW q \in Slot, ~CanRun(q)
  PROVE  \A r \in Slot : parent[r] # q
  <1> SUFFICES ASSUME NEW r \in Slot, parent[r] = q PROVE FALSE
    OBVIOUS
  <1>1. Lives(r) /\ r # initproc
    BY InitSlot DEF TInv, Unborn, TableInv, InitLives
  <1> QED BY <1>1 DEF TableInv, ParentIsAlive, Lives

\* A new process q, child of p, that runs in the given space.
Born(p, q, space) ==
  /\ state[p] = "RUNNING" /\ state[q] = "EMBRYO"
  /\ p # q /\ pc[q] = "user" /\ parent_pid[q] = -1 /\ num_child[q] = 0
  /\ \A r \in Slot : parent[r] # q
  /\ state'[q] = "RUNNABLE" /\ parent'[q] = p /\ pgdir'[q] = space
  /\ \A r \in Slot : r # q => /\ state'[r] = state[r] /\ parent'[r] = parent[r]
                              /\ pgdir'[r] = pgdir[r] /\ kstack'[r] = kstack[r]
  /\ pc'[p] = "user" /\ \A r \in Slot : r # p => pc'[r] = pc[r]
  /\ UNCHANGED << pid, killed, chan, badfree >>

LEMMA FinishIsBorn ==
  ASSUME TypeOK, TableInv, TInv, NEW p \in Slot, NEW space,
         Running(p), pc[p] \in {"fork", "clone"}, Finish(p, space)
  PROVE  np[p] \in Slot /\ Born(p, np[p], space)
  <1> DEFINE q == np[p]
  <1>1. q \in Slot /\ state[q] = "EMBRYO" /\ state[p] = "RUNNING" /\ p # q
    BY DEF TableInv, FillsEmbryo, Running
  <1>2. /\ kstack' = [kstack EXCEPT ![q] = TRUE]
        /\ pgdir' = [pgdir EXCEPT ![q] = space]
        /\ parent' = [parent EXCEPT ![q] = p]
        /\ state' = [state EXCEPT ![q] = "RUNNABLE"]
        /\ pc' = [pc EXCEPT ![p] = "user"]
        /\ UNCHANGED << pid, killed, chan, badfree >>
    BY DEF Finish
  <1> HIDE DEF q
  <1>3. /\ pc[q] = "user" /\ parent_pid[q] = -1 /\ num_child[q] = 0
        /\ \A r \in Slot : parent[r] # q
    <2>1. ~CanRun(q)
      BY <1>1 DEF CanRun
    <2>2. pc[q] = "user"
      BY <1>1, <2>1 DEF TableInv, CallersRun
    <2>3. parent_pid[q] = -1 /\ num_child[q] = 0
      BY <1>1 DEF TInv, Unborn
    <2> QED BY <1>1, <2>1, <2>2, <2>3, NoChildrenYet
  <1>4. /\ state'[q] = "RUNNABLE" /\ parent'[q] = p /\ pgdir'[q] = space
        /\ \A r \in Slot : r # q => /\ state'[r] = state[r] /\ parent'[r] = parent[r]
                                    /\ pgdir'[r] = pgdir[r] /\ kstack'[r] = kstack[r]
    BY <1>1, <1>2 DEF TypeOK
  <1>5. pc'[p] = "user" /\ \A r \in Slot : r # p => pc'[r] = pc[r]
    BY <1>2 DEF TypeOK
  <1>6. np[p] \in Slot /\ Born(p, q, space)
    BY <1>1, <1>2, <1>3, <1>4, <1>5 DEF Born, q
  <1> QED BY <1>6 DEF q

LEMMA BornCommon ==
  ASSUME TInv, NEW p \in Slot, NEW q \in Slot, NEW space, Born(p, q, space),
         space = pgdir[p] => ~killed[p],
         \A r \in Slot : r # q => parent_pid'[r] = parent_pid[r],
         \A r \in Slot : r # p => num_child'[r] = num_child[r]
  PROVE  Unborn' /\ EndsAlone' /\ Reasons'
  <1> USE DEF TInv, Born
  <1>1. /\ Lives(q)' /\ CanRun(q)' /\ ~Lives(q)
        /\ \A r \in Slot : r # q => /\ Lives(r)' <=> Lives(r)
                                    /\ CanRun(r)' <=> CanRun(r)
    BY DEF Lives, CanRun
  <1>2. Unborn'
    BY <1>1 DEF Unborn
  <1>3. EndsAlone'
    <2> SUFFICES ASSUME NEW r \in Slot
                 PROVE  /\ (CanRun(r) /\ killed[r] => Alone(r) /\ pc[r] # "clone")'
                        /\ (pc[r] = "clone" => ~IsThread(r))'
      BY DEF EndsAlone
    <2>1. CASE r = q
      <3>1. Alone(r)'
        BY <2>1 DEF Alone
      <3> QED BY <2>1, <3>1
    <2>2. CASE r # q
      <3>1. r # p /\ Alone(r) => Alone(r)'
        BY <2>2 DEF Alone
      <3>2. r = p => (killed[p] /\ Alone(p) => Alone(p)')
        BY DEF Alone
      <3>3. IsThread(r)' <=> IsThread(r)
        BY <2>2 DEF IsThread
      <3> QED BY <1>1, <2>2, <3>1, <3>2, <3>3 DEF EndsAlone
    <2> QED BY <2>1, <2>2
  <1>4. Reasons'
    <2> SUFFICES ASSUME NEW r \in Slot, WaitsInCall(r)'
                 PROVE  /\ chan'[r] = r
                        /\ \E t \in Slot : Awaits(r, t)'
                        /\ \A t \in Slot : Awaits(r, t)' => state'[t] # "ZOMBIE"
      BY DEF Reasons
    <2>1. r # p /\ r # q /\ WaitsInCall(r) /\ pc'[r] = pc[r]
      BY DEF WaitsInCall
    <2>2. \A t \in Slot : Awaits(r, t) => t # q /\ Awaits(r, t)'
      BY <1>1, <2>1 DEF Awaits, Unborn, NoSlot, Slot
    <2>3. \A t \in Slot : Awaits(r, t)' => t # q /\ Awaits(r, t)
      BY <2>1 DEF Awaits
    <2> QED BY <2>1, <2>2, <2>3 DEF Reasons
  <1> QED BY <1>2, <1>3, <1>4

(* A slot that is not a running process has made no thread.                *)
LEMMA NothingMade ==
  ASSUME TypeOK, TableInv, TInv, NEW q \in Slot, InUse(q), ~CanRun(q)
  PROVE  Made(q) = {}
  <1> SUFFICES ASSUME NEW r \in Slot, Lives(r), parent_pid[r] = pid[q] PROVE FALSE
    BY DEF Made
  <1>1. IsThread(r)
    BY DEF TypeOK, IsThread
  <1>2. /\ CanRun(parent[r]) /\ parent[r] \in Slot
        /\ parent[r] # q /\ pid[parent[r]] = pid[q]
    BY <1>1 DEF TInv, ThreadsBelong
  <1>3. InUse(parent[r])
    BY <1>2 DEF InUse, CanRun
  <1> QED BY <1>2, <1>3 DEF TableInv, PidUnique

LEMMA ForkFinishThreads ==
  ASSUME TypeOK, TableInv, TInv, NEW p \in Slot, ForkFinish(p)
  PROVE  TInv'
  <1>1. PICK space \in FreeSpace : space = CopyOf(p)
    <2>1. FreeSpace \in SUBSET Nat /\ FreeSpace # {}
      BY ProcAssumption DEF FreeSpace, Space, ForkFinish
    <2> QED BY <2>1, MinInSet DEF CopyOf
  <1>2. PICK q \in Slot : Born(p, q, space)
    BY <1>1, FinishIsBorn DEF ForkFinish
  <1>3. live' = live \cup {space} /\ UNCHANGED << parent_pid, num_child >>
    BY <1>1 DEF ForkFinish, threadvars
  <1>4. space \notin live /\ \A r \in Slot : Lives(r) => pgdir[r] # space
    BY <1>1 DEF FreeSpace, TInv, OwnSpaces
  <1>5. Lives(p) /\ ~Lives(q)
    BY <1>2 DEF Born, Lives, CanRun
  <1>6. Unborn' /\ EndsAlone' /\ Reasons'
    BY <1>2, <1>3, <1>4, <1>5, BornCommon
  <1> USE DEF TInv
  <1>7. /\ Lives(q)' /\ CanRun(q)' /\ ~IsThread(q)' /\ ~IsThread(q)
        /\ \A r \in Slot : r # q => /\ Lives(r)' <=> Lives(r)
                                    /\ CanRun(r)' <=> CanRun(r)
        /\ \A r \in Slot : IsThread(r)' <=> IsThread(r)
    BY <1>2, <1>3 DEF Born, Lives, CanRun, IsThread
  <1>8. ThreadsBelong'
    BY <1>2, <1>3, <1>5, <1>7 DEF Born, ThreadsBelong, Lives
  <1>9. OwnSpaces'
    <2>1. \A r \in Slot : Lives(r)' => pgdir'[r] \in live'
      BY <1>2, <1>3, <1>7 DEF Born, OwnSpaces
    <2>2. \A r, t \in Slot : Lives(r)' /\ Lives(t)' /\ ~IsThread(r)' /\ ~IsThread(t)' /\ r # t
                              => pgdir'[r] # pgdir'[t]
      BY <1>2, <1>4, <1>7 DEF Born, OwnSpaces
    <2>3. \A r \in Slot : Lives(r)' /\ ~IsThread(r)' /\ r # initproc
                            => pgdir'[parent'[r]] # pgdir'[r]
      <3> SUFFICES ASSUME NEW r \in Slot, Lives(r)', ~IsThread(r)', r # initproc
                   PROVE  pgdir'[parent'[r]] # pgdir'[r]
        OBVIOUS
      <3>1. CASE r = q
        BY <3>1, <1>2, <1>4, <1>5 DEF Born
      <3>2. CASE r # q
        <4>1. Lives(r) /\ parent[r] \in Slot /\ parent[r] # q
          BY <3>2, <1>2, <1>7 DEF Born, TableInv, ParentIsAlive, Lives
        <4> QED BY <3>2, <4>1, <1>2, <1>7 DEF Born, OwnSpaces
      <3> QED BY <3>1, <3>2
    <2> QED BY <2>1, <2>2, <2>3 DEF OwnSpaces
  <1>10. SpacesUsed'
    <2>1. Lives(q)' /\ pgdir'[q] = space /\ badfree' = badfree
      BY <1>2, <1>7 DEF Born
    <2>2. \A r \in Slot : Lives(r) => Lives(r)' /\ pgdir'[r] = pgdir[r]
      BY <1>2, <1>5, <1>7 DEF Born
    <2>3. ~badfree'
      BY <2>1 DEF SpacesUsed
    <2>4. \A s \in live' : \E r \in Slot : Lives(r)' /\ pgdir'[r] = s
      BY <1>2, <1>3, <2>1, <2>2 DEF SpacesUsed
    <2> QED BY <2>3, <2>4 DEF SpacesUsed
  <1>11. Counted'
    <2>1. \A r \in Slot : Made(r)' = IF pid[r] = -1 THEN Made(r)' ELSE Made(r)
      BY <1>2, <1>3, <1>5, <1>7 DEF Made, Born
    <2>2. \A r \in Slot : pid[r] # -1
      BY DEF TypeOK
    <2>3. Made(q) = {}
      BY <1>2, <1>7, NothingMade DEF Born, InUse, CanRun
    <2>4. num_child'[q] = 0
      BY <1>2, <1>3 DEF Born
    <2> QED BY <1>2, <1>3, <1>7, <2>1, <2>2, <2>3, <2>4, FS_EmptySet DEF Counted, Born
  <1> QED BY <1>6, <1>8, <1>9, <1>10, <1>11

LEMMA CloneFinishThreads ==
  ASSUME TypeOK, TableInv, TInv, NEW p \in Slot, CloneFinish(p)
  PROVE  TInv'
  <1>1. PICK q \in Slot : Born(p, q, pgdir[p]) /\ q = np[p]
    BY FinishIsBorn DEF CloneFinish
  <1>2. /\ live' = live
        /\ num_child'[p] = num_child[p] + 1
        /\ \A r \in Slot : r # p => num_child'[r] = num_child[r]
        /\ parent_pid'[q] = pid[p]
        /\ \A r \in Slot : r # q => parent_pid'[r] = parent_pid[r]
    BY <1>1 DEF CloneFinish, TypeOK
  <1>3. Lives(p) /\ CanRun(p) /\ ~Lives(q) /\ InUse(p) /\ InUse(q)
    BY <1>1 DEF Born, Lives, CanRun, InUse
  <1>4. ~killed[p] /\ ~IsThread(p)
    BY <1>3 DEF TInv, EndsAlone, CloneFinish
  <1>5. Unborn' /\ EndsAlone' /\ Reasons'
    BY <1>1, <1>2, <1>4, BornCommon
  <1> USE DEF TInv
  <1>6. /\ Lives(q)' /\ CanRun(q)' /\ IsThread(q)'
        /\ \A r \in Slot : r # q => /\ Lives(r)' <=> Lives(r)
                                    /\ CanRun(r)' <=> CanRun(r)
                                    /\ IsThread(r)' <=> IsThread(r)
    <2>1. parent_pid'[q] # -1
      BY <1>2 DEF TypeOK
    <2> QED BY <1>1, <1>2, <2>1 DEF Born, Lives, CanRun, IsThread
  <1>7. ThreadsBelong'
    <2> SUFFICES ASSUME NEW r \in Slot, Lives(r)', IsThread(r)'
                 PROVE  (/\ parent[r] \in Slot /\ CanRun(parent[r]) /\ ~IsThread(parent[r])
                         /\ parent_pid[r] = pid[parent[r]]
                         /\ pgdir[r] = pgdir[parent[r]])'
      BY DEF ThreadsBelong
    <2>1. CASE r = q
      BY <2>1, <1>1, <1>2, <1>3, <1>4, <1>6 DEF Born
    <2>2. CASE r # q
      <3>1. /\ parent[r] \in Slot /\ CanRun(parent[r]) /\ ~IsThread(parent[r])
            /\ parent_pid[r] = pid[parent[r]] /\ pgdir[r] = pgdir[parent[r]]
            /\ parent[r] # q
        BY <2>2, <1>1, <1>6 DEF Born, ThreadsBelong
      <3> QED BY <2>2, <3>1, <1>1, <1>2, <1>6 DEF Born
    <2> QED BY <2>1, <2>2
  <1>8. OwnSpaces'
    <2>1. \A r \in Slot : Lives(r)' => pgdir'[r] \in live'
      BY <1>1, <1>2, <1>3, <1>6 DEF Born, OwnSpaces
    <2>2. \A r, t \in Slot : Lives(r)' /\ Lives(t)' /\ ~IsThread(r)' /\ ~IsThread(t)' /\ r # t
                              => pgdir'[r] # pgdir'[t]
      BY <1>1, <1>6 DEF Born, OwnSpaces
    <2>3. \A r \in Slot : Lives(r)' /\ ~IsThread(r)' /\ r # initproc
                            => pgdir'[parent'[r]] # pgdir'[r]
      <3> SUFFICES ASSUME NEW r \in Slot, Lives(r)', ~IsThread(r)', r # initproc
                   PROVE  pgdir'[parent'[r]] # pgdir'[r]
        OBVIOUS
      <3>1. r # q /\ Lives(r) /\ parent[r] \in Slot /\ parent[r] # q
        BY <1>1, <1>6 DEF Born, TableInv, ParentIsAlive, Lives
      <3> QED BY <3>1, <1>1, <1>6 DEF Born, OwnSpaces
    <2> QED BY <2>1, <2>2, <2>3 DEF OwnSpaces
  <1>9. SpacesUsed'
    <2>1. ~badfree'
      BY <1>1 DEF Born, SpacesUsed
    <2>2. \A r \in Slot : Lives(r) => Lives(r)' /\ pgdir'[r] = pgdir[r]
      BY <1>1, <1>3, <1>6 DEF Born
    <2> QED BY <1>2, <2>1, <2>2 DEF SpacesUsed
  <1>10. Counted'
    <2> SUFFICES ASSUME NEW r \in Slot, CanRun(r)'
                 PROVE  num_child'[r] = Cardinality(Made(r)')
      BY DEF Counted
    <2>1. CASE r = p
      <3>1. Made(p)' = Made(p) \cup {q} /\ q \notin Made(p)
        BY <1>1, <1>2, <1>3, <1>6 DEF Made, Born
      <3>2. Cardinality(Made(p)') = Cardinality(Made(p)) + 1
        BY <3>1, MadeFinite, FS_AddElement
      <3> QED BY <2>1, <3>2, <1>2, <1>3 DEF Counted
    <2>2. CASE r # p
      <3>1. pid[r] # pid[p]
        <4>1. InUse(r)
          BY <1>1, <1>3, <1>6 DEF InUse, CanRun
        <4> QED BY <2>2, <4>1, <1>3 DEF TableInv, PidUnique
      <3>2. Made(r)' = Made(r)
        BY <3>1, <1>1, <1>2, <1>3, <1>6 DEF Made, Born
      <3>3. CASE r = q
        <4>1. Made(q) = {} /\ num_child'[q] = 0
          BY <1>1, <1>2, <1>3, NothingMade DEF Born, CanRun
        <4> QED BY <3>2, <3>3, <4>1, FS_EmptySet
      <3>4. CASE r # q
        BY <2>2, <3>2, <3>4, <1>2, <1>6 DEF Counted
      <3> QED BY <3>3, <3>4
    <2> QED BY <2>1, <2>2
  <1> QED BY <1>5, <1>7, <1>8, <1>9, <1>10

(* Nobody else runs in the space of a process that is no thread and alone. *)
LEMMA SpaceIsOwn ==
  ASSUME ThreadsBelong, OwnSpaces, NEW p \in Slot, Lives(p), ~IsThread(p), Alone(p)
  PROVE  \A r \in Slot : Lives(r) /\ r # p => pgdir[r] # pgdir[p]
  <1> SUFFICES ASSUME NEW r \in Slot, Lives(r), r # p, pgdir[r] = pgdir[p]
               PROVE  FALSE
    OBVIOUS
  <1>1. IsThread(r)
    BY DEF OwnSpaces
  <1>2. /\ parent[r] \in Slot /\ Lives(parent[r]) /\ ~IsThread(parent[r])
        /\ pgdir[parent[r]] = pgdir[p]
    BY <1>1 DEF ThreadsBelong, Lives
  <1>3. parent[r] = p
    BY <1>2 DEF OwnSpaces
  <1> QED BY <1>3 DEF Alone

(* exec is left to processes that neither are threads nor have any         *)
(* (JoinFirst): the old space goes, and nobody else was in it.             *)
LEMMA ExecThreads ==
  ASSUME JoinFirst, TypeOK, TableInv, TInv, NEW p \in Slot, exec(p)
  PROVE  TInv'
  <1>1. PICK image \in FreeSpace : image = Min(FreeSpace)
    <2>1. FreeSpace \in SUBSET Nat /\ FreeSpace # {}
      BY ProcAssumption DEF FreeSpace, Space, exec
    <2> QED BY <2>1, MinInSet
  <1>2. /\ pgdir' = [pgdir EXCEPT ![p] = image]
        /\ live' = (live \cup {image}) \ {pgdir[p]}
        /\ badfree' = (badfree \/ pgdir[p] \notin live)
        /\ UNCHANGED << state, pid, parent, killed, chan, kstack, threadvars, pc >>
    BY <1>1 DEF exec
  <1>3. /\ state[p] = "RUNNING" /\ ~killed[p] /\ p # initproc
        /\ ~IsThread(p) /\ Alone(p) /\ Lives(p)
    BY AloneIsNoThreads DEF exec, Calls, User, Running, Lives, CanRun
  <1> USE DEF TInv, threadvars
  <1>4. pgdir'[p] = image /\ \A r \in Slot : r # p => pgdir'[r] = pgdir[r]
    BY <1>2 DEF TypeOK
  <1>5. image \notin live /\ \A r \in Slot : Lives(r) => pgdir[r] # image
    BY <1>1 DEF FreeSpace, OwnSpaces
  <1>6. \A r \in Slot : Lives(r) /\ r # p => pgdir[r] # pgdir[p]
    BY <1>3, SpaceIsOwn
  <1>7. \A r \in Slot : /\ Lives(r)' <=> Lives(r)
                        /\ CanRun(r)' <=> CanRun(r)
                        /\ IsThread(r)' <=> IsThread(r)
    BY <1>2 DEF Lives, CanRun, IsThread
  <1>8. Unborn'
    BY <1>2, <1>7 DEF Unborn
  <1>9. ThreadsBelong'
    <2>1. \A r \in Slot : Lives(r) /\ IsThread(r) => r # p /\ parent[r] # p
      BY <1>3 DEF ThreadsBelong, Alone
    <2> QED BY <1>2, <1>4, <1>7, <2>1 DEF ThreadsBelong
  <1>10. OwnSpaces'
    <2>1. \A r \in Slot : Lives(r)' => pgdir'[r] \in live'
      BY <1>2, <1>3, <1>4, <1>5, <1>6, <1>7 DEF OwnSpaces
    <2>2. \A r, t \in Slot : Lives(r)' /\ Lives(t)' /\ ~IsThread(r)' /\ ~IsThread(t)' /\ r # t
                              => pgdir'[r] # pgdir'[t]
      BY <1>4, <1>5, <1>7 DEF OwnSpaces
    <2>3. \A r \in Slot : Lives(r)' /\ ~IsThread(r)' /\ r # initproc
                            => pgdir'[parent'[r]] # pgdir'[r]
      <3> SUFFICES ASSUME NEW r \in Slot, Lives(r), ~IsThread(r), r # initproc
                   PROVE  pgdir'[parent[r]] # pgdir'[r]
        BY <1>2, <1>7
      <3>1. parent[r] \in Slot /\ Lives(parent[r]) /\ pgdir[parent[r]] # pgdir[r]
        BY DEF TableInv, ParentIsAlive, Lives, OwnSpaces
      <3> QED BY <3>1, <1>4, <1>5
    <2> QED BY <2>1, <2>2, <2>3 DEF OwnSpaces
  <1>11. SpacesUsed'
    <2>1. ~badfree'
      BY <1>2, <1>3 DEF SpacesUsed, OwnSpaces
    <2>2. ASSUME NEW s \in live' PROVE \E r \in Slot : Lives(r)' /\ pgdir'[r] = s
      <3>1. CASE s = image
        BY <3>1, <1>3, <1>4, <1>7
      <3>2. CASE s # image
        <4>1. PICK r \in Slot : Lives(r) /\ pgdir[r] = s
          BY <3>2, <1>2 DEF SpacesUsed
        <4> QED BY <4>1, <1>2, <1>4, <1>7
      <3> QED BY <3>1, <3>2
    <2> QED BY <2>1, <2>2 DEF SpacesUsed
  <1>12. EndsAlone'
    <2> SUFFICES ASSUME NEW r \in Slot
                 PROVE  /\ (CanRun(r) /\ killed[r] => Alone(r) /\ pc[r] # "clone")'
                        /\ (pc[r] = "clone" => ~IsThread(r))'
      BY DEF EndsAlone
    <2>1. CanRun(r) /\ killed[r] /\ Alone(r) => Alone(r)'
      BY <1>2, <1>3, <1>4, <1>5 DEF Alone, Lives
    <2> QED BY <1>2, <1>7, <2>1 DEF EndsAlone
  <1>13. Reasons'
    <2> SUFFICES ASSUME NEW r \in Slot, WaitsInCall(r)'
                 PROVE  /\ chan'[r] = r
                        /\ \E t \in Slot : Awaits(r, t)'
                        /\ \A t \in Slot : Awaits(r, t)' => state'[t] # "ZOMBIE"
      BY DEF Reasons
    <2>1. WaitsInCall(r) /\ r # p /\ Lives(r)
      BY <1>2, <1>3 DEF WaitsInCall, Lives, CanRun
    <2>2. \A t \in Slot : Awaits(r, t)' <=> Awaits(r, t)
      <3> SUFFICES ASSUME NEW t \in Slot PROVE Awaits(r, t)' <=> Awaits(r, t)
        OBVIOUS
      <3>1. CASE t = p
        <4>1. parent[p] = r => pgdir[p] # pgdir[r] /\ pgdir'[p] # pgdir'[r]
          BY <2>1, <1>3, <1>4, <1>5, <1>6
        <4> QED BY <3>1, <4>1, <1>2 DEF Awaits
      <3>2. CASE t # p
        BY <3>2, <2>1, <1>2, <1>4 DEF Awaits
      <3> QED BY <3>1, <3>2
    <2> QED BY <2>1, <2>2, <1>2 DEF Reasons
  <1>14. Counted'
    <2>1. \A r \in Slot : Made(r)' = Made(r)
      BY <1>2, <1>7 DEF Made
    <2> QED BY <1>2, <1>7, <2>1 DEF Counted
  <1> QED BY <1>8, <1>9, <1>10, <1>11, <1>12, <1>13, <1>14

(* exit wakes its parent, and init when it leaves it a zombie; who sleeps  *)
(* on is neither.                                                          *)
LEMMA LeaveWakes ==
  ASSUME TypeOK, NEW p \in Slot, Leave(p)
  PROVE  /\ state'[p] = "ZOMBIE"
         /\ \A r \in Slot : r # p => \/ state'[r] = state[r]
                                     \/ state[r] = "SLEEPING" /\ state'[r] = "RUNNABLE"
         /\ \A r \in Slot : r # p /\ state'[r] = "SLEEPING" =>
              /\ chan[r] # parent[p]
              /\ (\E q \in Children(p) : state[q] = "ZOMBIE") => chan[r] # initproc
  <1> DEFINE st1 == WakeParent(p)
             st2 == WakeInit(st1, p)
  <1>1. /\ st1 \in [Slot -> States]
        /\ \A r \in Slot : st1[r] = IF state[r] = "SLEEPING" /\ chan[r] = parent[p]
                                      THEN "RUNNABLE" ELSE state[r]
    BY DEF WakeParent, wakeup1, TypeOK, States
  <1>2. (\E q \in Children(p) : st1[q] = "ZOMBIE")
          <=> (\E q \in Children(p) : state[q] = "ZOMBIE")
    BY <1>1 DEF Children
  <1>3. state' = [st2 EXCEPT ![p] = "ZOMBIE"]
    BY DEF Leave
  <1>4. CASE \E q \in Children(p) : state[q] = "ZOMBIE"
    <2>1. /\ st2 \in [Slot -> States]
          /\ \A r \in Slot : st2[r] = IF st1[r] = "SLEEPING" /\ chan[r] = initproc
                                        THEN "RUNNABLE" ELSE st1[r]
      BY <1>1, <1>2, <1>4 DEF WakeInit, wakeup1, States
    <2> QED BY <1>1, <1>3, <2>1
  <1>5. CASE ~ \E q \in Children(p) : state[q] = "ZOMBIE"
    <2>1. st2 = st1
      BY <1>2, <1>5 DEF WakeInit
    <2> QED BY <1>1, <1>3, <1>5, <2>1
  <1> QED BY <1>4, <1>5

LEMMA LeaveThreads ==
  ASSUME TypeOK, TableInv, TInv, NEW p \in Slot,
         Running(p), pc[p] = "user", p # initproc, Alone(p), Leave(p)
  PROVE  TInv'
  <1>1. /\ state[p] = "RUNNING" /\ state'[p] = "ZOMBIE"
        /\ \A r \in Slot : r # p => \/ state'[r] = state[r]
                                    \/ state[r] = "SLEEPING" /\ state'[r] = "RUNNABLE"
    BY LeaveWakes DEF Running
  <1>2. /\ \A r \in Slot : parent'[r] = IF parent[r] = p THEN initproc ELSE parent[r]
        /\ UNCHANGED << pid, killed, chan, pgdir, kstack, parent_pid, num_child, pc,
                        live, badfree >>
    BY AloneIsNoThreads DEF Leave, GivesToInit, Children, threadvars
  <1>3. /\ \A r \in Slot : /\ Lives(r)' <=> Lives(r)
                           /\ IsThread(r)' <=> IsThread(r)
        /\ \A r \in Slot : r # p => (CanRun(r)' <=> CanRun(r))
        /\ ~CanRun(p)' /\ Lives(p)
    BY <1>1, <1>2 DEF Lives, CanRun, IsThread
  <1> USE DEF TInv
  <1>4. \A r \in Slot : parent[r] = p => /\ Lives(r) /\ ~IsThread(r) /\ r # initproc
                                         /\ r # p /\ pgdir[r] # pgdir[initproc]
    <2> SUFFICES ASSUME NEW r \in Slot, parent[r] = p
                 PROVE  /\ Lives(r) /\ ~IsThread(r) /\ r # initproc
                        /\ r # p /\ pgdir[r] # pgdir[initproc]
      OBVIOUS
    <2>1. Lives(r) /\ r # initproc /\ pgdir[r] # pgdir[p]
      BY InitSlot DEF Unborn, TableInv, InitLives, Alone
    <2>2. ~IsThread(r)
      BY <2>1 DEF ThreadsBelong
    <2>3. Lives(initproc) /\ ~IsThread(initproc)
      BY InitSlot DEF TableInv, InitLives, ThreadsBelong, Lives
    <2> QED BY <2>1, <2>2, <2>3, InitSlot DEF OwnSpaces
  <1>5. Unborn'
    <2>1. \A r \in Slot : (state'[r] = "EMBRYO") => state[r] = "EMBRYO"
      BY <1>1
    <2>2. \A r \in Slot : ~Lives(r) => parent'[r] = parent[r]
      BY <1>2, <1>4
    <2> QED BY <1>2, <1>3, <2>1, <2>2 DEF Unborn
  <1>6. ThreadsBelong'
    <2>1. \A r \in Slot : Lives(r) /\ IsThread(r) => parent[r] # p
      BY <1>4
    <2> QED BY <1>2, <1>3, <2>1 DEF ThreadsBelong
  <1>7. OwnSpaces'
    <2>1. \A r \in Slot : Lives(r)' /\ ~IsThread(r)' /\ r # initproc
                            => pgdir'[parent'[r]] # pgdir'[r]
      BY <1>2, <1>3, <1>4 DEF OwnSpaces
    <2> QED BY <1>2, <1>3, <2>1 DEF OwnSpaces
  <1>8. SpacesUsed'
    BY <1>2, <1>3 DEF SpacesUsed
  <1>9. EndsAlone'
    <2>1. \A r \in Slot : Alone(r) => Alone(r)'
      BY <1>2, <1>4 DEF Alone
    <2> QED BY <1>2, <1>3, <2>1 DEF EndsAlone
  <1>10. Reasons'
    <2> SUFFICES ASSUME NEW r \in Slot, WaitsInCall(r)'
                 PROVE  /\ chan'[r] = r
                        /\ \E t \in Slot : Awaits(r, t)'
                        /\ \A t \in Slot : Awaits(r, t)' => state'[t] # "ZOMBIE"
      BY DEF Reasons
    <2>1. r # p /\ WaitsInCall(r)
      BY <1>1, <1>2 DEF WaitsInCall
    <2>2. /\ r # parent[p]
          /\ (\E q \in Children(p) : state[q] = "ZOMBIE") => r # initproc
      BY <2>1, LeaveWakes DEF Reasons, WaitsInCall
    <2>3. \A t \in Slot : Awaits(r, t) => Awaits(r, t)'
      BY <2>1, <1>2 DEF Awaits
    <2>4. ASSUME NEW t \in Slot, Awaits(r, t)'
          PROVE  t # p /\ (Awaits(r, t) \/ (parent[t] = p /\ r = initproc))
      <3>1. parent[p] # p
        BY DEF Alone
      <3> QED BY <2>2, <2>4, <3>1, <1>2 DEF Awaits
    <2>5. \A t \in Slot : Awaits(r, t)' => state'[t] # "ZOMBIE"
      <3> SUFFICES ASSUME NEW t \in Slot, Awaits(r, t)' PROVE state'[t] # "ZOMBIE"
        OBVIOUS
      <3>1. CASE Awaits(r, t)
        BY <2>1, <2>4, <3>1, <1>1 DEF Reasons
      <3>2. CASE parent[t] = p /\ r = initproc
        BY <2>2, <2>4, <3>2, <1>1 DEF Children
      <3> QED BY <2>4, <3>1, <3>2
    <2> QED BY <2>1, <2>3, <2>5, <1>2 DEF Reasons
  <1>11. Counted'
    <2>1. \A r \in Slot : Made(r)' = Made(r)
      BY <1>2, <1>3 DEF Made
    <2> QED BY <1>2, <1>3, <2>1 DEF Counted
  <1> QED BY <1>5, <1>6, <1>7, <1>8, <1>9, <1>10, <1>11

(* A zombie is a thread just if it is join that collects it.  join finds   *)
(* its creator by pid, and it is the caller; wait frees the space.         *)
LEMMA ReapKind ==
  ASSUME TypeOK, TableInv, TInv, NEW p \in Slot, NEW q \in Slot,
         Running(p), pc[p] \in {"wait", "join"}, Awaits(p, q), state[q] = "ZOMBIE"
  PROVE  /\ pc[p] = "join" => IsThread(q) /\ pgdir[q] = pgdir[p]
                                /\ parent_pid[q] = pid[p] /\ Creators(q) # {}
         /\ pc[p] = "wait" => ~IsThread(q) /\ Creators(q) = {}
  <1>1. Lives(q) /\ parent[q] = p /\ q # initproc
    BY InitSlot DEF Awaits, Lives, TableInv, InitLives
  <1>2. IsThread(q) => pgdir[q] = pgdir[p] /\ parent_pid[q] = pid[p]
    BY <1>1 DEF TInv, ThreadsBelong
  <1>3. ~IsThread(q) => pgdir[q] # pgdir[p]
    BY <1>1 DEF TInv, OwnSpaces
  <1>4. CASE pc[p] = "join"
    BY <1>2, <1>3, <1>4 DEF Awaits, Creators
  <1>5. CASE pc[p] = "wait"
    <2>1. ~IsThread(q)
      BY <1>2, <1>5 DEF Awaits
    <2>2. \A r \in Slot : pid[r] # -1
      BY DEF TypeOK
    <2> QED BY <1>5, <2>1, <2>2 DEF IsThread, Creators
  <1> QED BY <1>4, <1>5

LEMMA ReapThreads ==
  ASSUME TypeOK, TableInv, TInv, NEW p \in Slot, NEW q \in Slot,
         Running(p), pc[p] \in {"wait", "join"}, Awaits(p, q), state[q] = "ZOMBIE",
         Reap(q, pc[p]),
         pc' = [pc EXCEPT ![p] = "user"], chan' = [chan EXCEPT ![p] = NoChan],
         UNCHANGED << pgdir, parent_pid >>
  PROVE  TInv'
  <1>1. /\ state[p] = "RUNNING" /\ Lives(p) /\ CanRun(p) /\ InUse(p) /\ p # q
        /\ Lives(q) /\ ~CanRun(q) /\ parent[q] = p
    BY DEF Running, Lives, CanRun, InUse, Awaits
  <1>2. /\ ~kstack'[q] /\ state'[q] = "UNUSED" /\ parent'[q] = NoSlot
        /\ \A r \in Slot : r # q =>
             /\ kstack'[r] = kstack[r] /\ state'[r] = state[r] /\ pid'[r] = pid[r]
             /\ parent'[r] = parent[r] /\ killed'[r] = killed[r]
        /\ pc'[p] = "user" /\ \A r \in Slot : r # p => pc'[r] = pc[r] /\ chan'[r] = chan[r]
    BY DEF Reap, Unkilled, TypeOK
  <1>3. \A r \in Slot : num_child'[r] = IF pid[r] = parent_pid[q] THEN num_child[r] - 1
                                                                 ELSE num_child[r]
    BY DEF Reap, Creators
  <1>4. /\ ~Lives(q)' /\ ~CanRun(q)'
        /\ \A r \in Slot : r # q => (Lives(r)' <=> Lives(r))
        /\ \A r \in Slot : CanRun(r)' <=> CanRun(r)
        /\ \A r \in Slot : IsThread(r)' <=> IsThread(r)
    BY <1>1, <1>2 DEF Lives, CanRun, IsThread
  <1>5. \A r \in Slot : parent[r] # q
    BY <1>1, NoChildrenYet
  <1> USE DEF TInv
  <1>6. badfree' = badfree
        /\ \/ pc[p] = "join" /\ live' = live
           \/ pc[p] = "wait" /\ live' = live \ {pgdir[q]}
    <2>1. pgdir[q] \in live
      BY <1>1 DEF OwnSpaces
    <2>2. CASE pc[p] = "join"
      BY <2>2, ReapKind DEF Reap, FreesSpace, memvars
    <2>3. CASE pc[p] = "wait"
      <3>1. freevm(pgdir[q])
        BY <2>3, ReapKind DEF Reap, FreesSpace
      <3>2. live' = live \ {pgdir[q]} /\ badfree' = (badfree \/ pgdir[q] \notin live)
        BY <3>1 DEF freevm
      <3>3. badfree' = badfree
        BY <2>1, <3>2 DEF TypeOK
      <3> QED BY <2>3, <3>2, <3>3
    <2> QED BY <2>2, <2>3
  <1>7. pc[p] = "wait" => \A r \in Slot : Lives(r) /\ r # q => pgdir[r] # pgdir[q]
    <2>1. Alone(q)
      BY <1>5 DEF Alone
    <2> QED BY <1>1, <2>1, ReapKind, SpaceIsOwn
  <1>8. Unborn'
    <2>1. \A r \in Slot : state'[r] = "EMBRYO" =>
             r # q /\ parent_pid[r] = -1 /\ num_child[r] = 0
      BY <1>2 DEF Unborn
    <2>2. \A r \in Slot : state'[r] = "EMBRYO" => num_child'[r] = 0
      <3> SUFFICES ASSUME NEW r \in Slot, state[r] = "EMBRYO"
                   PROVE  pid[r] # parent_pid[q]
        BY <1>2, <1>3, <2>1
      <3>1. InUse(r) /\ r # p
        BY <1>1 DEF InUse
      <3> QED BY <3>1, <1>1, ReapKind DEF TableInv, PidUnique, IsThread, TypeOK
    <2> QED BY <1>2, <1>4, <2>1, <2>2 DEF Unborn
  <1>9. ThreadsBelong'
    BY <1>2, <1>4, <1>5 DEF ThreadsBelong
  <1>10. OwnSpaces'
    <2>1. \A r \in Slot : Lives(r)' => pgdir'[r] \in live'
      BY <1>4, <1>6, <1>7 DEF OwnSpaces
    <2>2. \A r \in Slot : Lives(r)' /\ ~IsThread(r)' /\ r # initproc
                            => pgdir'[parent'[r]] # pgdir'[r]
      BY <1>2, <1>4 DEF OwnSpaces
    <2> QED BY <1>4, <2>1, <2>2 DEF OwnSpaces
  <1>11. SpacesUsed'
    <2> SUFFICES ASSUME NEW s \in live' PROVE \E r \in Slot : Lives(r)' /\ pgdir'[r] = s
      BY <1>6 DEF SpacesUsed
    <2>1. PICK r \in Slot : Lives(r) /\ pgdir[r] = s
      BY <1>6 DEF SpacesUsed
    <2>2. CASE r # q
      BY <2>1, <2>2, <1>4
    <2>3. CASE r = q
      <3>1. pc[p] = "join" /\ pgdir[q] = pgdir[p]
        BY <2>1, <2>3, <1>6, ReapKind
      <3> QED BY <3>1, <2>1, <2>3, <1>1, <1>4
    <2> QED BY <2>2, <2>3
  <1>12. EndsAlone'
    <2>1. \A r \in Slot : Alone(r) => Alone(r)'
      BY <1>2, InitSlot DEF Alone
    <2> QED BY <1>1, <1>2, <1>4, <2>1 DEF EndsAlone
  <1>13. Reasons'
    <2> SUFFICES ASSUME NEW r \in Slot, WaitsInCall(r)'
                 PROVE  /\ chan'[r] = r
                        /\ \E t \in Slot : Awaits(r, t)'
                        /\ \A t \in Slot : Awaits(r, t)' => state'[t] # "ZOMBIE"
      BY DEF Reasons
    <2>1. r # p /\ r # q /\ WaitsInCall(r)
      BY <1>1, <1>2 DEF WaitsInCall
    <2>2. \A t \in Slot : Awaits(r, t)' <=> Awaits(r, t)
      BY <2>1, <1>1, <1>2, InitSlot DEF Awaits
    <2>3. \A t \in Slot : state'[t] = "ZOMBIE" => state[t] = "ZOMBIE"
      BY <1>2
    <2> QED BY <2>1, <2>2, <2>3, <1>2 DEF Reasons
  <1>14. Counted'
    <2> SUFFICES ASSUME NEW r \in Slot, CanRun(r)
                 PROVE  num_child'[r] = Cardinality(Made(r)')
      BY <1>4 DEF Counted
    <2>1. r # q /\ pid'[r] = pid[r] /\ num_child[r] = Cardinality(Made(r)) /\ InUse(r)
      BY <1>1, <1>2 DEF Counted, InUse, CanRun
    <2>2. Made(r)' = Made(r) \ {q}
      BY <2>1, <1>4 DEF Made
    <2>3. CASE pid[r] = parent_pid[q]
      <3>1. q \in Made(r)
        BY <2>3, <1>1 DEF Made
      <3>2. Cardinality(Made(r) \ {q}) = Cardinality(Made(r)) - 1
        BY <3>1, MadeFinite, FS_RemoveElement
      <3> QED BY <2>1, <2>2, <2>3, <3>2, <1>3
    <2>4. CASE pid[r] # parent_pid[q]
      <3>1. Made(r)' = Made(r)
        BY <2>2, <2>4 DEF Made
      <3> QED BY <2>1, <2>4, <3>1, <1>3
    <2> QED BY <2>3, <2>4
  <1> QED BY <1>8, <1>9, <1>10, <1>11, <1>12, <1>13, <1>14

LEMMA CollectThreads ==
  ASSUME TypeOK, TableInv, TInv, NEW p \in Slot, Collect(p)
  PROVE  TInv'
  <1> DEFINE mine == Mine(p, pc[p])
             zombies == Collectable(mine)
  <1>1. /\ Running(p) /\ pc[p] \in {"wait", "join"}
        /\ UNCHANGED << pgdir, parent_pid >>
    BY DEF Collect
  <1>2. CASE zombies # {}
    <2>1. zombies \in SUBSET Slot
      BY DEF Collectable, Mine, Children
    <2>2. PICK q \in zombies : q = Min(zombies)
      BY <1>2, <2>1, MinSlot
    <2>3. q \in Slot /\ state[q] = "ZOMBIE" /\ Awaits(p, q)
      BY <2>2, <1>1, MineIsAwaited DEF Collectable, Mine, Children
    <2>4. /\ Reap(q, pc[p]) /\ pc' = [pc EXCEPT ![p] = "user"]
          /\ chan' = [chan EXCEPT ![p] = NoChan]
      BY <1>2, <2>2 DEF Collect
    <2> QED BY <1>1, <2>3, <2>4, ReapThreads
  <1>3. CASE zombies = {}
    <2>1. /\ UNCHANGED << pid, parent, killed, kstack, num_child, memvars >>
          /\ \/ /\ pc' = [pc EXCEPT ![p] = "user"] /\ state' = state
                /\ chan' = [chan EXCEPT ![p] = NoChan]
             \/ /\ mine # {} /\ pc' = pc /\ state' = [state EXCEPT ![p] = "SLEEPING"]
                /\ chan' = [chan EXCEPT ![p] = p]
      BY <1>3 DEF Collect
    <2>2. \A q \in Slot : q # p => /\ pc'[q] = pc[q] /\ state'[q] = state[q]
                                   /\ chan'[q] = chan[q]
      BY <2>1 DEF TypeOK
    <2>3. \A q \in Slot : state'[q] = state[q] \/ (CanRun(q) /\ CanRun(q)')
      BY <1>1, <2>1, <2>2 DEF TypeOK, CanRun, Running
    <2>4. WaitsInCall(p)' =>
            /\ chan'[p] = p /\ pc'[p] = pc[p]
            /\ \E r \in Slot : Awaits(p, r)
            /\ \A r \in Slot : Awaits(p, r) => state[r] # "ZOMBIE"
      <3>1. (\E r \in Slot : Awaits(p, r)) <=> mine # {}
        BY <1>1, MineIsAwaited DEF Mine, Children
      <3>2. \A r \in Slot : Awaits(p, r) => state[r] # "ZOMBIE"
        BY <1>1, <1>3, MineIsAwaited DEF Collectable
      <3>3. WaitsInCall(p)' => mine # {} /\ pc'[p] = pc[p] /\ chan'[p] = p
        BY <1>1, <2>1 DEF TypeOK, WaitsInCall, Running
      <3> QED BY <3>1, <3>2, <3>3
    <2>5. \A q \in Slot : q # p /\ WaitsInCall(q)' => WaitsInCall(q)
      BY <2>2 DEF WaitsInCall
    <2>6. \A q \in Slot : pc'[q] = pc[q] \/ pc'[q] # "clone"
      BY <2>1 DEF TypeOK
    <2> QED BY <1>1, <2>1, <2>2, <2>3, <2>4, <2>5, <2>6, QuietThreads DEF threadvars
  <1> QED BY <1>2, <1>3

LEMMA ThreadStep == JoinFirst /\ IInv /\ TInv /\ [Next]_vars => TInv'
  <1> SUFFICES ASSUME JoinFirst, TypeOK, TableInv, TInv, [Next]_vars PROVE TInv'
    BY DEF IInv
  <1>1. CASE Tick
    BY <1>1, TickThreads
  <1>4. CASE InitFails
    <2>1. \A q \in Slot : \/ pc'[q] = pc[q]
                          \/ pc'[q] = "panic" /\ ~ WaitsInCall(q)'
      BY <1>4, InitFailsChanges, InitSlot DEF TypeOK, WaitsInCall
    <2>2. \A q \in Slot : WaitsInCall(q)' => WaitsInCall(q) /\ pc'[q] = pc[q]
      BY <1>4, <2>1, InitFailsChanges DEF WaitsInCall
    <2> QED BY <1>4, <2>1, <2>2, InitFailsChanges, QuietThreads
  <1>2. ASSUME NEW p \in Slot, Step(p) \/ Yield(p) \/ Run(p) PROVE TInv'
    <2>1. CASE ForkAlloc(p) \/ CloneAlloc(p)
      BY <2>1, AllocThreads
    <2>2. CASE AllocFails(p)
      BY <2>2, AllocFailsThreads
    <2>3. CASE ForkFinish(p) \/ CloneFinish(p)
      BY <2>3, ForkFinishThreads, CloneFinishThreads
    <2>4. CASE Exit(p)
      BY <2>4, LeaveThreads, AloneIsNoThreads DEF Exit, User, MayEnd
    <2>5. CASE ExitKilled(p)
      <3>1. Alone(p)
        BY <2>5 DEF TInv, EndsAlone, ExitKilled, Running, CanRun
      <3> QED BY <2>5, <3>1, LeaveThreads DEF ExitKilled
    <2>6. CASE Collect(p)
      BY <2>6, CollectThreads
    <2>7. CASE EnterWait(p) \/ EnterJoin(p) \/ EnterSleep(p)
      BY <2>7, EnterThreads
    <2>8. CASE exec(p)
      BY <2>8, ExecThreads
    <2>9. CASE \E n \in KillArgs : kill(p, n)
      BY <2>9, KillThreads
    <2>10. CASE SleepTest(p) \/ SleepOnTicks(p)
      BY <2>10, SleepThreads
    <2>11. CASE Yield(p) \/ Run(p)
      BY <2>11, SchedulingThreads
    <2> QED BY <1>2, <2>1, <2>2, <2>3, <2>4, <2>5, <2>6, <2>7, <2>8, <2>9, <2>10, <2>11
            DEF Step, Continue
  <1>3. CASE UNCHANGED vars
    <2>1. UNCHANGED << state, pid, parent, killed, chan, pgdir, kstack, threadvars, pc,
                       memvars >>
      BY <1>3 DEF vars
    <2>2. \A q \in Slot : WaitsInCall(q)' => WaitsInCall(q)
      BY <2>1 DEF WaitsInCall
    <2> QED BY <2>1, <2>2, QuietThreads
  <1> QED BY <1>1, <1>2, <1>3, <1>4 DEF Next

LEMMA ThreadInvariant == JoinFirst /\ Spec => []TInv
  <1>1. Init /\ JoinFirst => JoinFirst /\ TInv
    BY InitThreads
  <1>2. (JoinFirst /\ TInv) /\ IInv /\ [Next]_vars => (JoinFirst /\ TInv)'
    BY ThreadStep
  <1> QED BY <1>1, <1>2, Invariant, PTL DEF Spec

---------------------------------------------------------------------------
(* For programs that join their threads first: a space is freed once, when *)
(* the last process in it has been collected, and nothing is left over     *)
(* (wait, join, exec, exit, the failures of fork).                         *)
THEOREM SpacesOrdered == JoinFirst /\ Spec => []SpacesInOrder
  <1>1. TInv => SpacesInOrder
    BY SpacesImply DEF TInv
  <1> QED BY <1>1, ThreadInvariant, PTL

(* No lost wakeup: nobody sleeps in wait or join without a child to wait   *)
(* for, or with one that he could collect, whoever ends, execs, is killed  *)
(* or is handed to init meanwhile.                                         *)
THEOREM SleepersDue == JoinFirst /\ Spec => []SleeperHasReason
  <1>1. TInv => SleeperHasReason
    BY SleepersImply DEF TInv
  <1> QED BY <1>1, ThreadInvariant, PTL

(* num_child, which clone raises and wait and join lower through a search  *)
(* for the creator's pid, is the number of threads not joined yet.         *)
THEOREM ThreadsCounted == JoinFirst /\ Spec => []NumChildCounts
  <1>1. TInv => NumChildCounts
    BY CountedImplies DEF TInv
  <1> QED BY <1>1, ThreadInvariant, PTL
=============================================================================
