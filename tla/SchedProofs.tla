---------------------------- MODULE SchedProofs ----------------------------
(***************************************************************************)
(* Theorems about Sched for any number of processors and processes, any    *)
(* allowances and any size of the ring: the types, and that allowances are *)
(* kept and used up.                                                       *)
(*                                                                         *)
(* That no process runs more often than its allowance needs that what is   *)
(* tested is still so when it is charged: the process that was dispatched  *)
(* is RUNNING, nobody else runs it, and nobody but the processor that runs *)
(* it takes that away.  That the allowance is used up needs that fork sets *)
(* the child's fields before the child runs; on one processor that is so   *)
(* unless the timer interrupts the parent there.                           *)
(***************************************************************************)
EXTENDS Sched, TLAPS, FiniteSetTheorems, Numbers

States == {"UNUSED", "EMBRYO", "SLEEPING", "RUNNABLE", "RUNNING", "ZOMBIE"}

\* Who has the lock is in the walk and runs nobody.
LockIsWalk == \A c \in CPU : lock = c => runs[c] = None /\ scan[c] # None

\* A process runs on one processor, which comes back to the slot's visit.
RunsAlone ==
  /\ \A c \in CPU : runs[c] # None =>
        scan[c] \in Slot /\ state[runs[c]] = "RUNNING"
  /\ \A c, d \in CPU : runs[c] = runs[d] /\ runs[c] # None => c = d

\* A slot that is being filled has one parent, which keeps it from being
\* given to others.
ForksApart ==
  \A p \in Slot :
    /\ pc[p] # "user" <=> np[p] # None
    /\ pc[p] # "user" => state[np[p]] # "UNUSED"
    /\ pc[p] = "fork" => state[np[p]] = "EMBRYO"
    /\ \A q \in Slot : np[p] = np[q] /\ np[p] # None => p = q

\* AllowanceKept without counting: nobody has more, and whoever runs less.
KeptEach ==
  \A p \in Slot : \A k \in 0 .. 2 :
    /\ slice[p][k] <= Quantum[k]
    /\ \A c \in CPU : runs[c] = p /\ level[c] = k => slice[p][k] < Quantum[k]

IInv == TypeOK /\ LockIsWalk /\ RunsAlone /\ ForksApart /\ KeptEach

---------------------------------------------------------------------------
LEMMA Constants ==
  /\ None \notin CPU /\ None \notin Slot /\ bootcpu \in CPU
  /\ \A k \in 0 .. 2 : Quantum[k] \in Nat \ {0}
  /\ QLEN \in Nat \ {0} /\ SizeCap \in Nat /\ BumpEvery \in Nat \ {0}
  /\ RoundRobin \in Nat \ {0} /\ NPROC \in Nat \ {0} /\ MaxPid \in Nat \ {0}
  /\ None \in Int
  BY SchedAssumption DEF None, Slot

(* The counters of the ring, of the ticks and of the turns wrap around.    *)
LEMMA NextIndex ==
  ASSUME NEW n \in Nat \ {0}, NEW a \in 0 .. n - 1
  PROVE  (a + 1) % n \in 0 .. n - 1
         /\ ((a + 1) % n # 0 => a + 1 \in 0 .. n - 1)
  BY Wrap

LEMMA InitIInv == Init => IInv
  <1> SUFFICES ASSUME Init PROVE IInv
    OBVIOUS
  <1> USE Constants DEF Init
  <1>1. TypeOK
    <2>1. /\ 1 \in Slot /\ {0, 1} \subseteq 0 .. MaxPid /\ 2 \in 2 .. MaxPid + 1
          /\ 0 \in Level /\ 0 \in 0 .. RoundRobin - 1 /\ 0 \in 0 .. NPROC + 1
          /\ QLEN - 1 \in 0 .. QLEN - 1 /\ 0 \in 0 .. QLEN - 1 /\ 0 \in 0 .. BumpEvery - 1
      BY DEF Slot, Level
    <2>2. slice \in [Slot -> [0 .. 2 -> Nat]]
      OBVIOUS
    <2>3. scan \in [CPU -> 0 .. NPROC + 1]
      BY <2>1 DEF None
    <2> QED BY <2>1, <2>2, <2>3 DEF TypeOK
  <1>2. LockIsWalk /\ RunsAlone /\ ForksApart
    BY DEF LockIsWalk, RunsAlone, ForksApart
  <1>3. KeptEach
    <2> SUFFICES ASSUME NEW p \in Slot, NEW k \in 0 .. 2
                 PROVE  /\ slice[p][k] <= Quantum[k]
                        /\ \A c \in CPU : runs[c] = p /\ level[c] = k => slice[p][k] < Quantum[k]
      BY DEF KeptEach
    <2>1. slice[p][k] = 0 /\ \A c \in CPU : runs[c] # p
      OBVIOUS
    <2> QED BY <2>1
  <1> QED BY <1>1, <1>2, <1>3 DEF IInv

---------------------------------------------------------------------------
(* The walk. *)

(* The next slot, for who has the lock.                                    *)
LEMMA GoOnMoves ==
  ASSUME IInv, NEW c \in CPU, NEW p \in Slot, Visits(c, p), GoOn(c)
  PROVE  /\ runs[c] = None /\ lock = c
         /\ scan' \in [CPU -> 0 .. NPROC + 1] /\ scan'[c] # None
         /\ \A d \in CPU \ {c} : scan'[d] = scan[d]
  <1>1. scan \in [CPU -> 0 .. NPROC + 1] /\ scan' = [scan EXCEPT ![c] = @ + 1]
    BY DEF IInv, TypeOK, GoOn
  <1>2. scan[c] = p /\ lock = c /\ p \in 1 .. NPROC
    BY DEF Visits, Slot
  <1>3. scan[c] + 1 \in 1 .. NPROC + 1
    BY <1>2, Constants
  <1>4. scan[c] + 1 \in 0 .. NPROC + 1 /\ scan[c] + 1 # None
    BY <1>3 DEF None
  <1>5. runs[c] = None
    BY <1>2 DEF IInv, LockIsWalk
  <1> QED BY <1>1, <1>2, <1>4, <1>5

(* What the scheduler does without dispatching anybody.                    *)
LEMMA WalkFrame ==
  ASSUME IInv, NEW c \in CPU, runs[c] = None,
         lock \in {c, None}, lock' \in {c, None},
         \A d \in CPU \ {c} : scan'[d] = scan[d],
         lock' = c => scan'[c] # None,
         state' = state, runs' = runs, level' = level, slice' = slice,
         pc' = pc, np' = np
  PROVE  LockIsWalk' /\ RunsAlone' /\ ForksApart' /\ KeptEach'
  <1>1. LockIsWalk'
    <2> SUFFICES ASSUME NEW d \in CPU, lock' = d PROVE runs'[d] = None /\ scan'[d] # None
      BY DEF LockIsWalk
    <2>1. d = c
      BY Constants
    <2> QED BY <2>1
  <1>2. RunsAlone'
    BY DEF IInv, RunsAlone
  <1>3. ForksApart' /\ KeptEach'
    BY DEF IInv, ForksApart, KeptEach
  <1> QED BY <1>1, <1>2, <1>3

LEMMA BeginWalkKeeps == ASSUME IInv, NEW c \in CPU, BeginWalk(c) PROVE IInv'
  <1> USE DEF BeginWalk
  <1>1. 1 \in 0 .. NPROC + 1 /\ 1 # None
    BY Constants DEF None
  <1>2. scan \in [CPU -> 0 .. NPROC + 1]
    BY DEF IInv, TypeOK
  <1>3. /\ scan' \in [CPU -> 0 .. NPROC + 1] /\ scan'[c] # None
        /\ \A d \in CPU \ {c} : scan'[d] = scan[d]
    BY <1>1, <1>2
  <1>4. TypeOK'
    BY <1>3 DEF IInv, TypeOK, procvars, ring, forkvars
  <1> QED BY <1>3, <1>4, WalkFrame DEF IInv, procvars, forkvars

LEMMA EndWalkKeeps == ASSUME IInv, NEW c \in CPU, EndWalk(c) PROVE IInv'
  <1> USE DEF EndWalk
  <1>1. None \in 0 .. NPROC + 1 /\ None # c
    BY Constants DEF None
  <1>2. scan \in [CPU -> 0 .. NPROC + 1] /\ runs[c] = None
    BY DEF IInv, TypeOK, LockIsWalk
  <1>3. /\ scan' \in [CPU -> 0 .. NPROC + 1]
        /\ \A d \in CPU \ {c} : scan'[d] = scan[d]
    BY <1>1, <1>2
  <1>4. TypeOK'
    BY <1>3 DEF IInv, TypeOK, procvars, ring, forkvars
  <1> QED BY <1>1, <1>2, <1>3, <1>4, WalkFrame DEF IInv, procvars, forkvars

LEMMA SkipKeeps == ASSUME IInv, NEW c \in CPU, Skip(c) PROVE IInv'
  <1>1. PICK p \in Slot : Visits(c, p) /\ GoOn(c)
    BY DEF Skip
  <1>2. /\ runs[c] = None /\ lock = c
        /\ scan' \in [CPU -> 0 .. NPROC + 1] /\ scan'[c] # None
        /\ \A d \in CPU \ {c} : scan'[d] = scan[d]
    BY <1>1, GoOnMoves
  <1>3. TypeOK'
    BY <1>2 DEF Skip, IInv, TypeOK, procvars, ring, forkvars
  <1> QED BY <1>2, <1>3, WalkFrame DEF Skip, IInv, procvars, forkvars

LEMMA DemoteKeeps == ASSUME IInv, NEW c \in CPU, Demote(c) PROVE IInv'
  <1>1. PICK p \in Slot : /\ Visits(c, p) /\ GoOn(c) /\ priority[p] < 3
                          /\ priority' = [priority EXCEPT ![p] = @ + 1]
    BY DEF Demote
  <1>2. /\ runs[c] = None /\ lock = c
        /\ scan' \in [CPU -> 0 .. NPROC + 1] /\ scan'[c] # None
        /\ \A d \in CPU \ {c} : scan'[d] = scan[d]
    BY <1>1, GoOnMoves
  <1>3. priority' \in [Slot -> Level]
    <2>1. priority \in [Slot -> Level]
      BY DEF IInv, TypeOK
    <2>2. priority[p] + 1 \in Level
      BY <1>1, <2>1 DEF Level
    <2> QED BY <1>1, <2>1, <2>2
  <1>4. TypeOK'
    <2>1. /\ UNCHANGED << state, pid, slice, starved, p3ticks, lock, proc, runs,
                          level, ticks, bumpdue >>
          /\ UNCHANGED << front, rear, size, p3q, nextpid, pc, np, torn >>
      BY DEF Demote, ring, forkvars
    <2> QED BY <1>2, <1>3, <2>1 DEF IInv, TypeOK
  <1> QED BY <1>2, <1>4, WalkFrame DEF Demote, IInv, forkvars

LEMMA StartKeeps ==
  ASSUME IInv, NEW c \in CPU, NEW p \in Slot, Visits(c, p), state[p] = "RUNNABLE",
         Start(c, p),
         front' = front, rear' \in 0 .. QLEN - 1, size' \in Int,
         p3q' \in [0 .. QLEN - 1 -> 0 .. MaxPid],
         priority[p] < 3 => ~SpentAt(p, priority[p])
  PROVE  IInv'
  <1> USE Constants DEF IInv
  <1>1. TypeOK'
    <2>1. /\ state' \in [Slot -> States] /\ starved' \in [Slot -> BOOLEAN]
          /\ proc' \in [CPU -> Slot \cup {None}] /\ runs' \in [CPU -> Slot \cup {None}]
          /\ level' \in [CPU -> Level] /\ lock' \in CPU \cup {None}
      BY DEF TypeOK, Start, States
    <2> QED BY <2>1 DEF TypeOK, Start, States, forkvars
  <1>2. runs[c] = None /\ scan[c] = p /\ scan' = scan /\ lock' = None
        /\ \A d \in CPU : runs[d] # p
    BY DEF LockIsWalk, RunsAlone, Visits, Start
  <1>3. /\ \A q \in Slot : state'[q] = IF q = p THEN "RUNNING" ELSE state[q]
        /\ \A d \in CPU : /\ runs'[d] = IF d = c THEN p ELSE runs[d]
                          /\ level'[d] = IF d = c THEN priority[p] ELSE level[d]
    BY DEF TypeOK, Start
  <1>4. LockIsWalk'
    BY <1>2 DEF LockIsWalk
  <1>5. RunsAlone'
    <2>1. ASSUME NEW d \in CPU, runs'[d] # None
          PROVE  scan'[d] \in Slot /\ state'[runs'[d]] = "RUNNING"
      <3>1. CASE d = c
        BY <1>2, <1>3, <3>1
      <3>2. CASE d # c
        <4>1. runs[d] \in Slot \cup {None}
          BY DEF TypeOK
        <4>2. runs'[d] = runs[d] /\ runs[d] # p /\ runs[d] \in Slot
          BY <1>2, <1>3, <2>1, <3>2, <4>1
        <4> QED BY <1>2, <1>3, <2>1, <4>2 DEF RunsAlone
      <3> QED BY <3>1, <3>2
    <2>2. ASSUME NEW d \in CPU, NEW e \in CPU, runs'[d] = runs'[e], runs'[d] # None
          PROVE  d = e
      <3>1. d = c <=> e = c
        BY <1>2, <1>3, <2>2
      <3>2. CASE d # c /\ e # c
        BY <1>3, <2>2, <3>2 DEF RunsAlone
      <3> QED BY <3>1, <3>2
    <2> QED BY <2>1, <2>2 DEF RunsAlone
  <1>6. ForksApart'
    <2>1. \A q \in Slot : pc[q] # "user" => np[q] \in Slot
      BY DEF ForksApart, TypeOK
    <2>2. pc' = pc /\ np' = np
      BY DEF Start, forkvars
    <2>3. \A q \in Slot : state[q] = "EMBRYO" => state'[q] = "EMBRYO"
      BY <1>3
    <2>4. \A q \in Slot : state[q] # "UNUSED" => state'[q] # "UNUSED"
      BY <1>3
    <2> QED BY <2>1, <2>2, <2>3, <2>4 DEF ForksApart
  <1>7. KeptEach'
    <2> SUFFICES ASSUME NEW q \in Slot, NEW k \in 0 .. 2
                 PROVE  /\ slice'[q][k] <= Quantum[k]
                        /\ \A d \in CPU : runs'[d] = q /\ level'[d] = k => slice'[q][k] < Quantum[k]
      BY DEF KeptEach
    <2>0. slice \in [Slot -> [0 .. 2 -> Nat]]
      BY DEF TypeOK
    <2>1. slice' = slice /\ slice[q][k] \in Nat /\ Quantum[k] \in Nat
      BY <2>0 DEF Start
    <2>2. slice[q][k] <= Quantum[k]
      BY DEF KeptEach
    <2>3. ASSUME NEW d \in CPU, runs'[d] = q, level'[d] = k PROVE slice[q][k] < Quantum[k]
      <3>1. CASE d = c
        <4>1. q = p /\ priority[p] = k /\ priority[p] < 3
          BY <1>3, <2>3, <3>1
        <4> QED BY <4>1, <2>1 DEF SpentAt
      <3>2. CASE d # c
        BY <1>3, <2>3, <3>2 DEF KeptEach
      <3> QED BY <3>1, <3>2
    <2> QED BY <2>1, <2>2, <2>3
  <1> QED BY <1>1, <1>4, <1>5, <1>6, <1>7

LEMMA DispatchKeeps == ASSUME IInv, NEW c \in CPU, Dispatch(c) PROVE IInv'
  <1>1. PICK p \in Slot : /\ Visits(c, p) /\ state[p] = "RUNNABLE"
                          /\ priority[p] < 3 /\ ~SpentAt(p, priority[p])
                          /\ Start(c, p)
    BY DEF Dispatch
  <1>2. /\ front' = front /\ rear' \in 0 .. QLEN - 1 /\ size' \in Int
        /\ p3q' \in [0 .. QLEN - 1 -> 0 .. MaxPid]
    BY DEF Dispatch, ring, IInv, TypeOK
  <1> QED BY <1>1, <1>2, StartKeeps

LEMMA VisitLastKeeps == ASSUME IInv, NEW c \in CPU, VisitLast(c) PROVE IInv'
  <1> USE Constants
  <1>1. PICK p \in Slot :
          /\ Visits(c, p) /\ state[p] = "RUNNABLE" /\ priority[p] = 3
          /\ addq(pid[p]) /\ front' = front
          /\ \/ Start(c, p)
             \/ GoOn(c) /\ UNCHANGED << procvars, lock, proc, runs, level, forkvars,
                                       ticks, bumpdue >>
    BY DEF VisitLast
  <1>2. /\ rear' \in 0 .. QLEN - 1 /\ size' \in Int
        /\ p3q' \in [0 .. QLEN - 1 -> 0 .. MaxPid]
    <2>1. (rear + 1) % QLEN \in 0 .. QLEN - 1
      BY NextIndex DEF IInv, TypeOK
    <2>2. size + 1 \in Int /\ SizeCap \in Int
      BY DEF IInv, TypeOK
    <2>3. Min({size + 1, SizeCap}) \in Int
      BY <2>2, MinOfTwo
    <2>4. pid[p] \in 0 .. MaxPid
      BY DEF IInv, TypeOK
    <2> QED BY <1>1, <2>1, <2>3, <2>4 DEF addq, IInv, TypeOK
  <1>3. CASE Start(c, p)
    BY <1>1, <1>2, <1>3, StartKeeps
  <1>4. CASE GoOn(c) /\ UNCHANGED << procvars, lock, proc, runs, level, forkvars, ticks, bumpdue >>
    <2>1. /\ runs[c] = None /\ lock = c
          /\ scan' \in [CPU -> 0 .. NPROC + 1] /\ scan'[c] # None
          /\ \A d \in CPU \ {c} : scan'[d] = scan[d]
      BY <1>1, <1>4, GoOnMoves
    <2>2. /\ UNCHANGED << state, pid, priority, slice, starved, p3ticks, lock, proc,
                          runs, level >>
          /\ UNCHANGED << ticks, bumpdue, nextpid, pc, np, torn >> /\ front' = front
      BY <1>1, <1>4 DEF procvars, forkvars
    <2>3. TypeOK'
      BY <1>2, <2>1, <2>2 DEF IInv, TypeOK
    <2> QED BY <2>1, <2>2, <2>3, WalkFrame DEF IInv
  <1> QED BY <1>1, <1>3, <1>4

---------------------------------------------------------------------------
(* Giving up the processor, for the timer, to wait or for good.            *)

LEMMA LeaveKeeps ==
  ASSUME IInv, NEW c \in CPU, NEW st \in {"RUNNABLE", "SLEEPING", "ZOMBIE"},
         Leave(c, st), pc' = pc,
         ticks' \in 0 .. BumpEvery - 1, bumpdue' \in SUBSET Slot
  PROVE  IInv'
  <1> DEFINE p == runs[c]
  <1>1. /\ p \in Slot /\ p # None /\ state[p] = "RUNNING" /\ scan[c] \in Slot
        /\ level[c] \in Level /\ \A d \in CPU \ {c} : runs[d] # p
    BY DEF IInv, TypeOK, RunsAlone, Leave
  <1>2. /\ state' = [state EXCEPT ![p] = st]
        /\ runs' = [runs EXCEPT ![c] = None] /\ level' = [level EXCEPT ![c] = 0]
        /\ torn' = IF InitialisesChild(p) THEN torn \cup {np[p]} ELSE torn
        /\ UNCHANGED << pid, priority, starved, proc, nextpid, np >>
    BY DEF Leave
  <1>3. slice' = IF level[c] < 3 THEN [slice EXCEPT ![p] = Charged(@, level[c])] ELSE slice
    BY DEF Leave
  <1>4. /\ scan' \in [CPU -> 0 .. NPROC + 1]
        /\ \A d \in CPU \ {c} : scan'[d] = scan[d]
        /\ lock' \in {c, None} /\ (lock' = c => scan'[c] # None)
    <2>1. scan \in [CPU -> 0 .. NPROC + 1]
      BY DEF IInv, TypeOK
    <2>2. CASE level[c] = 0
      <3>1. scan' = [scan EXCEPT ![c] = None] /\ lock' = None
        BY <2>2 DEF Leave
      <3>2. None \in 0 .. NPROC + 1 /\ None # c
        BY Constants DEF None
      <3> QED BY <2>1, <3>1, <3>2
    <2>3. CASE level[c] # 0
      <3>1. scan' = [scan EXCEPT ![c] = @ + 1] /\ lock' = c
        BY <2>3 DEF Leave, GoOn
      <3>2. scan[c] + 1 \in 0 .. NPROC + 1 /\ scan[c] + 1 # None
        BY <1>1, Constants DEF None, Slot
      <3> QED BY <2>1, <3>1, <3>2
    <2> QED BY <2>2, <2>3
  <1>5. slice' \in [Slot -> [0 .. 2 -> Nat]]
    <2>1. slice \in [Slot -> [0 .. 2 -> Nat]]
      BY DEF IInv, TypeOK
    <2>2. CASE level[c] < 3
      <3>1. level[c] \in 0 .. 2
        BY <1>1, <2>2 DEF Level
      <3>2. Charged(slice[p], level[c]) \in [0 .. 2 -> Nat]
        BY <1>1, <2>1, <3>1 DEF Charged
      <3> QED BY <1>3, <2>1, <2>2, <3>2
    <2>3. CASE ~ (level[c] < 3)
      BY <1>3, <2>1, <2>3
    <2> QED BY <2>2, <2>3
  <1>6. /\ front' \in 0 .. QLEN - 1 /\ rear' \in 0 .. QLEN - 1 /\ size' \in Int
        /\ p3q' \in [0 .. QLEN - 1 -> 0 .. MaxPid]
        /\ p3ticks' \in [Slot -> 0 .. RoundRobin - 1]
    <2>1. /\ front \in 0 .. QLEN - 1 /\ rear \in 0 .. QLEN - 1 /\ size \in Int
          /\ p3q \in [0 .. QLEN - 1 -> 0 .. MaxPid]
          /\ p3ticks \in [Slot -> 0 .. RoundRobin - 1]
      BY DEF IInv, TypeOK
    <2>2. rear' = rear /\ p3q' = p3q
      BY DEF Leave, ring, remq
    <2>3. (front + 1) % QLEN \in 0 .. QLEN - 1 /\ size - 1 \in Int
      BY <2>1, NextIndex, Constants
    <2>4. front' \in 0 .. QLEN - 1 /\ size' \in Int
      BY <2>1, <2>3 DEF Leave, ring, remq
    <2>5. p3ticks[p] \in 0 .. RoundRobin - 1
      BY <1>1, <2>1
    <2>6. ~ TurnOver(p) => p3ticks[p] + 1 \in 0 .. RoundRobin - 1
      BY <2>5, NextIndex, Constants DEF TurnOver
    <2>7. 0 \in 0 .. RoundRobin - 1
      BY Constants
    <2>8. p3ticks' \in [Slot -> 0 .. RoundRobin - 1]
      BY <2>1, <2>6, <2>7 DEF Leave
    <2> QED BY <2>1, <2>2, <2>4, <2>8
  <1>7. TypeOK'
    <2>1. /\ state' \in [Slot -> {"UNUSED", "EMBRYO", "SLEEPING", "RUNNABLE", "RUNNING", "ZOMBIE"}]
          /\ runs' \in [CPU -> Slot \cup {None}]
          /\ level' \in [CPU -> Level]
          /\ lock' \in CPU \cup {None}
      <3>1. /\ state \in [Slot -> {"UNUSED", "EMBRYO", "SLEEPING", "RUNNABLE", "RUNNING", "ZOMBIE"}]
            /\ runs \in [CPU -> Slot \cup {None}] /\ level \in [CPU -> Level]
            /\ 0 \in Level
        BY DEF IInv, TypeOK, Level
      <3>2. state' \in [Slot -> {"UNUSED", "EMBRYO", "SLEEPING", "RUNNABLE", "RUNNING", "ZOMBIE"}]
        BY <1>1, <1>2, <3>1
      <3>3. lock' \in CPU \cup {None}
        BY <1>4
      <3> QED BY <1>2, <3>1, <3>2, <3>3
    <2>2. torn' \in SUBSET Slot
      <3>1. torn \in SUBSET Slot /\ np \in [Slot -> Slot \cup {None}]
        BY DEF IInv, TypeOK
      <3>2. InitialisesChild(p) => np[p] # None
        BY <1>1 DEF InitialisesChild, IInv, ForksApart
      <3> QED BY <1>1, <1>2, <3>1, <3>2
    <2> QED BY <1>2, <1>4, <1>5, <1>6, <2>1, <2>2 DEF IInv, TypeOK
  <1>8. /\ \A d \in CPU \ {c} : runs'[d] = runs[d] /\ level'[d] = level[d]
        /\ runs'[c] = None
        /\ \A q \in Slot : state'[q] = IF q = p THEN st ELSE state[q]
    BY <1>1, <1>2 DEF IInv, TypeOK
  <1>9. LockIsWalk'
    <2> SUFFICES ASSUME NEW d \in CPU, lock' = d PROVE runs'[d] = None /\ scan'[d] # None
      BY DEF LockIsWalk
    <2>1. d = c
      BY <1>4, Constants
    <2> QED BY <1>4, <1>8, <2>1
  <1>10. RunsAlone'
    <2>1. ASSUME NEW d \in CPU, runs'[d] # None
          PROVE  scan'[d] \in Slot /\ state'[runs'[d]] = "RUNNING"
      <3>1. d # c /\ runs'[d] = runs[d] /\ runs[d] # p /\ scan'[d] = scan[d]
        BY <1>1, <1>4, <1>8, <2>1
      <3>2. runs[d] \in Slot /\ scan[d] \in Slot /\ state[runs[d]] = "RUNNING"
        BY <2>1, <3>1 DEF IInv, TypeOK, RunsAlone
      <3> QED BY <1>8, <3>1, <3>2
    <2>2. ASSUME NEW d \in CPU, NEW e \in CPU, runs'[d] = runs'[e], runs'[d] # None
          PROVE  d = e
      <3>1. d # c /\ e # c
        BY <1>8, <2>2
      <3> QED BY <1>8, <2>2, <3>1 DEF IInv, RunsAlone
    <2> QED BY <2>1, <2>2 DEF RunsAlone
  <1>11. ForksApart'
    <2>1. \A q \in Slot : pc[q] # "user" => np[q] \in Slot
      BY DEF IInv, ForksApart, TypeOK
    <2>2. \A q \in Slot : state[q] = "EMBRYO" => state'[q] = "EMBRYO"
      BY <1>1, <1>8
    <2>3. \A q \in Slot : state[q] # "UNUSED" => state'[q] # "UNUSED"
      BY <1>1, <1>8
    <2> QED BY <1>2, <2>1, <2>2, <2>3 DEF IInv, ForksApart
  <1>12. KeptEach'
    <2> SUFFICES ASSUME NEW q \in Slot, NEW k \in 0 .. 2
                 PROVE  /\ slice'[q][k] <= Quantum[k]
                        /\ \A d \in CPU : runs'[d] = q /\ level'[d] = k => slice'[q][k] < Quantum[k]
      BY DEF KeptEach
    <2>0. slice \in [Slot -> [0 .. 2 -> Nat]]
      BY DEF IInv, TypeOK
    <2>1. slice[q][k] \in Nat /\ Quantum[k] \in Nat /\ slice[q][k] <= Quantum[k]
      BY <2>0, Constants DEF IInv, KeptEach
    <2>2. CASE q # p
      <3>1. slice'[q] = slice[q]
        BY <1>1, <1>3, <2>0, <2>2
      <3>2. \A d \in CPU : runs'[d] = q => d # c
        BY <1>8, Constants
      <3> QED BY <1>8, <2>1, <3>1, <3>2 DEF IInv, KeptEach
    <2>3. CASE q = p
      <3>1. \A d \in CPU : runs'[d] # q
        BY <1>1, <1>8, <2>3
      <3>2. slice'[q][k] <= Quantum[k]
        <4>1. CASE level[c] < 3 /\ level[c] = k
          <5>1. slice[q][k] < Quantum[k]
            BY <2>3, <4>1 DEF IInv, KeptEach
          <5>2. slice'[q][k] = slice[q][k] + 1
            BY <1>1, <1>3, <2>0, <2>3, <4>1 DEF Charged
          <5> QED BY <2>1, <5>1, <5>2
        <4>2. CASE level[c] < 3 /\ level[c] # k
          <5>1. slice'[q][k] = slice[q][k]
            BY <1>1, <1>3, <2>0, <2>3, <4>2 DEF Charged
          <5> QED BY <2>1, <5>1
        <4>3. CASE ~ (level[c] < 3)
          BY <1>3, <2>1, <4>3
        <4> QED BY <4>1, <4>2, <4>3
      <3> QED BY <3>1, <3>2
    <2> QED BY <2>2, <2>3
  <1> QED BY <1>7, <1>9, <1>10, <1>11, <1>12 DEF IInv

LEMMA NextTickTyped == ASSUME IInv, NEW c \in CPU PROVE NextTick(c) \in 0 .. BumpEvery - 1
  BY NextIndex, Constants DEF IInv, TypeOK, NextTick

LEMMA TimerYieldKeeps == ASSUME IInv, NEW c \in CPU, TimerYield(c) PROVE IInv'
  <1>1. Leave(c, "RUNNABLE") /\ pc' = pc /\ ticks' \in 0 .. BumpEvery - 1
    BY NextTickTyped DEF TimerYield
  <1>2. bumpdue' \in SUBSET Slot
    BY DEF TimerYield, IInv, TypeOK
  <1> QED BY <1>1, <1>2, LeaveKeeps

LEMMA SleepExitKeep == ASSUME IInv, NEW c \in CPU, Sleep(c) \/ Exit(c) PROVE IInv'
  <1>1. ticks' \in 0 .. BumpEvery - 1 /\ bumpdue' \in SUBSET Slot /\ pc' = pc
    BY DEF Sleep, Exit, IInv, TypeOK
  <1>2. Leave(c, "SLEEPING") \/ Leave(c, "ZOMBIE")
    BY DEF Sleep, Exit
  <1> QED BY <1>1, <1>2, LeaveKeeps

---------------------------------------------------------------------------
(* The boost changes only processes that nobody runs.                      *)
LEMMA BoostKeeps ==
  ASSUME IInv, bump_priority, UNCHANGED << cpuvars, forkvars >>,
         ticks' \in 0 .. BumpEvery - 1, bumpdue' \in SUBSET Slot
  PROVE  IInv'
  <1>1. UNCHANGED << state, pid, p3ticks, lock, scan, proc, runs, level, nextpid, pc, np, torn >>
    BY DEF bump_priority, cpuvars, forkvars
  <1>2. priority' \in [Slot -> Level]
    <2>1. priority \in [Slot -> Level]
      BY DEF IInv, TypeOK
    <2>2. \A p \in Slot : Boosted(p) => priority[p] - 1 \in Level
      BY <2>1 DEF Boosted, Level
    <2> QED BY <2>1, <2>2 DEF bump_priority
  <1>3. slice \in [Slot -> [0 .. 2 -> Nat]]
    BY DEF IInv, TypeOK
  <1>4. slice' \in [Slot -> [0 .. 2 -> Nat]]
    BY <1>3 DEF bump_priority
  <1>5. starved' \in [Slot -> BOOLEAN]
    BY DEF bump_priority, IInv, TypeOK
  <1>6. /\ front' \in 0 .. QLEN - 1 /\ rear' \in 0 .. QLEN - 1 /\ size' \in Int
        /\ p3q' \in [0 .. QLEN - 1 -> 0 .. MaxPid]
    <2>1. 0 \in 0 .. QLEN - 1 /\ QLEN - 1 \in 0 .. QLEN - 1
      BY Constants
    <2>2. /\ front \in 0 .. QLEN - 1 /\ rear \in 0 .. QLEN - 1 /\ size \in Int
          /\ p3q \in [0 .. QLEN - 1 -> 0 .. MaxPid]
      BY DEF IInv, TypeOK
    <2>3. CASE UNCHANGED ring
      BY <2>2, <2>3 DEF ring
    <2>4. CASE front' = 0 /\ rear' = QLEN - 1 /\ size' = 0 /\ UNCHANGED p3q
      BY <2>1, <2>2, <2>4
    <2> QED BY <2>3, <2>4 DEF bump_priority
  <1>7. TypeOK'
    BY <1>1, <1>2, <1>4, <1>5, <1>6 DEF IInv, TypeOK
  <1>8. LockIsWalk' /\ RunsAlone' /\ ForksApart'
    BY <1>1 DEF IInv, LockIsWalk, RunsAlone, ForksApart
  <1>9. KeptEach'
    <2> SUFFICES ASSUME NEW q \in Slot, NEW k \in 0 .. 2
                 PROVE  /\ slice'[q][k] <= Quantum[k]
                        /\ \A d \in CPU : runs'[d] = q /\ level'[d] = k => slice'[q][k] < Quantum[k]
      BY DEF KeptEach
    <2>1. slice[q][k] \in Nat /\ Quantum[k] \in Nat \ {0}
      BY <1>3, Constants
    <2>2. slice'[q][k] = slice[q][k] \/ slice'[q][k] = 0
      BY <1>3 DEF bump_priority
    <2>3. CASE slice'[q][k] = slice[q][k]
      BY <1>1, <2>3 DEF IInv, KeptEach
    <2>4. CASE slice'[q][k] = 0
      BY <2>1, <2>4
    <2> QED BY <2>2, <2>3, <2>4
  <1> QED BY <1>7, <1>8, <1>9 DEF IInv

LEMMA AfterYieldKeeps == ASSUME IInv, NEW c \in CPU, AfterYield(c) PROVE IInv'
  <1>1. ticks' \in 0 .. BumpEvery - 1 /\ bumpdue' \in SUBSET Slot
    BY DEF AfterYield, IInv, TypeOK
  <1>2. UNCHANGED << cpuvars, forkvars >>
    BY DEF AfterYield
  <1>3. CASE bump_priority
    BY <1>1, <1>2, <1>3, BoostKeeps
  <1>4. CASE UNCHANGED << procvars, ring >>
    BY <1>1, <1>2, <1>4
       DEF procvars, ring, cpuvars, forkvars, IInv, TypeOK, LockIsWalk, RunsAlone,
           ForksApart, KeptEach
  <1> QED BY <1>3, <1>4 DEF AfterYield

LEMMA TimerIdleKeeps == ASSUME IInv, NEW c \in CPU, TimerIdle(c) PROVE IInv'
  <1>1. ticks' \in 0 .. BumpEvery - 1 /\ bumpdue' \in SUBSET Slot
    BY NextTickTyped DEF TimerIdle, IInv, TypeOK
  <1>2. UNCHANGED << cpuvars, forkvars >>
    BY DEF TimerIdle
  <1>3. CASE bump_priority
    BY <1>1, <1>2, <1>3, BoostKeeps
  <1>4. CASE UNCHANGED << procvars, ring >>
    BY <1>1, <1>2, <1>4
       DEF procvars, ring, cpuvars, forkvars, IInv, TypeOK, LockIsWalk, RunsAlone,
           ForksApart, KeptEach
  <1> QED BY <1>3, <1>4 DEF TimerIdle

---------------------------------------------------------------------------
(* What processes do: all of it leaves alone who runs where.               *)

(* A process that nobody runs changes its state, and is neither given away *)
(* while it is being made nor EMBRYO for nobody.                           *)
LEMMA StateFrame ==
  ASSUME IInv, NEW q \in Slot, NEW st \in States, state[q] # "RUNNING",
         state' = [state EXCEPT ![q] = st],
         UNCHANGED << slice, cpuvars >>
  PROVE  /\ LockIsWalk' /\ RunsAlone' /\ KeptEach'
         /\ state' \in [Slot -> States]
         /\ \A r \in Slot : state'[r] = IF r = q THEN st ELSE state[r]
  <1>1. UNCHANGED << lock, scan, proc, runs, level >>
    BY DEF cpuvars
  <1>2. state \in [Slot -> States]
    BY DEF IInv, TypeOK, States
  <1>3. \A r \in Slot : state'[r] = IF r = q THEN st ELSE state[r]
    BY <1>2
  <1>4. RunsAlone'
    <2>1. ASSUME NEW d \in CPU, runs[d] # None
          PROVE  scan[d] \in Slot /\ state'[runs[d]] = "RUNNING"
      <3>1. runs[d] \in Slot /\ scan[d] \in Slot /\ state[runs[d]] = "RUNNING"
        BY <2>1 DEF IInv, TypeOK, RunsAlone
      <3> QED BY <1>3, <3>1
    <2> QED BY <1>1, <2>1 DEF IInv, RunsAlone
  <1>5. LockIsWalk' /\ KeptEach'
    BY <1>1 DEF IInv, LockIsWalk, KeptEach
  <1> QED BY <1>2, <1>3, <1>4, <1>5

LEMMA WakeKeeps == ASSUME IInv, NEW p \in Slot, Wake(p) PROVE IInv'
  <1>1. /\ LockIsWalk' /\ RunsAlone' /\ KeptEach'
        /\ state' \in [Slot -> States]
        /\ \A r \in Slot : state'[r] = IF r = p THEN "RUNNABLE" ELSE state[r]
    BY StateFrame DEF Wake, States
  <1>2. TypeOK'
    BY <1>1 DEF Wake, IInv, TypeOK, States, ring, cpuvars, forkvars
  <1>3. ForksApart'
    <2>1. pc' = pc /\ np' = np /\ state[p] = "SLEEPING"
      BY DEF Wake, forkvars
    <2>2. \A r \in Slot : pc[r] # "user" => np[r] \in Slot
      BY DEF IInv, TypeOK, ForksApart
    <2> QED BY <1>1, <2>1, <2>2 DEF IInv, ForksApart
  <1> QED BY <1>1, <1>2, <1>3 DEF IInv

LEMMA ReapKeeps == ASSUME IInv, NEW c \in CPU, NEW q \in Slot, Reap(c, q) PROVE IInv'
  <1>1. /\ LockIsWalk' /\ RunsAlone' /\ KeptEach'
        /\ state' \in [Slot -> States]
        /\ \A r \in Slot : state'[r] = IF r = q THEN "UNUSED" ELSE state[r]
    BY StateFrame DEF Reap, States
  <1>2. pid' \in [Slot -> 0 .. MaxPid]
    <2>1. pid' = [pid EXCEPT ![q] = 0] /\ pid \in [Slot -> 0 .. MaxPid] /\ 0 \in 0 .. MaxPid
      BY Constants DEF Reap, IInv, TypeOK
    <2> QED BY <2>1
  <1>3. TypeOK'
    BY <1>1, <1>2 DEF Reap, IInv, TypeOK, States, ring, cpuvars, forkvars
  <1>4. ForksApart'
    <2>1. pc' = pc /\ np' = np /\ \A r \in Slot : np[r] # q
      BY DEF Reap, forkvars
    <2>2. \A r \in Slot : pc[r] # "user" => np[r] \in Slot
      BY DEF IInv, TypeOK, ForksApart
    <2> QED BY <1>1, <2>1, <2>2 DEF IInv, ForksApart
  <1> QED BY <1>1, <1>3, <1>4 DEF IInv

---------------------------------------------------------------------------
(* fork. *)

FreeSlot == Min({r \in Slot : state[r] = "UNUSED"})

LEMMA ForkAllocKeeps == ASSUME IInv, NEW c \in CPU, ForkAlloc(c) PROVE IInv'
  <1> DEFINE q == FreeSlot
             p == runs[c]
  <1>1. /\ \E r \in Slot : state[r] = "UNUSED"
        /\ InUser(c) /\ nextpid <= MaxPid
        /\ state' = [state EXCEPT ![q] = "EMBRYO"] /\ pid' = [pid EXCEPT ![q] = nextpid]
        /\ np' = [np EXCEPT ![p] = q] /\ torn' = torn \ {q}
        /\ pc' = [pc EXCEPT ![p] = "fork"] /\ nextpid' = nextpid + 1
        /\ UNCHANGED << priority, slice, starved, p3ticks, ring, cpuvars, ticks, bumpdue >>
    BY DEF ForkAlloc, FreeSlot
  <1>2. q \in Slot /\ state[q] = "UNUSED"
    <2>1. {r \in Slot : state[r] = "UNUSED"} \in SUBSET Nat
      BY DEF Slot
    <2>2. FreeSlot \in {r \in Slot : state[r] = "UNUSED"}
      BY <1>1, <2>1, MinInSet DEF FreeSlot
    <2> QED BY <2>2
  <1> HIDE DEF q
  <1>3. /\ LockIsWalk' /\ RunsAlone' /\ KeptEach'
        /\ state' \in [Slot -> States]
        /\ \A r \in Slot : state'[r] = IF r = q THEN "EMBRYO" ELSE state[r]
    BY <1>1, <1>2, StateFrame DEF States
  <1>4. p \in Slot /\ pc[p] = "user" /\ np[p] = None
    BY <1>1 DEF InUser, IInv, TypeOK, ForksApart
  <1>5. /\ pid' \in [Slot -> 0 .. MaxPid] /\ nextpid' \in 2 .. MaxPid + 1
        /\ np' \in [Slot -> Slot \cup {None}]
        /\ pc' \in [Slot -> {"user", "fork", "fork1", "fork2"}]
    <2>1. /\ pid \in [Slot -> 0 .. MaxPid] /\ nextpid \in 2 .. MaxPid + 1
          /\ np \in [Slot -> Slot \cup {None}]
          /\ pc \in [Slot -> {"user", "fork", "fork1", "fork2"}]
      BY DEF IInv, TypeOK
    <2>2. nextpid \in 0 .. MaxPid /\ nextpid + 1 \in 2 .. MaxPid + 1
      BY <1>1, <2>1, Constants
    <2> QED BY <1>1, <1>2, <1>4, <2>1, <2>2
  <1>6. TypeOK'
    BY <1>1, <1>3, <1>5 DEF IInv, TypeOK, States, ring, cpuvars
  <1>7. ForksApart'
    <2>1. /\ \A r \in Slot : np'[r] = IF r = p THEN q ELSE np[r]
          /\ \A r \in Slot : pc'[r] = IF r = p THEN "fork" ELSE pc[r]
      BY <1>1, <1>4 DEF IInv, TypeOK
    <2>2. \A r \in Slot : /\ pc[r] # "user" => np[r] \in Slot
                          /\ np[r] # None => pc[r] # "user"
                          /\ np[r] # q
      BY <1>2, Constants DEF IInv, TypeOK, ForksApart
    <2>3. q # None
      BY <1>2, Constants
    <2>4. ASSUME NEW r \in Slot
          PROVE  /\ pc'[r] # "user" <=> np'[r] # None
                 /\ pc'[r] # "user" => state'[np'[r]] # "UNUSED"
                 /\ pc'[r] = "fork" => state'[np'[r]] = "EMBRYO"
      BY <1>2, <1>3, <2>1, <2>2, <2>3 DEF IInv, ForksApart
    <2>5. \A r, u \in Slot : np'[r] = np'[u] /\ np'[r] # None => r = u
      BY <2>1, <2>2 DEF IInv, ForksApart
    <2> QED BY <2>4, <2>5 DEF ForksApart
  <1> QED BY <1>3, <1>6, <1>7 DEF IInv

(* The stores of fork outside the lock, into the child's fields.           *)
LEMMA ForkStores ==
  ASSUME IInv, NEW c \in CPU, ForkRun(c) \/ ForkPriority(c) \/ ForkSlices(c)
  PROVE  /\ runs[c] \in Slot /\ Child(c) \in Slot /\ pc[runs[c]] # "user"
         /\ UNCHANGED << pid, ring, cpuvars, nextpid, torn, ticks, bumpdue >>
         /\ \E l \in {"user", "fork1", "fork2"} :
               pc' = [pc EXCEPT ![runs[c]] = l] /\ np' = [np EXCEPT ![runs[c]] = IF l = "user" THEN None ELSE @]
         /\ priority' \in [Slot -> Level] /\ slice' \in [Slot -> [0 .. 2 -> Nat]]
         /\ starved' \in [Slot -> BOOLEAN] /\ p3ticks' \in [Slot -> 0 .. RoundRobin - 1]
         /\ slice' = slice \/ slice' = [slice EXCEPT ![Child(c)] = [k \in 0 .. 2 |-> 0]]
         /\ priority' = priority \/ priority' = [priority EXCEPT ![Child(c)] = 0]
  <1>1. runs[c] # None /\ pc[runs[c]] \in {"fork", "fork1", "fork2"}
    BY DEF ForkRun, ForkPriority, ForkSlices, At
  <1>2. runs[c] \in Slot
    BY <1>1 DEF IInv, TypeOK
  <1>3. Child(c) \in Slot
    BY <1>1, <1>2 DEF Child, IInv, TypeOK, ForksApart
  <1>4. \E l \in {"user", "fork1", "fork2"} : Goto(c, l)
    BY DEF ForkRun, ForkPriority, ForkSlices
  <1>5. \/ UNCHANGED << slice, starved, p3ticks >> \/ SetSlices(c)
    BY DEF ForkRun, ForkPriority, ForkSlices
  <1>6. priority' = priority \/ priority' = [priority EXCEPT ![Child(c)] = 0]
    BY DEF ForkRun, ForkPriority, ForkSlices
  <1>7. /\ priority \in [Slot -> Level] /\ slice \in [Slot -> [0 .. 2 -> Nat]]
        /\ starved \in [Slot -> BOOLEAN] /\ p3ticks \in [Slot -> 0 .. RoundRobin - 1]
        /\ 0 \in Level /\ 0 \in 0 .. RoundRobin - 1
    BY Constants DEF IInv, TypeOK, Level
  <1>8. priority' \in [Slot -> Level]
    BY <1>6, <1>7
  <1>9. /\ slice' \in [Slot -> [0 .. 2 -> Nat]]
        /\ slice' = slice \/ slice' = [slice EXCEPT ![Child(c)] = [k \in 0 .. 2 |-> 0]]
    <2>1. CASE UNCHANGED << slice, starved, p3ticks >>
      BY <1>7, <2>1
    <2>2. CASE SetSlices(c)
      <3>1. [k \in 0 .. 2 |-> 0] \in [0 .. 2 -> Nat]
        OBVIOUS
      <3> QED BY <1>7, <2>2, <3>1 DEF SetSlices
    <2> QED BY <1>5, <2>1, <2>2
  <1>10. starved' \in [Slot -> BOOLEAN] /\ p3ticks' \in [Slot -> 0 .. RoundRobin - 1]
    BY <1>5, <1>7 DEF SetSlices
  <1> QED BY <1>1, <1>2, <1>3, <1>4, <1>6, <1>8, <1>9, <1>10 DEF Goto

LEMMA ForkStoresKeep ==
  ASSUME IInv, NEW c \in CPU, ForkRun(c) \/ ForkPriority(c) \/ ForkSlices(c)
  PROVE  IInv'
  <1> DEFINE p == runs[c]
             q == Child(c)
  <1>1. PICK l \in {"user", "fork1", "fork2"} :
          pc' = [pc EXCEPT ![p] = l] /\ np' = [np EXCEPT ![p] = IF l = "user" THEN None ELSE @]
    BY ForkStores
  <1>2. /\ p \in Slot /\ q \in Slot /\ q = np[p] /\ pc[p] # "user"
        /\ UNCHANGED << pid, ring, cpuvars, nextpid, torn, ticks, bumpdue >>
        /\ priority' \in [Slot -> Level] /\ slice' \in [Slot -> [0 .. 2 -> Nat]]
        /\ starved' \in [Slot -> BOOLEAN] /\ p3ticks' \in [Slot -> 0 .. RoundRobin - 1]
        /\ slice' = slice \/ slice' = [slice EXCEPT ![q] = [k \in 0 .. 2 |-> 0]]
    BY ForkStores DEF Child
  <1>3. UNCHANGED << lock, scan, proc, runs, level >>
    BY <1>2 DEF cpuvars
  <1>4. \/ state' = state /\ pc[p] # "fork"
        \/ state' = [state EXCEPT ![q] = "RUNNABLE"] /\ state[q] = "EMBRYO"
    BY <1>2 DEF ForkRun, ForkPriority, ForkSlices, At, IInv, ForksApart
  <1>5. /\ state \in [Slot -> States]
        /\ state' \in [Slot -> States]
        /\ \A r \in Slot : state'[r] = state[r] \/ (r = q /\ state[r] = "EMBRYO" /\ state'[r] = "RUNNABLE")
    BY <1>2, <1>4 DEF IInv, TypeOK, States
  <1>6. /\ pc' \in [Slot -> {"user", "fork", "fork1", "fork2"}]
        /\ np' \in [Slot -> Slot \cup {None}]
    BY <1>1, <1>2 DEF IInv, TypeOK
  <1>7. TypeOK'
    BY <1>2, <1>3, <1>5, <1>6 DEF IInv, TypeOK, States, ring
  <1>8. LockIsWalk'
    BY <1>3 DEF IInv, LockIsWalk
  <1>9. RunsAlone'
    <2>1. ASSUME NEW d \in CPU, runs[d] # None
          PROVE  scan[d] \in Slot /\ state'[runs[d]] = "RUNNING"
      <3>1. runs[d] \in Slot /\ scan[d] \in Slot /\ state[runs[d]] = "RUNNING"
        BY <2>1 DEF IInv, TypeOK, RunsAlone
      <3> QED BY <1>5, <3>1
    <2> QED BY <1>3, <2>1 DEF IInv, RunsAlone
  <1>10. ForksApart'
    <2>1. /\ \A r \in Slot : np'[r] = IF r = p /\ l = "user" THEN None ELSE np[r]
          /\ \A r \in Slot : pc'[r] = IF r = p THEN l ELSE pc[r]
      BY <1>1, <1>2 DEF IInv, TypeOK
    <2>2. \A r \in Slot : /\ pc[r] # "user" => np[r] \in Slot /\ state[np[r]] # "UNUSED"
                          /\ np[r] # None => pc[r] # "user"
                          /\ np[r] = q => r = p
                          /\ pc[r] = "fork" => state[np[r]] = "EMBRYO"
      <3>1. q # None
        BY <1>2, Constants
      <3>2. \A r \in Slot : pc[r] # "user" => np[r] \in Slot /\ state[np[r]] # "UNUSED"
        BY DEF IInv, TypeOK, ForksApart
      <3>3. \A r \in Slot : np[r] = q => r = p
        BY <1>2, <3>1 DEF IInv, ForksApart
      <3> QED BY <3>2, <3>3 DEF IInv, ForksApart
    <2>3. ASSUME NEW r \in Slot
          PROVE  /\ pc'[r] # "user" <=> np'[r] # None
                 /\ pc'[r] # "user" => state'[np'[r]] # "UNUSED"
                 /\ pc'[r] = "fork" => state'[np'[r]] = "EMBRYO"
      <3>1. CASE r = p
        <4>1. np[r] = q /\ q # None /\ state[q] # "UNUSED"
          BY <1>2, <2>2, <3>1, Constants
        <4> QED BY <1>2, <1>5, <2>1, <3>1, <4>1
      <3>2. CASE r # p
        <4>1. pc'[r] = pc[r] /\ np'[r] = np[r] /\ np[r] # q
          BY <2>1, <2>2, <3>2
        <4> QED BY <1>5, <2>2, <4>1 DEF IInv, ForksApart
      <3> QED BY <3>1, <3>2
    <2>4. \A r, u \in Slot : np'[r] = np'[u] /\ np'[r] # None => r = u
      BY <2>1 DEF IInv, ForksApart
    <2> QED BY <2>3, <2>4 DEF ForksApart
  <1>11. KeptEach'
    <2> SUFFICES ASSUME NEW r \in Slot, NEW k \in 0 .. 2
                 PROVE  /\ slice'[r][k] <= Quantum[k]
                        /\ \A d \in CPU : runs'[d] = r /\ level'[d] = k => slice'[r][k] < Quantum[k]
      BY DEF KeptEach
    <2>1. slice \in [Slot -> [0 .. 2 -> Nat]] /\ Quantum[k] \in Nat \ {0}
      BY Constants DEF IInv, TypeOK
    <2>2. slice'[r][k] = slice[r][k] \/ slice'[r][k] = 0
      BY <1>2, <2>1
    <2>3. CASE slice'[r][k] = slice[r][k]
      BY <1>3, <2>3 DEF IInv, KeptEach
    <2>4. CASE slice'[r][k] = 0
      BY <2>1, <2>4
    <2> QED BY <2>2, <2>3, <2>4
  <1> QED BY <1>7, <1>8, <1>9, <1>10, <1>11 DEF IInv

---------------------------------------------------------------------------
LEMMA NextKeepsIInv == IInv /\ [Next]_vars => IInv'
  <1> SUFFICES ASSUME IInv, [Next]_vars PROVE IInv'
    OBVIOUS
  <1>1. ASSUME NEW c \in CPU, Walk(c) PROVE IInv'
    BY <1>1, BeginWalkKeeps, EndWalkKeeps, SkipKeeps, DemoteKeeps, DispatchKeeps,
       VisitLastKeeps DEF Walk
  <1>2. ASSUME NEW c \in CPU, Timer(c) PROVE IInv'
    BY <1>2, TimerYieldKeeps, TimerIdleKeeps DEF Timer
  <1>3. ASSUME NEW c \in CPU, Program(c) PROVE IInv'
    BY <1>3, AfterYieldKeeps, SleepExitKeep, ReapKeeps, ForkAllocKeeps, ForkStoresKeep
       DEF Program
  <1>4. ASSUME NEW p \in Slot, Wake(p) PROVE IInv'
    BY <1>4, WakeKeeps
  <1>5. CASE UNCHANGED vars
    BY <1>5 DEF vars, procvars, ring, cpuvars, forkvars, IInv, TypeOK, LockIsWalk,
                RunsAlone, ForksApart, KeptEach
  <1> QED BY <1>1, <1>2, <1>3, <1>4, <1>5 DEF Next

LEMMA Inductive == Spec => []IInv
  BY InitIInv, NextKeepsIInv, PTL DEF Spec

(* Every variable keeps its type: the ring's indices stay in the ring, the *)
(* counters of the turns below their limits, and the slot that a CPU looks *)
(* at in the table or one behind it (scheduler, addq, remq, bump_priority, *)
(* allocproc).                                                             *)
THEOREM TypeCorrect == Spec => []TypeOK
  <1>1. IInv => TypeOK
    BY DEF IInv
  <1> QED BY <1>1, Inductive, PTL

(* At most one processor counts for a process.                             *)
LEMMA KeptIsKept == IInv => AllowanceKept
  <1> SUFFICES ASSUME IInv, NEW p \in Slot, NEW k \in 0 .. 2
               PROVE  slice[p][k] + Cardinality({c \in CPU : runs[c] = p /\ level[c] = k})
                        <= Quantum[k]
    BY DEF AllowanceKept
  <1> DEFINE S == {c \in CPU : runs[c] = p /\ level[c] = k}
  <1>0. slice \in [Slot -> [0 .. 2 -> Nat]]
    BY DEF IInv, TypeOK
  <1>1. slice[p][k] \in Nat /\ Quantum[k] \in Nat /\ slice[p][k] <= Quantum[k]
    BY <1>0, Constants DEF IInv, KeptEach
  <1>2. CASE S = {}
    <2>1. Cardinality(S) = 0
      BY <1>2, FS_EmptySet
    <2> QED BY <1>1, <2>1
  <1>3. CASE S # {}
    <2>1. PICK c \in S : TRUE
      BY <1>3
    <2>2. S = {c}
      BY <2>1, Constants DEF IInv, RunsAlone
    <2>3. slice[p][k] < Quantum[k]
      BY <2>1 DEF IInv, KeptEach
    <2>4. Cardinality(S) = 1
      BY <2>2, FS_Singleton
    <2> QED BY <1>1, <2>3, <2>4
  <1> QED BY <1>2, <1>3

(* No process is dispatched at a level more often than its allowance:      *)
(* between scheduler()'s test and its charge, which is made only when the  *)
(* process comes back, neither another processor nor a boost nor a fork    *)
(* into a slot that was in use can spoil the count.                        *)
THEOREM AllowancesKept == Spec => []AllowanceKept
  BY Inductive, KeptIsKept, PTL

---------------------------------------------------------------------------
(* That an allowance is used up.  One processor, or a fork that the timer  *)
(* does not interrupt: while a process sets the fields of a child that can *)
(* be run already, it has the only processor, or its child counts as torn. *)

Quiet == ~ ForkIsSlow \/ CPU = {bootcpu}

Untorn ==
  \A p \in Slot : pc[p] \in {"fork1", "fork2"} =>
    /\ ForkIsSlow
    /\ np[p] \notin torn =>
         /\ runs[bootcpu] = p
         /\ pc[p] = "fork2" => priority[np[p]] = 0

Exempt == torn \cup {np[q] : q \in Slot}

UsedBy(p) == state[p] \in {"RUNNABLE", "RUNNING", "SLEEPING"} =>
               \A k \in 0 .. 2 : k < priority[p] => slice[p][k] = Quantum[k]

JInv == IInv /\ Untorn /\ AllowanceUsed

LEMMA UsedByAll == AllowanceUsed <=> \A p \in Slot \ Exempt : UsedBy(p)
  BY DEF AllowanceUsed, Exempt, UsedBy

(* Whoever is not touched by a step, or only falls asleep, wakes or is     *)
(* dispatched.                                                             *)
LEMMA UsedFrame ==
  ASSUME AllowanceUsed, NEW p \in Slot, p \notin Exempt,
         priority'[p] = priority[p], slice'[p] = slice[p],
         state'[p] \in {"RUNNABLE", "RUNNING", "SLEEPING"} =>
           state[p] \in {"RUNNABLE", "RUNNING", "SLEEPING"}
  PROVE  UsedBy(p)'
  BY UsedByAll DEF UsedBy

LEMMA UsedByAllNext ==
  ASSUME \A p \in Slot \ Exempt' : UsedBy(p)'
  PROVE  AllowanceUsed'
  BY DEF AllowanceUsed, Exempt, UsedBy

LEMMA InitJInv == Init => JInv
  <1> SUFFICES ASSUME Init PROVE JInv
    OBVIOUS
  <1>1. Untorn
    BY DEF Init, Untorn
  <1>2. AllowanceUsed
    <2> SUFFICES ASSUME NEW p \in Slot, NEW k \in 0 .. 2, k < priority[p]
                 PROVE  FALSE
      BY DEF AllowanceUsed
    <2>1. priority[p] = 0
      BY DEF Init
    <2> QED BY <2>1
  <1> QED BY <1>1, <1>2, InitIInv DEF JInv

(* Steps that leave fork, its children and their allowances alone.         *)
LEMMA QuietFrame ==
  ASSUME JInv, UNCHANGED << runs, forkvars, priority, slice >>,
         \A p \in Slot : state'[p] \in {"RUNNABLE", "RUNNING", "SLEEPING"} =>
                          state[p] \in {"RUNNABLE", "RUNNING", "SLEEPING"}
  PROVE  Untorn' /\ AllowanceUsed'
  <1>1. Untorn'
    BY DEF JInv, Untorn, forkvars
  <1>2. Exempt' = Exempt
    BY DEF Exempt, forkvars
  <1>3. AllowanceUsed'
    BY <1>2, UsedFrame, UsedByAllNext DEF JInv
  <1> QED BY <1>1, <1>3

(* A scheduler that looks around runs nobody: with one processor, no child *)
(* is being set up but torn ones.                                          *)
LEMMA WalkIsQuiet ==
  ASSUME JInv, Quiet, NEW c \in CPU, runs[c] = None, NEW p \in Slot,
         pc[p] \in {"fork1", "fork2"}
  PROVE  np[p] \in torn
  <1>1. ForkIsSlow
    BY DEF JInv, Untorn
  <1>2. c = bootcpu
    BY <1>1, Constants DEF Quiet
  <1>3. p # None
    BY Constants
  <1> QED BY <1>2, <1>3 DEF JInv, Untorn

LEMMA DemoteUses ==
  ASSUME JInv, Quiet, NEW c \in CPU, Demote(c)
  PROVE  Untorn' /\ AllowanceUsed'
  <1>1. PICK p \in Slot : /\ Visits(c, p) /\ priority[p] < 3 /\ SpentAt(p, priority[p])
                          /\ priority' = [priority EXCEPT ![p] = @ + 1]
    BY DEF Demote
  <1>2. /\ UNCHANGED << state, slice, runs, nextpid, pc, np, torn >>
        /\ runs[c] = None
    BY <1>1 DEF Demote, forkvars, Visits, JInv, IInv, LockIsWalk
  <1>3. Untorn'
    <2>1. \A q \in Slot : pc[q] \in {"fork1", "fork2"} => np[q] \in torn
      BY <1>2, WalkIsQuiet
    <2> QED BY <1>2, <2>1 DEF JInv, Untorn
  <1>4. AllowanceUsed'
    <2> SUFFICES ASSUME NEW q \in Slot, q \notin Exempt' PROVE UsedBy(q)'
      BY UsedByAllNext
    <2>1. q \notin Exempt
      BY <1>2 DEF Exempt
    <2>2. priority \in [Slot -> Level]
      BY DEF JInv, IInv, TypeOK
    <2>3. CASE q # p
      BY <1>1, <1>2, <2>1, <2>2, <2>3, UsedFrame DEF JInv
    <2>4. CASE q = p
      <3> SUFFICES ASSUME NEW k \in 0 .. 2, k < priority'[q],
                          state[q] \in {"RUNNABLE", "RUNNING", "SLEEPING"}
                   PROVE  slice[q][k] = Quantum[k]
        BY <1>2 DEF UsedBy
      <3>1. priority'[q] = priority[q] + 1 /\ priority[q] \in Nat
        BY <1>1, <2>2, <2>4 DEF Level
      <3>2. CASE k < priority[q]
        BY <2>1, <3>2, UsedByAll DEF JInv, UsedBy
      <3>3. CASE k = priority[q]
        <4>1. slice \in [Slot -> [0 .. 2 -> Nat]]
          BY DEF JInv, IInv, TypeOK
        <4>2. slice[q][k] \in Nat /\ Quantum[k] \in Nat /\ slice[q][k] <= Quantum[k]
          BY <4>1, Constants DEF JInv, IInv, KeptEach
        <4>3. slice[q][k] >= Quantum[k]
          BY <1>1, <2>4, <3>3 DEF SpentAt
        <4> QED BY <4>2, <4>3
      <3> QED BY <3>1, <3>2, <3>3
    <2> QED BY <2>3, <2>4
  <1> QED BY <1>3, <1>4

LEMMA StartUses ==
  ASSUME JInv, Quiet, NEW c \in CPU, NEW p \in Slot,
         Visits(c, p), state[p] = "RUNNABLE", Start(c, p)
  PROVE  Untorn' /\ AllowanceUsed'
  <1>1. UNCHANGED << priority, slice, nextpid, pc, np, torn >> /\ runs[c] = None
    BY DEF Start, forkvars, Visits, JInv, IInv, LockIsWalk
  <1>2. Untorn'
    <2>1. \A q \in Slot : pc[q] \in {"fork1", "fork2"} => np[q] \in torn
      BY <1>1, WalkIsQuiet
    <2> QED BY <1>1, <2>1 DEF JInv, Untorn
  <1>3. AllowanceUsed'
    <2> SUFFICES ASSUME NEW q \in Slot, q \notin Exempt' PROVE UsedBy(q)'
      BY UsedByAllNext
    <2>1. q \notin Exempt
      BY <1>1 DEF Exempt
    <2>2. (state'[q] = "RUNNING" /\ q = p) \/ state'[q] = state[q]
      BY DEF Start, JInv, IInv, TypeOK
    <2> QED BY <1>1, <2>1, <2>2, UsedFrame DEF JInv
  <1> QED BY <1>2, <1>3

(* Who is charged has not used this level yet, and so is not below it; its *)
(* child, if it was just being set up, is torn from now on.                *)
LEMMA LeaveUses ==
  ASSUME JInv, Quiet, NEW c \in CPU, NEW st \in {"RUNNABLE", "SLEEPING", "ZOMBIE"},
         Leave(c, st), pc' = pc
  PROVE  Untorn' /\ AllowanceUsed'
  <1> DEFINE p == runs[c]
  <1>1. /\ p \in Slot /\ p # None /\ state[p] = "RUNNING" /\ level[c] \in Level
    BY DEF JInv, IInv, TypeOK, RunsAlone, Leave
  <1>2. /\ state' = [state EXCEPT ![p] = st]
        /\ runs' = [runs EXCEPT ![c] = None]
        /\ torn' = IF InitialisesChild(p) THEN torn \cup {np[p]} ELSE torn
        /\ UNCHANGED << priority, np >>
        /\ slice' = IF level[c] < 3 THEN [slice EXCEPT ![p] = Charged(@, level[c])] ELSE slice
    BY DEF Leave
  <1>3. Untorn'
    <2> SUFFICES ASSUME NEW q \in Slot, pc[q] \in {"fork1", "fork2"}
                 PROVE  /\ ForkIsSlow
                        /\ np[q] \in torn'
      BY <1>2 DEF Untorn
    <2>1. ForkIsSlow
      BY DEF JInv, Untorn
    <2>2. c = bootcpu
      BY <2>1, Constants DEF Quiet
    <2>3. CASE np[q] \in torn
      BY <1>2, <2>1, <2>3
    <2>4. CASE np[q] \notin torn
      <3>1. p = q
        BY <2>2, <2>4 DEF JInv, Untorn
      <3> QED BY <1>2, <2>1, <3>1 DEF InitialisesChild
    <2> QED BY <2>3, <2>4
  <1>4. AllowanceUsed'
    <2> SUFFICES ASSUME NEW q \in Slot, q \notin Exempt' PROVE UsedBy(q)'
      BY UsedByAllNext
    <2>1. q \notin Exempt
      BY <1>2 DEF Exempt
    <2>2. slice \in [Slot -> [0 .. 2 -> Nat]] /\ state \in [Slot -> States]
      BY DEF JInv, IInv, TypeOK, States
    <2>3. CASE q # p
      BY <1>1, <1>2, <2>1, <2>2, <2>3, UsedFrame DEF JInv
    <2>4. CASE q = p
      <3> SUFFICES ASSUME NEW k \in 0 .. 2, k < priority[q]
                   PROVE  slice'[q][k] = Quantum[k]
        BY <1>2 DEF UsedBy
      <3>1. slice[q][k] = Quantum[k]
        BY <1>1, <2>1, <2>4, UsedByAll DEF JInv, UsedBy
      <3>2. level[c] # k
        <4>1. level[c] = k => slice[q][k] < Quantum[k]
          BY <2>4 DEF JInv, IInv, KeptEach
        <4>2. Quantum[k] \in Nat
          BY Constants
        <4> QED BY <3>1, <4>1, <4>2
      <3>3. slice'[q][k] = slice[q][k]
        BY <1>1, <1>2, <2>2, <2>4, <3>2 DEF Charged
      <3> QED BY <3>1, <3>3
    <2> QED BY <2>3, <2>4
  <1> QED BY <1>3, <1>4

LEMMA BoostUses ==
  ASSUME JInv, Quiet, bump_priority, UNCHANGED << cpuvars, forkvars >>
  PROVE  Untorn' /\ AllowanceUsed'
  <1>1. UNCHANGED << state, runs, pc, np, torn >>
    BY DEF bump_priority, cpuvars, forkvars
  <1>2. priority \in [Slot -> Level] /\ slice \in [Slot -> [0 .. 2 -> Nat]]
    BY DEF JInv, IInv, TypeOK
  <1>3. Untorn'
    <2>1. \A q \in Slot : priority[q] = 0 => priority'[q] = 0
      BY DEF bump_priority, Boosted
    <2>2. \A q \in Slot : pc[q] # "user" => np[q] \in Slot
      BY DEF JInv, IInv, TypeOK, ForksApart
    <2> QED BY <1>1, <2>1, <2>2 DEF JInv, Untorn
  <1>4. AllowanceUsed'
    <2> SUFFICES ASSUME NEW q \in Slot, q \notin Exempt' PROVE UsedBy(q)'
      BY UsedByAllNext
    <2>1. q \notin Exempt
      BY <1>1 DEF Exempt
    <2>2. CASE ~ Boosted(q)
      BY <1>1, <2>1, <2>2, UsedFrame DEF bump_priority, JInv
    <2>3. CASE Boosted(q)
      <3>1. /\ priority'[q] = priority[q] - 1 /\ priority[q] \in Nat
            /\ slice'[q] = [slice[q] EXCEPT ![priority[q] - 1] = 0]
        BY <1>2, <2>3 DEF bump_priority, Level
      <3> SUFFICES ASSUME NEW k \in 0 .. 2, k < priority[q] - 1,
                          state[q] \in {"RUNNABLE", "RUNNING", "SLEEPING"}
                   PROVE  slice'[q][k] = Quantum[k]
        BY <1>1, <3>1 DEF UsedBy
      <3>2. slice[q][k] = Quantum[k]
        BY <2>1, <3>1, UsedByAll DEF JInv, UsedBy
      <3>3. slice'[q][k] = slice[q][k]
        BY <1>2, <3>1
      <3> QED BY <3>2, <3>3
    <2> QED BY <2>2, <2>3
  <1> QED BY <1>3, <1>4

LEMMA ForkAllocUses ==
  ASSUME JInv, NEW c \in CPU, ForkAlloc(c)
  PROVE  Untorn' /\ AllowanceUsed'
  <1> DEFINE q == FreeSlot
             p == runs[c]
  <1>1. /\ \E r \in Slot : state[r] = "UNUSED"
        /\ InUser(c)
        /\ state' = [state EXCEPT ![q] = "EMBRYO"]
        /\ np' = [np EXCEPT ![p] = q] /\ torn' = torn \ {q}
        /\ pc' = [pc EXCEPT ![p] = "fork"]
        /\ UNCHANGED << priority, slice, runs >>
    BY DEF ForkAlloc, FreeSlot, cpuvars
  <1>2. q \in Slot /\ state[q] = "UNUSED"
    <2>1. {r \in Slot : state[r] = "UNUSED"} \in SUBSET Nat
      BY DEF Slot
    <2>2. FreeSlot \in {r \in Slot : state[r] = "UNUSED"}
      BY <1>1, <2>1, MinInSet DEF FreeSlot
    <2> QED BY <2>2
  <1> HIDE DEF q
  <1>3. p \in Slot /\ pc[p] = "user" /\ np[p] = None
    BY <1>1 DEF InUser, JInv, IInv, TypeOK, ForksApart
  <1>4. /\ \A r \in Slot : np'[r] = IF r = p THEN q ELSE np[r]
        /\ \A r \in Slot : pc'[r] = IF r = p THEN "fork" ELSE pc[r]
    BY <1>1, <1>3 DEF JInv, IInv, TypeOK
  <1>5. \A r \in Slot : pc[r] # "user" => np[r] # q
    BY <1>2 DEF JInv, IInv, ForksApart
  <1>6. Untorn'
    BY <1>1, <1>4, <1>5 DEF JInv, Untorn
  <1>7. AllowanceUsed'
    <2> SUFFICES ASSUME NEW r \in Slot, r \notin Exempt' PROVE UsedBy(r)'
      BY UsedByAllNext
    <2>1. r # q
      BY <1>3, <1>4 DEF Exempt
    <2>2. r \notin Exempt
      <3>1. r \notin torn
        BY <1>1, <2>1 DEF Exempt
      <3>2. ASSUME NEW u \in Slot, r = np[u] PROVE FALSE
        <4>1. u # p
          BY <1>3, <3>2, Constants
        <4> QED BY <1>4, <3>2, <4>1 DEF Exempt
      <3> QED BY <3>1, <3>2 DEF Exempt
    <2>3. state'[r] = state[r]
      BY <1>1, <2>1 DEF JInv, IInv, TypeOK
    <2> QED BY <1>1, <2>2, <2>3, UsedFrame DEF JInv
  <1> QED BY <1>6, <1>7

(* fork's stores: the child is exempt until the last of them, and then it  *)
(* is at level 0 or torn.                                                  *)
LEMMA ForkStoresUse ==
  ASSUME JInv, Quiet, NEW c \in CPU, ForkRun(c) \/ ForkPriority(c) \/ ForkSlices(c)
  PROVE  Untorn' /\ AllowanceUsed'
  <1> DEFINE p == runs[c]
             q == Child(c)
  <1>1. PICK l \in {"user", "fork1", "fork2"} :
          pc' = [pc EXCEPT ![p] = l] /\ np' = [np EXCEPT ![p] = IF l = "user" THEN None ELSE @]
    BY ForkStores DEF JInv
  <1>2. /\ p \in Slot /\ q \in Slot /\ q = np[p] /\ pc[p] # "user" /\ p # None
        /\ torn' = torn /\ runs' = runs
        /\ slice' = slice \/ slice' = [slice EXCEPT ![q] = [k \in 0 .. 2 |-> 0]]
        /\ priority' = priority \/ priority' = [priority EXCEPT ![q] = 0]
    BY ForkStores, Constants DEF Child, JInv, cpuvars
  <1>3. /\ \A r \in Slot : np'[r] = IF r = p /\ l = "user" THEN None ELSE np[r]
        /\ \A r \in Slot : pc'[r] = IF r = p THEN l ELSE pc[r]
        /\ q # None
        /\ \A r \in Slot : np[r] = q => r = p
    <2>1. q # None
      BY <1>2, Constants
    <2>2. \A r \in Slot : np[r] = q => r = p
      BY <1>2, <2>1 DEF JInv, IInv, ForksApart
    <2> QED BY <1>1, <1>2, <2>1, <2>2 DEF JInv, IInv, TypeOK
  <1>4. /\ l = "user" \/ ForkIsSlow
        /\ l = "fork2" => priority'[q] = 0
        /\ l = "user" => priority'[q] = 0 \/ q \in torn
    <2>1. priority \in [Slot -> Level]
      BY DEF JInv, IInv, TypeOK
    <2>2. CASE ForkRun(c)
      <3>1. pc[p] = "fork"
        BY <2>2 DEF ForkRun, At
      <3>2. CASE ForkIsSlow
        <4>1. pc' = [pc EXCEPT ![p] = "fork1"]
          BY <2>2, <3>2 DEF ForkRun, Goto
        <4>2. l = "fork1"
          BY <1>2, <1>3, <4>1 DEF JInv, IInv, TypeOK
        <4> QED BY <3>2, <4>2
      <3>3. CASE ~ ForkIsSlow
        <4>1. pc' = [pc EXCEPT ![p] = "user"] /\ priority' = [priority EXCEPT ![q] = 0]
          BY <2>2, <3>3 DEF ForkRun, Goto
        <4>2. l = "user"
          BY <1>2, <1>3, <4>1 DEF JInv, IInv, TypeOK
        <4> QED BY <1>2, <2>1, <4>1, <4>2
      <3> QED BY <3>2, <3>3
    <2>3. CASE ForkPriority(c)
      <3>1. /\ pc[p] = "fork1" /\ pc' = [pc EXCEPT ![p] = "fork2"]
            /\ priority' = [priority EXCEPT ![q] = 0]
        BY <2>3 DEF ForkPriority, At, Goto
      <3>2. l = "fork2"
        BY <1>2, <1>3, <3>1 DEF JInv, IInv, TypeOK
      <3>3. ForkIsSlow
        BY <1>2, <3>1 DEF JInv, Untorn
      <3> QED BY <1>2, <2>1, <3>1, <3>2, <3>3
    <2>4. CASE ForkSlices(c)
      <3>1. /\ pc[p] = "fork2" /\ pc' = [pc EXCEPT ![p] = "user"] /\ priority' = priority
        BY <2>4 DEF ForkSlices, At, Goto
      <3>2. l = "user"
        BY <1>2, <1>3, <3>1 DEF JInv, IInv, TypeOK
      <3>3. q \notin torn => priority[q] = 0
        BY <1>2, <3>1 DEF JInv, Untorn
      <3> QED BY <3>1, <3>2, <3>3
    <2> QED BY <2>2, <2>3, <2>4
  <1>5. Untorn'
    <2> SUFFICES ASSUME NEW r \in Slot, pc'[r] \in {"fork1", "fork2"}
                 PROVE  /\ ForkIsSlow
                        /\ np'[r] \notin torn' =>
                             /\ runs'[bootcpu] = r
                             /\ pc'[r] = "fork2" => priority'[np'[r]] = 0
      BY DEF Untorn
    <2>1. CASE r = p
      <3>1. l \in {"fork1", "fork2"} /\ np'[r] = q /\ pc'[r] = l
        BY <1>2, <1>3, <2>1
      <3>2. c = bootcpu
        BY <1>4, <3>1, Constants DEF Quiet
      <3> QED BY <1>2, <1>4, <2>1, <3>1, <3>2
    <2>2. CASE r # p
      <3>1. np'[r] = np[r] /\ pc'[r] = pc[r] /\ np[r] # q
        BY <1>3, <2>2
      <3>2. np[r] \in Slot
        BY <3>1 DEF JInv, IInv, TypeOK, ForksApart
      <3>3. priority'[np[r]] = priority[np[r]]
        BY <1>2, <3>1, <3>2 DEF JInv, IInv, TypeOK
      <3>4. torn' = torn /\ runs' = runs
        BY <1>2
      <3> QED BY <3>1, <3>3, <3>4 DEF JInv, Untorn
    <2> QED BY <2>1, <2>2
  <1>6. AllowanceUsed'
    <2> SUFFICES ASSUME NEW r \in Slot, r \notin Exempt' PROVE UsedBy(r)'
      BY UsedByAllNext
    <2>0. priority \in [Slot -> Level] /\ slice \in [Slot -> [0 .. 2 -> Nat]]
      BY DEF JInv, IInv, TypeOK
    <2>1. CASE r = q
      <3>1. l = "user"
        BY <1>2, <1>3, <2>1 DEF Exempt
      <3>2. priority'[r] = 0
        BY <1>2, <1>4, <2>1, <3>1 DEF Exempt
      <3> QED BY <3>2 DEF UsedBy
    <2>2. CASE r # q
      <3>1. r \notin Exempt
        BY <1>2, <1>3, <2>2 DEF Exempt
      <3>2. priority'[r] = priority[r] /\ slice'[r] = slice[r]
        BY <1>2, <2>0, <2>2
      <3>3. state' = state \/ state' = [state EXCEPT ![q] = "RUNNABLE"]
        BY DEF ForkRun, ForkPriority, ForkSlices
      <3>4. state'[r] = state[r]
        BY <2>2, <3>3 DEF JInv, IInv, TypeOK
      <3> QED BY <3>1, <3>2, <3>4, UsedFrame DEF JInv
    <2> QED BY <2>1, <2>2
  <1> QED BY <1>5, <1>6

---------------------------------------------------------------------------
LEMMA NextKeepsJInv == ASSUME Quiet PROVE JInv /\ [Next]_vars => JInv'
  <1> SUFFICES ASSUME JInv, [Next]_vars PROVE JInv'
    OBVIOUS
  <1>0. IInv'
    BY NextKeepsIInv DEF JInv
  <1> SUFFICES Untorn' /\ AllowanceUsed'
    BY <1>0 DEF JInv
  <1>1. ASSUME NEW c \in CPU, Walk(c) PROVE Untorn' /\ AllowanceUsed'
    <2>1. CASE BeginWalk(c) \/ EndWalk(c) \/ Skip(c)
      BY <2>1, QuietFrame DEF BeginWalk, EndWalk, Skip, procvars
    <2>2. CASE Demote(c)
      BY <2>2, DemoteUses
    <2>3. CASE Dispatch(c)
      BY <2>3, StartUses DEF Dispatch
    <2>4. CASE VisitLast(c)
      <3>1. PICK p \in Slot :
              /\ Visits(c, p) /\ state[p] = "RUNNABLE"
              /\ \/ Start(c, p)
                 \/ UNCHANGED << procvars, lock, proc, runs, level, forkvars, ticks, bumpdue >>
        BY <2>4 DEF VisitLast
      <3> QED BY <3>1, StartUses, QuietFrame DEF procvars
    <2> QED BY <1>1, <2>1, <2>2, <2>3, <2>4 DEF Walk
  <1>2. ASSUME NEW c \in CPU, TimerYield(c) \/ Sleep(c) \/ Exit(c)
        PROVE  Untorn' /\ AllowanceUsed'
    BY <1>2, LeaveUses DEF TimerYield, Sleep, Exit
  <1>3. ASSUME NEW c \in CPU, TimerIdle(c) \/ AfterYield(c)
        PROVE  Untorn' /\ AllowanceUsed'
    <2>1. UNCHANGED << cpuvars, forkvars >>
      BY <1>3 DEF TimerIdle, AfterYield
    <2>2. bump_priority \/ UNCHANGED << procvars, ring >>
      BY <1>3 DEF TimerIdle, AfterYield
    <2> QED BY <2>1, <2>2, BoostUses, QuietFrame DEF procvars, cpuvars
  <1>4. ASSUME NEW c \in CPU, NEW q \in Slot, Reap(c, q) PROVE Untorn' /\ AllowanceUsed'
    <2>1. \A p \in Slot : state'[p] = IF p = q THEN "UNUSED" ELSE state[p]
      BY <1>4 DEF Reap, JInv, IInv, TypeOK
    <2> QED BY <1>4, <2>1, QuietFrame DEF Reap, cpuvars
  <1>5. ASSUME NEW q \in Slot, Wake(q) PROVE Untorn' /\ AllowanceUsed'
    <2>1. \A p \in Slot : state'[p] = IF p = q THEN "RUNNABLE" ELSE state[p]
      BY <1>5 DEF Wake, JInv, IInv, TypeOK
    <2> QED BY <1>5, <2>1, QuietFrame DEF Wake, cpuvars
  <1>6. CASE UNCHANGED vars
    BY <1>6, QuietFrame DEF vars, procvars, cpuvars
  <1> QED BY <1>1, <1>2, <1>3, <1>4, <1>5, <1>6, ForkAllocUses, ForkStoresUse
         DEF Next, Timer, Program

(* Allowances are kept and used up, if the machine has one processor or    *)
(* the timer never comes between fork's last stores: nobody sinks a level  *)
(* before its dispatches there are spent, not even the child in a slot     *)
(* whose last occupant had sunk, unless its parent was interrupted while   *)
(* it set the child's fields.                                              *)
THEOREM AllowancesUsed == Quiet /\ Spec => []Allowances
  <1> SUFFICES ASSUME Quiet PROVE Spec => []Allowances
    OBVIOUS
  <1>1. JInv /\ [Next]_vars => JInv'
    BY NextKeepsJInv
  <1>2. JInv => Allowances
    BY KeptIsKept DEF JInv, IInv, Allowances
  <1> QED BY <1>1, <1>2, InitJInv, PTL DEF Spec
=============================================================================
