-------------------------------- MODULE Pipe --------------------------------
(***************************************************************************)
(* p4/xv6/kernel/pipe.c, with the reference counts of file.c and the       *)
(* sleep, wakeup and kill of proc.c: one pipe, shared by processes that    *)
(* fork, read, write, close their ends and are killed.                     *)
(*                                                                         *)
(* A process that holds p->lock shares the pipe with nobody, but a kill    *)
(* takes only ptable.lock: the calls are therefore modelled byte by byte,  *)
(* and the test of killed and the sleep after it are two actions.          *)
(*                                                                         *)
(* nread and nwrite are unsigned and wrap around; the width of an unsigned *)
(* is the constant Width, which PIPESIZE divides (512 divides 2^32).       *)
(***************************************************************************)
EXTENDS Integers, FiniteSets, Sequences, FiniteSetsExt

CONSTANTS Proc,      \* processes
          Nobody,    \* no process: the lock is free
          Maker,     \* the process that called pipe()
          PIPESIZE,
          Width,
          MaxBytes,  \* bound: bytes that are ever written
          MaxChunk   \* bound: bytes in one call of read or write

ASSUME PipeAssumption ==
  /\ IsFiniteSet(Proc) /\ Maker \in Proc /\ Nobody \notin Proc
  /\ PIPESIZE \in Nat \ {0} /\ Width \in Nat
  /\ Width > PIPESIZE /\ Width % PIPESIZE = 0
  /\ MaxBytes \in Nat /\ MaxChunk \in Nat \ {0}

End  == {"r", "w"}
Byte == 1 .. MaxBytes   \* each byte is told by its place in the stream

VARIABLES
  data, nread, nwrite, open,  \* struct pipe; open[e]: readopen, writeopen
  freed,                      \* has the pipe been given back by kfree?
  lock,                       \* the holder of p->lock
  ref,                        \* references to the two struct files
  fds,                        \* the ends that each process holds
  pc, left, killed,           \* each process: where it is, bytes still to do
  sent,                       \* bytes put into the pipe so far
  got,                        \* the bytes that readers found, in order
  eof                         \* has a reader been told "end of file"?

pipe == << data, nread, nwrite, open, freed >>
vars == << pipe, lock, ref, fds, pc, left, killed, sent, got, eof >>

Pcs == {"unborn", "user", "dead", "close_r", "close_w",
        "wlock", "wloop", "wsleep", "wasleep",
        "rlock", "rtest", "rcopy", "rsleep", "rasleep"}

\* pipealloc, and the two descriptors of sys_pipe.
Init ==
  /\ data = [i \in 0 .. PIPESIZE - 1 |-> 0]
  /\ nread = 0 /\ nwrite = 0
  /\ open = [e \in End |-> TRUE] /\ freed = FALSE
  /\ lock = Nobody
  /\ ref = [e \in End |-> 1]
  /\ fds = [p \in Proc |-> IF p = Maker THEN End ELSE {}]
  /\ pc = [p \in Proc |-> IF p = Maker THEN "user" ELSE "unborn"]
  /\ left = [p \in Proc |-> 0]
  /\ killed = [p \in Proc |-> FALSE]
  /\ sent = 0 /\ got = << >> /\ eof = FALSE

---------------------------------------------------------------------------
Inc(c) == (c + 1) % Width

Empty == nread = nwrite

Full_Unwrapped == nwrite = nread + PIPESIZE   \* mutated: no wrap-around
Full == nwrite = (nread + PIPESIZE) % Width

\* wakeup(&p->nread), wakeup(&p->nwrite): from sleep back to the lock.
WakeNobody == pc                              \* mutated: wakeup forgotten
WakeReaders == [q \in Proc |-> IF pc[q] = "rasleep" THEN "rlock" ELSE pc[q]]
WakeWriters == [q \in Proc |-> IF pc[q] = "wasleep" THEN "wlock" ELSE pc[q]]

WakeAtEof_Nobody == pc                        \* mutated: pipeclose wakes nobody
WakeAtEof == WakeReaders

\* Return to user mode, releasing the lock, after waking others.
Return(p, woken) == pc' = [woken EXCEPT ![p] = "user"] /\ lock' = Nobody

Acquire(p) ==
  /\ lock = Nobody
  /\ pc[p] \in {"wlock", "rlock"}
  /\ lock' = p
  /\ pc' = [pc EXCEPT ![p] = IF @ = "wlock" THEN "wloop" ELSE "rtest"]
  /\ UNCHANGED << pipe, ref, fds, left, killed, sent, got, eof >>

---------------------------------------------------------------------------
(* pipewrite *)

\* Bytes that the writers still mean to put (for the bound only).
Pending == MapThenSumSet(LAMBDA q : left[q],
             {q \in Proc : pc[q] \in {"wlock", "wloop", "wsleep", "wasleep"}})

WriteBegin(p, n) ==
  /\ pc[p] = "user" /\ ~killed[p] /\ "w" \in fds[p]
  /\ sent + Pending + n <= MaxBytes
  /\ left' = [left EXCEPT ![p] = n]
  /\ pc' = [pc EXCEPT ![p] = "wlock"]
  /\ UNCHANGED << pipe, lock, ref, fds, killed, sent, got, eof >>

WriteByte(p) ==
  /\ pc[p] = "wloop" /\ left[p] > 0 /\ ~Full
  /\ data' = [data EXCEPT ![nwrite % PIPESIZE] = sent + 1]
  /\ nwrite' = Inc(nwrite)
  /\ sent' = sent + 1
  /\ left' = [left EXCEPT ![p] = @ - 1]
  /\ UNCHANGED << nread, open, freed, lock, ref, fds, pc, killed, got,
                  eof >>

WriteFull(p) ==
  /\ pc[p] = "wloop" /\ left[p] > 0 /\ Full
  /\ IF ~open["r"] \/ killed[p]
       THEN Return(p, pc) /\ left' = [left EXCEPT ![p] = 0]
       ELSE /\ pc' = [WakeReaders EXCEPT ![p] = "wsleep"]
            /\ UNCHANGED << lock, left >>
  /\ UNCHANGED << pipe, ref, fds, killed, sent, got, eof >>

WriteEnd(p) ==
  /\ pc[p] = "wloop" /\ left[p] = 0
  /\ Return(p, WakeReaders)
  /\ UNCHANGED << pipe, ref, fds, left, killed, sent, got, eof >>

---------------------------------------------------------------------------
(* piperead *)

ReadBegin(p, n) ==
  /\ pc[p] = "user" /\ ~killed[p] /\ "r" \in fds[p]
  /\ left' = [left EXCEPT ![p] = n]
  /\ pc' = [pc EXCEPT ![p] = "rlock"]
  /\ UNCHANGED << pipe, lock, ref, fds, killed, sent, got, eof >>

MustWait == Empty /\ open["w"]

ReadTest(p) ==
  /\ pc[p] = "rtest"
  /\ \/ /\ ~MustWait
        /\ eof' = (eof \/ Empty)              \* read returns 0
        /\ pc' = [pc EXCEPT ![p] = "rcopy"]
        /\ UNCHANGED << lock, left >>
     \/ /\ MustWait /\ killed[p]
        /\ Return(p, pc) /\ left' = [left EXCEPT ![p] = 0]
        /\ eof' = eof
     \/ /\ MustWait /\ ~killed[p]
        /\ pc' = [pc EXCEPT ![p] = "rsleep"]
        /\ UNCHANGED << lock, left, eof >>
  /\ UNCHANGED << pipe, ref, fds, killed, sent, got >>

ReadByte(p) ==
  /\ pc[p] = "rcopy" /\ left[p] > 0 /\ ~Empty
  /\ got' = Append(got, data[nread % PIPESIZE])
  /\ nread' = Inc(nread)
  /\ left' = [left EXCEPT ![p] = @ - 1]
  /\ UNCHANGED << data, nwrite, open, freed, lock, ref, fds, pc, killed, sent,
                  eof >>

ReadEnd(p) ==
  /\ pc[p] = "rcopy" /\ (left[p] = 0 \/ Empty)
  /\ Return(p, WakeWriters)
  /\ left' = [left EXCEPT ![p] = 0]
  /\ UNCHANGED << pipe, ref, fds, killed, sent, got, eof >>

\* sleep(chan, &p->lock): asleep and the lock released, in one step of
\* ptable.lock.
Sleep(p) ==
  /\ pc[p] \in {"wsleep", "rsleep"}
  /\ pc' = [pc EXCEPT ![p] = IF @ = "wsleep" THEN "wasleep" ELSE "rasleep"]
  /\ lock' = Nobody
  /\ UNCHANGED << pipe, ref, fds, left, killed, sent, got, eof >>

---------------------------------------------------------------------------
(* Descriptors: fork, close and exit. *)

\* fork: filedup of every open file.
Dup_Uncounted(p) == ref                       \* mutated: no reference is taken
Dup(p) == [e \in End |-> IF e \in fds[p] THEN ref[e] + 1 ELSE ref[e]]

Fork(p, q) ==
  /\ pc[p] = "user" /\ ~killed[p] /\ pc[q] = "unborn"
  /\ fds' = [fds EXCEPT ![q] = fds[p]]
  /\ ref' = Dup(p)
  /\ pc' = [pc EXCEPT ![q] = "user"]
  /\ UNCHANGED << pipe, lock, left, killed, sent, got, eof >>

\* fileclose: the last reference to an end goes on to pipeclose.  A process
\* that is killed closes everything in exit().
CloseFile(p, e) ==
  /\ pc[p] = "user" /\ e \in fds[p]
  /\ fds' = [fds EXCEPT ![p] = @ \ {e}]
  /\ ref' = [ref EXCEPT ![e] = @ - 1]
  /\ pc' = [pc EXCEPT ![p] = IF ref[e] > 1 THEN "user"
                             ELSE IF e = "r" THEN "close_r" ELSE "close_w"]
  /\ UNCHANGED << pipe, lock, left, killed, sent, got, eof >>

pipeclose(p) ==
  /\ pc[p] \in {"close_r", "close_w"} /\ lock = Nobody
  /\ LET e == IF pc[p] = "close_r" THEN "r" ELSE "w" IN
       /\ open' = [open EXCEPT ![e] = FALSE]
       /\ pc' = [(IF e = "w" THEN WakeAtEof ELSE WakeWriters)
                   EXCEPT ![p] = "user"]
       /\ freed' = \A d \in End : d = e \/ ~open[d]
  /\ UNCHANGED << data, nread, nwrite, lock, ref, fds, left, killed, sent, got, eof >>

ExitLast(p) ==
  /\ pc[p] = "user" /\ fds[p] = {}
  /\ pc' = [pc EXCEPT ![p] = "dead"]
  /\ UNCHANGED << pipe, lock, ref, fds, left, killed, sent, got, eof >>

\* kill: mark, and wake if asleep at this moment.
Kill(p) ==
  /\ ~killed[p] /\ pc[p] \notin {"unborn", "dead"}
  /\ killed' = [killed EXCEPT ![p] = TRUE]
  /\ pc' = [pc EXCEPT ![p] = CASE @ = "rasleep" -> "rlock"
                               [] @ = "wasleep" -> "wlock"
                               [] OTHER -> @]
  /\ UNCHANGED << pipe, lock, ref, fds, left, sent, got, eof >>

---------------------------------------------------------------------------
\* What a process does once it is in a call, and how a program ends.
InCall(p) == \/ Acquire(p) \/ WriteByte(p) \/ WriteFull(p) \/ WriteEnd(p)
             \/ ReadTest(p) \/ ReadByte(p) \/ ReadEnd(p) \/ Sleep(p)
             \/ pipeclose(p)

Next ==
  \E p \in Proc :
    \/ InCall(p)
    \/ \E n \in 1 .. MaxChunk : WriteBegin(p, n) \/ ReadBegin(p, n)
    \/ \E q \in Proc : Fork(p, q)
    \/ \E e \in End : CloseFile(p, e)
    \/ ExitLast(p)
    \/ Kill(p)

Spec == Init /\ [][Next]_vars

\* A process that is in a call gets on with it, and spinning for p->lock ends;
\* every program sooner or later closes what it holds (sh.c closes both ends in
\* itself and the unused end in each side of a pipeline).
Fairness == \A p \in Proc :
  /\ SF_vars(InCall(p))
  /\ SF_vars(\E e \in End : CloseFile(p, e))

FairSpec == Spec /\ Fairness

---------------------------------------------------------------------------
(* Properties. *)

Counter == 0 .. Width - 1

TypeOK ==
  /\ data \in [0 .. PIPESIZE - 1 -> 0 .. sent]
  /\ nread \in Counter /\ nwrite \in Counter
  /\ open \in [End -> BOOLEAN] /\ freed \in BOOLEAN
  /\ lock \in Proc \cup {Nobody}
  /\ ref \in [End -> Nat]
  /\ fds \in [Proc -> SUBSET End]
  /\ pc \in [Proc -> Pcs]
  /\ left \in [Proc -> 0 .. MaxChunk]
  /\ killed \in [Proc -> BOOLEAN]
  /\ sent \in Nat /\ got \in Seq(Nat) /\ eof \in BOOLEAN

\* How many bytes are in the pipe: the difference of the two counters.
Size == (nwrite - nread) % Width

\* No lost wakeup: a reader sleeps only while the pipe is empty and can still
\* be written, a writer only while it is full and can still be read - unless
\* the holder of the lock is at work and will wake it (piperead, pipewrite), or
\* a process was killed: a killed writer leaves its bytes and wakes nobody.
SleepersWait ==
  (\A p \in Proc : ~killed[p]) =>
    \A p \in Proc :
      /\ pc[p] = "rasleep" => MustWait \/ \E q \in Proc : pc[q] = "wloop"
      /\ pc[p] = "wasleep" => \/ Full /\ open["r"]
                              \/ \E q \in Proc : pc[q] = "rcopy"

\* The pipe's memory is given back only when no process is in a call on it,
\* and none holds a descriptor with which it could start one.
FreedMeansUnused ==
  /\ TypeOK
  /\ freed => \A p \in Proc :
       fds[p] = {} /\ pc[p] \in {"unborn", "user", "dead"}

\* End of file is for good: when a reader has been told that nothing is left,
\* no byte is ever written any more.
EofIsFinal == [][eof => sent' = sent]_vars

\* Every call returns once the programs close their ends: nobody sleeps in
\* the pipe for ever, killed or not - unless some process sleeps in a call on
\* one end and has not closed the other, so that it may wait for itself.
WaitsForItself(p) == pc[p] \in {"rasleep", "wasleep"} /\ fds[p] = End
EveryCallReturns ==
  \A p \in Proc :
    (pc[p] \in {"rlock", "wlock"})
      ~> (pc[p] \in {"user", "dead"} \/ \E q \in Proc : WaitsForItself(q))

\* The pipe is a FIFO of at most PIPESIZE bytes (BoundedFifo): pipewrite and
\* piperead hand over each byte once, in order, whatever the wrapping counters
\* are, and lose none before the last pipeclose frees the memory.
Contents == IF freed THEN << >>
            ELSE [i \in 1 .. Size |-> data[(nread + i - 1) % PIPESIZE]]
Fifo == INSTANCE BoundedFifo WITH Item <- Byte, Capacity <- PIPESIZE,
                                  queue <- Contents, out <- got,
                                  closed <- freed
ImplementsFifo == Fifo!Spec
=============================================================================
