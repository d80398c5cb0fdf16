----------------------------- MODULE PipeProofs -----------------------------
(***************************************************************************)
(* Theorems about Pipe, for any number of processes and any sizes: the     *)
(* memory is freed only when unused, end of file is final, nobody sleeps   *)
(* without a reason, and the bytes are a queue.                            *)
(*                                                                         *)
(* None of the four is inductive.  The first two need that the reference   *)
(* counts are the numbers of descriptors, that whoever is inside a call    *)
(* has the descriptor for it, and that an end is open until the process    *)
(* that gave back its last reference has been through pipeclose.  The      *)
(* third needs that the lock's holder is the only one inside.  The last    *)
(* needs that there are never more bytes than slots, and remainders of     *)
(* counters that wrap around (Numbers).                                    *)
(*                                                                         *)
(* And one about Shm, the other thing that processes share and count: the  *)
(* reference counts, the processes' bits and mappings and the free list    *)
(* agree at every moment.                                                  *)
(***************************************************************************)
EXTENDS Pipe, Shm, TLAPS, FiniteSetTheorems, SequenceTheorems, Numbers

Holders(e) == {p \in Proc : e \in fds[p]}
Closing(e) == IF e = "r" THEN "close_r" ELSE "close_w"

RefsCounted == \A e \in End : ref[e] = Cardinality(Holders(e))

CallersHold == \A p \in Proc :
  /\ pc[p] \in {"wlock", "wloop", "wsleep", "wasleep"} => "w" \in fds[p]
  /\ pc[p] \in {"rlock", "rtest", "rcopy", "rsleep", "rasleep"} => "r" \in fds[p]
  /\ pc[p] \in {"unborn", "dead"} => fds[p] = {}

OneCloses == \A e \in End : \A p \in Proc : pc[p] = Closing(e) =>
  /\ open[e] /\ Holders(e) = {}
  /\ \A q \in Proc : pc[q] = Closing(e) => q = p

OpenWhileHeld == \A e \in End : Holders(e) # {} => open[e]

FreedIsClosed == freed => \A e \in End : ~open[e]

EofIsClosed == eof => ~open["w"]

IInv == /\ TypeOK /\ RefsCounted /\ CallersHold
        /\ OneCloses /\ OpenWhileHeld /\ FreedIsClosed /\ EofIsClosed

---------------------------------------------------------------------------
LEMMA HoldersFinite ==
  ASSUME NEW e \in End
  PROVE  /\ IsFiniteSet(Holders(e)) /\ Cardinality(Holders(e)) \in Nat
         /\ Holders(e) # {} => Cardinality(Holders(e)) > 0
  <1>1. Holders(e) \in SUBSET Proc
    BY DEF Holders
  <1>2. IsFiniteSet(Holders(e))
    BY <1>1, PipeAssumption, FS_Subset
  <1> QED BY <1>2, FS_CardinalityType, FS_EmptySet

(* What the invariant needs of a step that changes no descriptor and       *)
(* closes nothing.                                                         *)
Quiet ==
  /\ fds' = fds /\ ref' = ref /\ open' = open /\ freed' = freed
  /\ eof' => eof \/ ~open["w"]
  /\ \A q \in Proc : \A e \in End : pc'[q] = Closing(e) => pc[q] = Closing(e)

LEMMA QuietKeeps ==
  ASSUME IInv, Quiet, TypeOK', CallersHold'
  PROVE  IInv'
  <1>1. \A e \in End : Holders(e)' = Holders(e)
    BY DEF Quiet, Holders
  <1>2. RefsCounted'
    BY <1>1 DEF IInv, RefsCounted, Quiet
  <1>3. OneCloses'
    BY <1>1 DEF IInv, OneCloses, Quiet, Closing
  <1>4. OpenWhileHeld' /\ FreedIsClosed' /\ EofIsClosed'
    BY <1>1 DEF IInv, OpenWhileHeld, FreedIsClosed, EofIsClosed, Quiet
  <1> QED BY <1>2, <1>3, <1>4 DEF IInv

LEMMA NothingLeft == 0 \in 0 .. MaxChunk
  BY PipeAssumption

LEMMA InitIInv == Init => IInv
  <1> SUFFICES ASSUME Init PROVE IInv
    OBVIOUS
  <1>1. TypeOK
    <2>1. pc \in [Proc -> Pcs] /\ fds \in [Proc -> SUBSET End] /\ lock \in Proc \cup {Nobody}
      BY DEF Init, Pcs
    <2>2. left \in [Proc -> 0 .. MaxChunk] /\ 0 \in Counter
      BY PipeAssumption DEF Init, Counter
    <2>3. data \in [0 .. PIPESIZE - 1 -> 0 .. sent]
      BY DEF Init
    <2>4. got \in Seq(Nat)
      BY DEF Init
    <2> QED BY <2>1, <2>2, <2>3, <2>4 DEF Init, TypeOK
  <1>2. \A e \in End : Holders(e) = {Maker}
    BY PipeAssumption DEF Init, Holders
  <1>3. RefsCounted
    BY <1>2, FS_Singleton DEF Init, RefsCounted, End
  <1>4. CallersHold /\ OneCloses
    BY DEF Init, CallersHold, OneCloses, Closing, End
  <1>5. OpenWhileHeld /\ FreedIsClosed /\ EofIsClosed
    BY DEF Init, OpenWhileHeld, FreedIsClosed, EofIsClosed, End
  <1> QED BY <1>1, <1>3, <1>4, <1>5 DEF IInv

---------------------------------------------------------------------------
(* Calls in the pipe. *)

LEMMA AcquireKeeps == ASSUME IInv, NEW p \in Proc, Acquire(p) PROVE IInv'
  <1>1. TypeOK'
    BY DEF IInv, TypeOK, Acquire, pipe, Pcs
  <1>2. CallersHold'
    BY DEF IInv, TypeOK, CallersHold, Acquire
  <1>3. Quiet
    BY DEF IInv, TypeOK, Quiet, Acquire, pipe, Closing
  <1> QED BY <1>1, <1>2, <1>3, QuietKeeps

LEMMA BeginKeeps ==
  ASSUME IInv, NEW p \in Proc, NEW n \in 1 .. MaxChunk, WriteBegin(p, n) \/ ReadBegin(p, n)
  PROVE  IInv'
  <1>1. TypeOK'
    <2>1. left' \in [Proc -> 0 .. MaxChunk]
      BY PipeAssumption DEF IInv, TypeOK, WriteBegin, ReadBegin
    <2>2. pc' \in [Proc -> Pcs]
      BY DEF IInv, TypeOK, WriteBegin, ReadBegin, Pcs
    <2> QED BY <2>1, <2>2 DEF IInv, TypeOK, WriteBegin, ReadBegin, pipe
  <1>2. CallersHold'
    BY DEF IInv, TypeOK, CallersHold, WriteBegin, ReadBegin
  <1>3. Quiet
    BY DEF IInv, TypeOK, Quiet, WriteBegin, ReadBegin, pipe, Closing
  <1> QED BY <1>1, <1>2, <1>3, QuietKeeps

LEMMA WriteByteKeeps == ASSUME IInv, NEW p \in Proc, WriteByte(p) PROVE IInv'
  <1>1. /\ sent' = sent + 1 /\ sent \in Nat
        /\ data' \in [0 .. PIPESIZE - 1 -> 0 .. sent + 1]
    <2>1. sent \in Nat /\ sent' = sent + 1 /\ data \in [0 .. PIPESIZE - 1 -> 0 .. sent]
      BY DEF IInv, TypeOK, WriteByte
    <2>2. \A i \in 0 .. PIPESIZE - 1 : data[i] \in 0 .. sent + 1
      BY <2>1
    <2>3. data' = [data EXCEPT ![nwrite % PIPESIZE] = sent + 1] /\ sent + 1 \in 0 .. sent + 1
      BY <2>1 DEF WriteByte
    <2>4. data \in [0 .. PIPESIZE - 1 -> 0 .. sent + 1]
      BY <2>1, <2>2
    <2> QED BY <2>1, <2>3, <2>4
  <1>2. nwrite' \in Counter
    BY PipeAssumption DEF IInv, TypeOK, WriteByte, Inc, Counter
  <1>3. left' \in [Proc -> 0 .. MaxChunk]
    BY PipeAssumption DEF IInv, TypeOK, WriteByte
  <1>4. TypeOK'
    BY <1>1, <1>2, <1>3 DEF IInv, TypeOK, WriteByte
  <1>5. CallersHold' /\ Quiet
    BY DEF IInv, CallersHold, Quiet, WriteByte
  <1> QED BY <1>4, <1>5, QuietKeeps

LEMMA WriteFullKeeps ==
  ASSUME IInv, NEW p \in Proc, WriteFull(p) \/ WriteEnd(p) PROVE IInv'
  <1>0. \A q \in Proc : WakeReaders[q] = IF pc[q] = "rasleep" THEN "rlock" ELSE pc[q]
    BY DEF WakeReaders
  <1> WakeReaders \in [Proc -> Pcs]
    BY DEF IInv, TypeOK, WakeReaders, Pcs
  <1>1. TypeOK'
    <2>1. left' \in [Proc -> 0 .. MaxChunk]
      BY NothingLeft DEF IInv, TypeOK, WriteFull, WriteEnd
    <2>2. pc' \in [Proc -> Pcs] /\ lock' \in Proc \cup {Nobody}
      BY DEF IInv, TypeOK, WriteFull, WriteEnd, Return, Pcs
    <2> QED BY <2>1, <2>2 DEF IInv, TypeOK, WriteFull, WriteEnd, pipe
  <1>2. CallersHold'
    BY DEF IInv, TypeOK, CallersHold, WriteFull, WriteEnd, Return, WakeReaders
  <1>3. Quiet
    <2>1. \A q \in Proc : pc'[q] \in {"close_r", "close_w"} => pc'[q] = pc[q]
      BY <1>0 DEF IInv, TypeOK, WriteFull, WriteEnd, Return
    <2> QED BY <2>1 DEF Quiet, WriteFull, WriteEnd, pipe, Closing
  <1> QED BY <1>1, <1>2, <1>3, QuietKeeps

LEMMA ReadTestKeeps == ASSUME IInv, NEW p \in Proc, ReadTest(p) PROVE IInv'
  <1>1. TypeOK'
    <2>1. left' \in [Proc -> 0 .. MaxChunk]
      BY NothingLeft DEF IInv, TypeOK, ReadTest
    <2>2. pc' \in [Proc -> Pcs] /\ lock' \in Proc \cup {Nobody}
      BY DEF IInv, TypeOK, ReadTest, Return, Pcs
    <2>3. eof' \in BOOLEAN
      BY DEF IInv, TypeOK, ReadTest, Empty
    <2> QED BY <2>1, <2>2, <2>3 DEF IInv, TypeOK, ReadTest, pipe
  <1>2. CallersHold'
    BY DEF IInv, TypeOK, CallersHold, ReadTest, Return
  <1>3. Quiet
    BY DEF IInv, TypeOK, Quiet, ReadTest, Return, pipe, Closing, MustWait
  <1> QED BY <1>1, <1>2, <1>3, QuietKeeps

LEMMA ReadByteKeeps == ASSUME IInv, NEW p \in Proc, ReadByte(p) PROVE IInv'
  <1>1. nread' \in Counter
    BY PipeAssumption DEF IInv, TypeOK, ReadByte, Inc, Counter
  <1>2. left' \in [Proc -> 0 .. MaxChunk]
    BY PipeAssumption DEF IInv, TypeOK, ReadByte
  <1>0. got' \in Seq(Nat)
    <2>1. nread % PIPESIZE \in 0 .. PIPESIZE - 1
      BY PipeAssumption DEF IInv, TypeOK, Counter
    <2>2. data[nread % PIPESIZE] \in Nat
      BY <2>1 DEF IInv, TypeOK
    <2> QED BY <2>2 DEF IInv, TypeOK, ReadByte
  <1>3. TypeOK'
    BY <1>0, <1>1, <1>2 DEF IInv, TypeOK, ReadByte
  <1>4. CallersHold' /\ Quiet
    BY DEF IInv, CallersHold, Quiet, ReadByte
  <1> QED BY <1>3, <1>4, QuietKeeps

LEMMA ReadEndKeeps ==
  ASSUME IInv, NEW p \in Proc, ReadEnd(p) \/ Sleep(p) PROVE IInv'
  <1>0. \A q \in Proc : WakeWriters[q] = IF pc[q] = "wasleep" THEN "wlock" ELSE pc[q]
    BY DEF WakeWriters
  <1> WakeWriters \in [Proc -> Pcs]
    BY DEF IInv, TypeOK, WakeWriters, Pcs
  <1>1. TypeOK'
    <2>1. left' \in [Proc -> 0 .. MaxChunk]
      BY NothingLeft DEF IInv, TypeOK, ReadEnd, Sleep
    <2>2. pc' \in [Proc -> Pcs] /\ lock' \in Proc \cup {Nobody}
      BY DEF IInv, TypeOK, ReadEnd, Sleep, Return, Pcs
    <2> QED BY <2>1, <2>2 DEF IInv, TypeOK, ReadEnd, Sleep, pipe
  <1>2. CallersHold'
    BY DEF IInv, TypeOK, CallersHold, ReadEnd, Sleep, Return, WakeWriters
  <1>3. Quiet
    <2>1. \A q \in Proc : pc'[q] \in {"close_r", "close_w"} => pc'[q] = pc[q]
      BY <1>0 DEF IInv, TypeOK, ReadEnd, Sleep, Return
    <2> QED BY <2>1 DEF Quiet, ReadEnd, Sleep, pipe, Closing
  <1> QED BY <1>1, <1>2, <1>3, QuietKeeps

LEMMA KillKeeps ==
  ASSUME IInv, NEW p \in Proc, Kill(p) \/ ExitLast(p) PROVE IInv'
  <1>1. TypeOK'
    BY DEF IInv, TypeOK, Kill, ExitLast, pipe, Pcs
  <1>2. CallersHold'
    BY DEF IInv, TypeOK, CallersHold, Kill, ExitLast
  <1>3. Quiet
    BY DEF IInv, TypeOK, Quiet, Kill, ExitLast, pipe, Closing
  <1> QED BY <1>1, <1>2, <1>3, QuietKeeps

---------------------------------------------------------------------------
(* Descriptors. *)

LEMMA ForkKeeps == ASSUME IInv, NEW p \in Proc, NEW q \in Proc, Fork(p, q) PROVE IInv'
  <1>1. /\ p # q /\ fds[q] = {} /\ fds \in [Proc -> SUBSET End]
        /\ fds' = [fds EXCEPT ![q] = fds[p]]
    BY DEF IInv, TypeOK, CallersHold, Fork
  <1>2. \A e \in End : Holders(e)' = IF e \in fds[p] THEN Holders(e) \cup {q} ELSE Holders(e)
    BY <1>1 DEF Holders
  <1>3. \A e \in End : q \notin Holders(e) /\ (e \in fds[p] => p \in Holders(e))
    BY <1>1 DEF Holders
  <1>4. ASSUME NEW e \in End
        PROVE  ref'[e] = Cardinality(Holders(e)') /\ ref'[e] \in Nat
    <2>1. ref'[e] = (IF e \in fds[p] THEN ref[e] + 1 ELSE ref[e]) /\ ref[e] = Cardinality(Holders(e))
      BY DEF Fork, Dup, IInv, RefsCounted
    <2>2. Cardinality(Holders(e) \cup {q}) = Cardinality(Holders(e)) + 1
      BY <1>3, HoldersFinite, FS_AddElement
    <2>3. Cardinality(Holders(e)) \in Nat
      BY HoldersFinite
    <2>4. CASE e \in fds[p]
      <3>1. Holders(e)' = Holders(e) \cup {q} /\ ref'[e] = ref[e] + 1
        BY <1>2, <2>1, <2>4
      <3> QED BY <2>1, <2>2, <2>3, <3>1
    <2>5. CASE e \notin fds[p]
      BY <1>2, <2>1, <2>3, <2>5
    <2> QED BY <2>4, <2>5
  <1>5. ref' \in [End -> Nat]
    BY <1>4 DEF Fork, Dup
  <1>6. TypeOK'
    BY <1>1, <1>5 DEF IInv, TypeOK, Fork, pipe, Pcs
  <1>7. CallersHold'
    BY <1>1 DEF IInv, TypeOK, CallersHold, Fork
  <1>8. \A e \in End : Holders(e)' = {} <=> Holders(e) = {}
    BY <1>2, <1>3
  <1>9. \A e \in End : \A r \in Proc : pc'[r] = Closing(e) => pc[r] = Closing(e)
    BY DEF IInv, TypeOK, Fork, Closing
  <1>10. OneCloses' /\ OpenWhileHeld'
    BY <1>8, <1>9 DEF IInv, OneCloses, OpenWhileHeld, Fork, pipe, Closing
  <1> QED BY <1>4, <1>6, <1>7, <1>10
          DEF IInv, RefsCounted, FreedIsClosed, EofIsClosed, Fork, pipe

LEMMA CloseFileKeeps ==
  ASSUME IInv, NEW p \in Proc, NEW e \in End, CloseFile(p, e) PROVE IInv'
  <1>1. /\ e \in fds[p] /\ fds \in [Proc -> SUBSET End]
        /\ fds' = [fds EXCEPT ![p] = @ \ {e}]
        /\ ref \in [End -> Nat] /\ ref' = [ref EXCEPT ![e] = @ - 1]
        /\ pc \in [Proc -> Pcs] /\ pc[p] = "user"
        /\ pc' = [pc EXCEPT ![p] = IF ref[e] > 1 THEN "user" ELSE Closing(e)]
    BY DEF IInv, TypeOK, CloseFile, Closing
  <1>2. /\ Holders(e)' = Holders(e) \ {p} /\ p \in Holders(e)
        /\ \A d \in End \ {e} : Holders(d)' = Holders(d)
    BY <1>1 DEF Holders
  <1>3. Cardinality(Holders(e)') = Cardinality(Holders(e)) - 1
    BY <1>2, HoldersFinite, FS_RemoveElement
  <1>4. \A d \in End : ref[d] = Cardinality(Holders(d)) /\ ref[d] \in Nat
    BY <1>1 DEF IInv, RefsCounted
  <1>5. ref[e] > 0
    BY <1>2, <1>4, HoldersFinite
  <1>6. RefsCounted' /\ ref' \in [End -> Nat]
    <2>1. \A d \in End : ref'[d] = IF d = e THEN ref[e] - 1 ELSE ref[d]
      BY <1>1
    <2>2. \A d \in End : ref'[d] = Cardinality(Holders(d)')
      BY <1>2, <1>3, <1>4, <2>1
    <2>3. \A d \in End : ref'[d] \in Nat
      BY <1>4, <1>5, <2>1
    <2> QED BY <1>1, <2>2, <2>3 DEF RefsCounted
  <1>7. TypeOK'
    BY <1>1, <1>6 DEF IInv, TypeOK, CloseFile, pipe, Pcs, Closing
  <1>8. CallersHold'
    BY <1>1 DEF IInv, CallersHold, Closing
  <1>9. ref[e] <= 1 => Holders(e)' = {}
    <2>1. IsFiniteSet(Holders(e)')
      BY <1>2, HoldersFinite, FS_Subset
    <2> QED BY <1>3, <1>4, <1>5, <2>1, FS_EmptySet
  <1>10. open[e] /\ \A q \in Proc : pc[q] # Closing(e)
    BY <1>2 DEF IInv, OpenWhileHeld, OneCloses
  <1>11. open' = open /\ freed' = freed /\ eof' = eof
    BY DEF CloseFile, pipe
  <1>12. OneCloses'
    <2> SUFFICES ASSUME NEW d \in End, NEW r \in Proc, pc'[r] = Closing(d)
                 PROVE  /\ open[d] /\ Holders(d)' = {}
                        /\ \A q \in Proc : pc'[q] = Closing(d) => q = r
      BY <1>11 DEF OneCloses, Closing
    <2>1. CASE d = e
      <3>1. r = p /\ ref[e] <= 1
        BY <1>1, <1>10, <1>4, <2>1 DEF Closing
      <3> QED BY <1>1, <1>9, <1>10, <2>1, <3>1
    <2>2. CASE d # e
      <3>1. \A q \in Proc : pc'[q] = Closing(d) => pc[q] = Closing(d)
        BY <1>1, <2>2 DEF Closing, End
      <3> QED BY <1>2, <2>2, <3>1 DEF IInv, OneCloses
    <2> QED BY <2>1, <2>2
  <1>13. OpenWhileHeld'
    BY <1>2, <1>11 DEF IInv, OpenWhileHeld
  <1> QED BY <1>6, <1>7, <1>8, <1>11, <1>12, <1>13 DEF IInv, FreedIsClosed, EofIsClosed

LEMMA PipecloseKeeps == ASSUME IInv, NEW p \in Proc, pipeclose(p) PROVE IInv'
  <1>1. PICK e \in End : /\ pc[p] = Closing(e)
                         /\ open' = [open EXCEPT ![e] = FALSE]
                         /\ pc' = [(IF e = "w" THEN WakeAtEof ELSE WakeWriters) EXCEPT ![p] = "user"]
                         /\ freed' = \A d \in End : d = e \/ ~open[d]
    BY DEF pipeclose, Closing, End
  <1>2. /\ fds' = fds /\ ref' = ref /\ eof' = eof
        /\ \A d \in End : Holders(d)' = Holders(d)
    BY DEF pipeclose, Holders
  <1>3. TypeOK'
    <2>1. pc' \in [Proc -> Pcs]
      BY <1>1 DEF IInv, TypeOK, WakeAtEof, WakeReaders, WakeWriters, Pcs
    <2>2. open' \in [End -> BOOLEAN] /\ freed' \in BOOLEAN
      BY <1>1 DEF IInv, TypeOK
    <2> QED BY <2>1, <2>2 DEF IInv, TypeOK, pipeclose
  <1>4. CallersHold'
    BY <1>1, <1>2 DEF IInv, TypeOK, CallersHold, WakeAtEof, WakeReaders, WakeWriters
  <1>5. /\ Holders(e) = {}
        /\ \A q \in Proc : pc[q] = Closing(e) => q = p
    BY <1>1 DEF IInv, OneCloses
  <1>6. \A d \in End : \A q \in Proc : pc'[q] = Closing(d) => pc[q] = Closing(d) /\ d # e
    BY <1>1, <1>5 DEF IInv, TypeOK, WakeAtEof, WakeReaders, WakeWriters, Closing, End
  <1>7. \A d \in End : open'[d] = IF d = e THEN FALSE ELSE open[d]
    BY <1>1 DEF IInv, TypeOK
  <1>8. OneCloses'
    <2>1. Closing("r")' = Closing("r") /\ Closing("w")' = Closing("w")
      BY DEF Closing
    <2> QED BY <1>2, <1>6, <1>7, <2>1 DEF IInv, OneCloses, End
  <1>9. OpenWhileHeld' /\ FreedIsClosed' /\ EofIsClosed'
    BY <1>1, <1>2, <1>5, <1>7 DEF IInv, OpenWhileHeld, FreedIsClosed, EofIsClosed, End
  <1> QED BY <1>2, <1>3, <1>4, <1>8, <1>9 DEF IInv, RefsCounted

LEMMA NextIInv == IInv /\ [Next]_vars => IInv'
  <1> SUFFICES ASSUME IInv, [Next]_vars PROVE IInv'
    OBVIOUS
  <1>1. CASE UNCHANGED vars
    BY <1>1 DEF vars, pipe, IInv, TypeOK, Counter, Pcs, RefsCounted, CallersHold, OneCloses,
                OpenWhileHeld, FreedIsClosed, EofIsClosed, Holders, Closing
  <1>2. CASE Next
    <2>1. PICK p \in Proc : \/ InCall(p)
                            \/ \E n \in 1 .. MaxChunk : WriteBegin(p, n) \/ ReadBegin(p, n)
                            \/ \E q \in Proc : Fork(p, q)
                            \/ \E e \in End : CloseFile(p, e)
                            \/ ExitLast(p)
                            \/ Kill(p)
      BY <1>2 DEF Next
    <2>2. CASE InCall(p)
      BY <2>2, AcquireKeeps, WriteByteKeeps, WriteFullKeeps, ReadTestKeeps, ReadByteKeeps,
         ReadEndKeeps, PipecloseKeeps DEF InCall
    <2> QED BY <2>1, <2>2, BeginKeeps, ForkKeeps, CloseFileKeeps, KillKeeps
  <1> QED BY <1>1, <1>2

LEMMA Invariance == Spec => []IInv
  BY InitIInv, NextIInv, PTL DEF Spec

---------------------------------------------------------------------------
LEMMA FreedFollows == IInv => FreedMeansUnused
  <1> SUFFICES ASSUME IInv, freed, NEW p \in Proc
               PROVE  fds[p] = {} /\ pc[p] \in {"unborn", "user", "dead"}
    BY DEF FreedMeansUnused, IInv
  <1>1. \A e \in End : ~open[e] /\ Holders(e) = {}
    BY DEF IInv, FreedIsClosed, OpenWhileHeld
  <1>2. fds[p] = {}
    BY <1>1 DEF Holders, IInv, TypeOK
  <1>3. pc[p] # "close_r" /\ pc[p] # "close_w"
    BY <1>1 DEF IInv, OneCloses, Closing, End
  <1>4. pc[p] \in Pcs
    BY DEF IInv, TypeOK
  <1> QED BY <1>2, <1>3, <1>4 DEF IInv, CallersHold, Pcs

(* The pipe's memory is given back only when no process is in a call on    *)
(* it and none has a descriptor (pipeclose, fileclose, fork's filedup).    *)
THEOREM FreedUnused == Spec => []FreedMeansUnused
  BY FreedFollows, Invariance, PTL

(* When a reader has been told "end of file", no byte is written any more: *)
(* whoever could write holds the end that is closed (piperead).            *)
THEOREM EofFinal == Spec => EofIsFinal
  <1>1. IInv /\ [Next]_vars => [eof => sent' = sent]_vars
    <2> SUFFICES ASSUME IInv, Next, eof PROVE sent' = sent
      BY DEF vars
    <2>1. \A p \in Proc : "w" \notin fds[p]
      BY DEF IInv, EofIsClosed, OpenWhileHeld, Holders, End
    <2>2. \A p \in Proc : ~WriteByte(p)
      BY <2>1 DEF WriteByte, IInv, CallersHold
    <2> QED BY <2>2 DEF Next, InCall, Acquire, WriteFull, WriteEnd, ReadTest, ReadByte,
              ReadEnd, Sleep, pipeclose, WriteBegin, ReadBegin, Fork, CloseFile,
              ExitLast, Kill
  <1> QED BY <1>1, Invariance, PTL DEF Spec, EofIsFinal

---------------------------------------------------------------------------
(* p->lock has one holder, who alone changes the counters; between the     *)
(* test and the sleep nothing that was tested changes.                     *)

InsideAlone == \A p \in Proc :
  pc[p] \in {"wloop", "wsleep", "rtest", "rcopy", "rsleep"} => lock = p

Tested == \A p \in Proc :
  /\ pc[p] = "rsleep" => MustWait
  /\ pc[p] = "wsleep" => Full /\ open["r"]

ReadersWait == \A p \in Proc :
  pc[p] = "rasleep" => MustWait \/ \E q \in Proc : pc[q] = "wloop"
WritersWait == \A p \in Proc :
  pc[p] = "wasleep" => (Full /\ open["r"]) \/ \E q \in Proc : pc[q] = "rcopy"

NoKill == \A p \in Proc : ~killed[p]

SleepInv ==
  InsideAlone /\ Tested /\ (NoKill => ReadersWait /\ WritersWait)

LEMMA InitSleepInv == Init => SleepInv
  BY DEF Init, SleepInv, InsideAlone, Tested, ReadersWait, WritersWait

(* Whoever is asleep in the pipe has its end open. *)
LEMMA SleeperOpens ==
  ASSUME IInv, NEW p \in Proc
  PROVE  /\ pc[p] = "rasleep" => open["r"]
         /\ pc[p] = "wasleep" => open["w"]
  BY DEF IInv, CallersHold, OpenWhileHeld, Holders, End

LEMMA AcquireSleepInv ==
  ASSUME IInv, SleepInv, NEW p \in Proc, Acquire(p) PROVE SleepInv'
  BY PipeAssumption DEF Acquire, IInv, TypeOK, SleepInv, InsideAlone, Tested, ReadersWait, WritersWait,
     NoKill, MustWait, Empty, Full, pipe

LEMMA BeginSleepInv ==
  ASSUME IInv, SleepInv, NEW p \in Proc, NEW n \in 1 .. MaxChunk,
         WriteBegin(p, n) \/ ReadBegin(p, n)
  PROVE  SleepInv'
  BY DEF WriteBegin, ReadBegin, IInv, TypeOK, SleepInv, InsideAlone, Tested, ReadersWait, WritersWait,
     NoKill, MustWait, Empty, Full, pipe

LEMMA WriteByteSleepInv ==
  ASSUME IInv, SleepInv, NEW p \in Proc, WriteByte(p) PROVE SleepInv'
  <1>1. lock = p /\ pc[p] = "wloop" /\ ~Full /\ pc' = pc /\ lock' = lock /\ killed' = killed
    BY DEF WriteByte, SleepInv, InsideAlone
  <1>2. \A q \in Proc : pc[q] \notin {"rsleep", "wsleep", "rcopy"}
    BY <1>1 DEF SleepInv, InsideAlone
  <1>3. NoKill => \A q \in Proc : pc[q] # "wasleep"
    BY <1>1, <1>2 DEF SleepInv, WritersWait
  <1> QED BY <1>1, <1>2, <1>3
          DEF SleepInv, InsideAlone, Tested, ReadersWait, WritersWait, NoKill

LEMMA ReadByteSleepInv ==
  ASSUME IInv, SleepInv, NEW p \in Proc, ReadByte(p) PROVE SleepInv'
  <1>1. lock = p /\ pc[p] = "rcopy" /\ ~Empty /\ pc' = pc /\ lock' = lock /\ killed' = killed
    BY DEF ReadByte, SleepInv, InsideAlone
  <1>2. \A q \in Proc : pc[q] \notin {"rsleep", "wsleep", "wloop"}
    BY <1>1 DEF SleepInv, InsideAlone
  <1>3. NoKill => \A q \in Proc : pc[q] # "rasleep"
    BY <1>1, <1>2 DEF SleepInv, ReadersWait, MustWait
  <1> QED BY <1>1, <1>2, <1>3
          DEF SleepInv, InsideAlone, Tested, ReadersWait, WritersWait, NoKill

(* A writer that is about to sleep, or returns, wakes the readers. *)
LEMMA WriteFullSleepInv ==
  ASSUME IInv, SleepInv, NEW p \in Proc, WriteFull(p) \/ WriteEnd(p) PROVE SleepInv'
  <1>1. /\ lock = p /\ pc[p] = "wloop" /\ killed' = killed
        /\ nread' = nread /\ nwrite' = nwrite /\ open' = open
    BY DEF WriteFull, WriteEnd, SleepInv, InsideAlone, pipe
  <1>2. \A q \in Proc : q # p => pc[q] \notin {"wloop", "wsleep", "rtest", "rcopy", "rsleep"}
    BY <1>1 DEF SleepInv, InsideAlone
  <1>3. pc \in [Proc -> Pcs]
    BY DEF IInv, TypeOK
  <1>4. Full' = Full /\ MustWait' = MustWait
    BY <1>1 DEF Full, MustWait, Empty
  <1>5. CASE pc' = [WakeReaders EXCEPT ![p] = "wsleep"] /\ lock' = lock /\ Full /\ open["r"]
    BY <1>1, <1>2, <1>3, <1>4, <1>5
       DEF SleepInv, InsideAlone, Tested, ReadersWait, WritersWait, NoKill, WakeReaders
  <1>6. CASE pc' = [WakeReaders EXCEPT ![p] = "user"]
    BY <1>1, <1>2, <1>3, <1>4, <1>6
       DEF SleepInv, InsideAlone, Tested, ReadersWait, WritersWait, NoKill, WakeReaders
  <1>7. CASE pc' = [pc EXCEPT ![p] = "user"] /\ (~open["r"] \/ killed[p])
    <2>1. NoKill => \A q \in Proc : pc[q] # "rasleep"
      BY <1>7, SleeperOpens DEF NoKill
    <2> QED BY <1>1, <1>2, <1>3, <1>4, <1>7, <2>1
            DEF SleepInv, InsideAlone, Tested, ReadersWait, WritersWait, NoKill
  <1> QED BY <1>5, <1>6, <1>7 DEF WriteFull, WriteEnd, Return

LEMMA ReadTestSleepInv ==
  ASSUME IInv, SleepInv, NEW p \in Proc, ReadTest(p) PROVE SleepInv'
  <1>1. /\ lock = p /\ pc[p] = "rtest" /\ killed' = killed
        /\ nread' = nread /\ nwrite' = nwrite /\ open' = open
    BY DEF ReadTest, SleepInv, InsideAlone, pipe
  <1>2. \A q \in Proc : q # p => pc[q] \notin {"wloop", "wsleep", "rtest", "rcopy", "rsleep"}
    BY <1>1 DEF SleepInv, InsideAlone
  <1>3. pc \in [Proc -> Pcs]
    BY DEF IInv, TypeOK
  <1>4. Full' = Full /\ MustWait' = MustWait
    BY <1>1 DEF Full, MustWait, Empty
  <1> QED BY <1>1, <1>2, <1>3, <1>4
          DEF ReadTest, Return, SleepInv, InsideAlone, Tested, ReadersWait, WritersWait, NoKill

(* A reader that returns wakes the writers; sleep gives up the lock. *)
LEMMA ReadEndSleepInv ==
  ASSUME IInv, SleepInv, NEW p \in Proc, ReadEnd(p) \/ Sleep(p) PROVE SleepInv'
  <1>1. /\ lock = p /\ pc[p] \in {"rcopy", "rsleep", "wsleep"} /\ killed' = killed
        /\ nread' = nread /\ nwrite' = nwrite /\ open' = open
    BY DEF ReadEnd, Sleep, SleepInv, InsideAlone, pipe
  <1>2. \A q \in Proc : q # p => pc[q] \notin {"wloop", "wsleep", "rtest", "rcopy", "rsleep"}
    BY <1>1 DEF SleepInv, InsideAlone
  <1>3. pc \in [Proc -> Pcs]
    BY DEF IInv, TypeOK
  <1>4. Full' = Full /\ MustWait' = MustWait
    BY <1>1 DEF Full, MustWait, Empty
  <1>5. CASE ReadEnd(p)
    BY <1>1, <1>2, <1>3, <1>4, <1>5
       DEF ReadEnd, Return, WakeWriters, SleepInv, InsideAlone, Tested, ReadersWait, WritersWait, NoKill
  <1>6. CASE Sleep(p)
    BY <1>1, <1>2, <1>3, <1>4, <1>6
       DEF Sleep, SleepInv, InsideAlone, Tested, ReadersWait, WritersWait, NoKill
  <1> QED BY <1>5, <1>6

(* The last close of an end wakes those who sleep at the other. *)
LEMMA PipecloseSleepInv ==
  ASSUME IInv, SleepInv, NEW p \in Proc, pipeclose(p) PROVE SleepInv'
  <1>1. /\ lock = Nobody /\ killed' = killed /\ lock' = lock
        /\ nread' = nread /\ nwrite' = nwrite
        /\ pc \in [Proc -> Pcs] /\ open \in [End -> BOOLEAN]
    BY DEF pipeclose, IInv, TypeOK
  <1>2. \A q \in Proc : pc[q] \notin {"wloop", "wsleep", "rtest", "rcopy", "rsleep"}
    BY <1>1, PipeAssumption DEF SleepInv, InsideAlone
  <1>3. CASE pc[p] = "close_w"
    <2>1. /\ open' = [open EXCEPT !["w"] = FALSE]
          /\ pc' = [WakeReaders EXCEPT ![p] = "user"]
      BY <1>3 DEF pipeclose, WakeAtEof
    <2>2. open'["r"] = open["r"] /\ Full' = Full
      BY <1>1, <2>1 DEF Full, End
    <2> QED BY <1>1, <1>2, <2>1, <2>2
            DEF WakeReaders, SleepInv, InsideAlone, Tested, ReadersWait, WritersWait, NoKill
  <1>4. CASE pc[p] = "close_r"
    <2>1. /\ open' = [open EXCEPT !["r"] = FALSE]
          /\ pc' = [WakeWriters EXCEPT ![p] = "user"]
      BY <1>4 DEF pipeclose
    <2>2. open'["w"] = open["w"] /\ MustWait' = MustWait
      BY <1>1, <2>1 DEF MustWait, Empty, End
    <2> QED BY <1>1, <1>2, <2>1, <2>2
            DEF WakeWriters, SleepInv, InsideAlone, Tested, ReadersWait, WritersWait, NoKill
  <1> QED BY <1>3, <1>4 DEF pipeclose

LEMMA DescriptorSleepInv ==
  ASSUME IInv, SleepInv, NEW p \in Proc,
         \/ \E q \in Proc : Fork(p, q)
         \/ \E e \in End : CloseFile(p, e)
         \/ ExitLast(p)
  PROVE  SleepInv'
  <1> DEFINE InPipe == {"wloop", "wsleep", "wasleep", "rtest", "rcopy", "rsleep", "rasleep"}
  <1>1. \A q \in Proc : pc[q] \in InPipe \/ pc'[q] \in InPipe => pc'[q] = pc[q]
    BY DEF Fork, CloseFile, ExitLast, IInv, TypeOK
  <1>2. lock' = lock /\ killed' = killed /\ pipe' = pipe
    BY DEF Fork, CloseFile, ExitLast
  <1>3. Full' = Full /\ MustWait' = MustWait /\ open' = open
    BY <1>2 DEF Full, MustWait, Empty, pipe
  <1> QED BY <1>1, <1>2, <1>3
          DEF SleepInv, InsideAlone, Tested, ReadersWait, WritersWait, NoKill

LEMMA KillSleepInv == ASSUME IInv, SleepInv, NEW p \in Proc, Kill(p) PROVE SleepInv'
  <1>1. ~NoKill'
    BY DEF Kill, NoKill, IInv, TypeOK
  <1>2. InsideAlone' /\ Tested'
    BY DEF Kill, IInv, TypeOK, SleepInv, InsideAlone, Tested, MustWait, Empty, Full, pipe
  <1> QED BY <1>1, <1>2 DEF SleepInv

LEMMA NextSleepInv == IInv /\ SleepInv /\ [Next]_vars => SleepInv'
  <1> SUFFICES ASSUME IInv, SleepInv, [Next]_vars PROVE SleepInv'
    OBVIOUS
  <1>1. CASE UNCHANGED vars
    BY <1>1 DEF vars, pipe, SleepInv, InsideAlone, Tested, ReadersWait, WritersWait, NoKill,
                MustWait, Empty, Full
  <1>2. CASE Next
    <2>1. PICK p \in Proc : \/ InCall(p)
                            \/ \E n \in 1 .. MaxChunk : WriteBegin(p, n) \/ ReadBegin(p, n)
                            \/ \E q \in Proc : Fork(p, q)
                            \/ \E e \in End : CloseFile(p, e)
                            \/ ExitLast(p)
                            \/ Kill(p)
      BY <1>2 DEF Next
    <2>2. CASE InCall(p)
      BY <2>2, AcquireSleepInv, WriteByteSleepInv, WriteFullSleepInv, ReadTestSleepInv,
         ReadByteSleepInv, ReadEndSleepInv, PipecloseSleepInv DEF InCall
    <2> QED BY <2>1, <2>2, BeginSleepInv, DescriptorSleepInv, KillSleepInv
  <1> QED BY <1>1, <1>2

(* No lost wakeup: as long as nobody is killed, a reader sleeps only while *)
(* there is nothing to read and somebody may write, a writer only while    *)
(* the pipe is full and may be read, or the lock's holder is going to wake *)
(* him (piperead, pipewrite, pipeclose).                                   *)
THEOREM SleepersHaveReason == Spec => []SleepersWait
  <1>1. SleepInv => SleepersWait
    BY DEF SleepInv, NoKill, ReadersWait, WritersWait, SleepersWait
  <1>2. Spec => []SleepInv
    BY InitSleepInv, NextSleepInv, Invariance, PTL DEF Spec
  <1> QED BY <1>1, <1>2, PTL

---------------------------------------------------------------------------
(* The counters: what wraps around is a multiple of the pipe's size.       *)
LEMMA Counters ==
  ASSUME TypeOK
  PROVE  /\ \A a, b \in Counter :
              (b - a) % Width = IF b >= a THEN b - a ELSE b - a + Width
         /\ \A c \in Counter : Inc(c) = IF c + 1 = Width THEN 0 ELSE c + 1
         /\ (nread + PIPESIZE) % Width = IF nread + PIPESIZE < Width THEN nread + PIPESIZE
                                         ELSE nread + PIPESIZE - Width
         /\ \A x \in Int : (x - Width) % PIPESIZE = x % PIPESIZE
  <1>1. Width \in Nat \ {0} /\ PIPESIZE \in Nat \ {0} /\ PIPESIZE < Width
    BY PipeAssumption
  <1>2. nread \in 0 .. Width - 1 /\ nwrite \in 0 .. Width - 1
    BY DEF TypeOK, Counter
  <1>3. \A r \in 0 .. Width - 1 :
          r % Width = r /\ (r + Width) % Width = r /\ (r - Width) % Width = r
    <2> SUFFICES ASSUME NEW r \in 0 .. Width - 1
                 PROVE  r % Width = r /\ (r + Width) % Width = r /\ (r - Width) % Width = r
      OBVIOUS
    <2>1. /\ Width * 0 + r = r /\ Width * 1 + r = r + Width
          /\ Width * (-1) + r = r - Width
      BY <1>1
    <2>2. /\ (Width * 0 + r) % Width = r /\ (Width * 1 + r) % Width = r
          /\ (Width * (-1) + r) % Width = r
      BY <1>1, Remainder
    <2> QED BY <2>1, <2>2
  <1>4. ASSUME NEW a \in Counter, NEW b \in Counter
        PROVE  (b - a) % Width = IF b >= a THEN b - a ELSE b - a + Width
    <2>1. CASE b >= a
      <3>1. b - a \in 0 .. Width - 1
        BY <1>1, <2>1 DEF Counter
      <3> QED BY <1>3, <2>1, <3>1
    <2>2. CASE ~ (b >= a)
      <3>1. PICK r \in 0 .. Width - 1 : r = b - a + Width
        BY <1>1, <2>2 DEF Counter
      <3>2. b - a = r - Width
        BY <1>1, <3>1 DEF Counter
      <3> QED BY <1>3, <2>2, <3>1, <3>2
    <2> QED BY <2>1, <2>2
  <1>5. ASSUME NEW c \in Counter
        PROVE  Inc(c) = IF c + 1 = Width THEN 0 ELSE c + 1
    <2>1. CASE c + 1 = Width
      <3>1. 0 \in 0 .. Width - 1 /\ c + 1 = 0 + Width
        BY <1>1, <2>1
      <3> QED BY <1>3, <2>1, <3>1 DEF Inc
    <2>2. CASE c + 1 # Width
      <3>1. c + 1 \in 0 .. Width - 1
        BY <1>1, <2>2 DEF Counter
      <3> QED BY <1>3, <2>2, <3>1 DEF Inc
    <2> QED BY <2>1, <2>2
  <1>6. (nread + PIPESIZE) % Width = IF nread + PIPESIZE < Width THEN nread + PIPESIZE
                                     ELSE nread + PIPESIZE - Width
    <2>1. CASE nread + PIPESIZE < Width
      <3>1. nread + PIPESIZE \in 0 .. Width - 1
        BY <1>1, <1>2, <2>1
      <3> QED BY <1>3, <2>1, <3>1
    <2>2. CASE ~ (nread + PIPESIZE < Width)
      <3>1. PICK r \in 0 .. Width - 1 : r = nread + PIPESIZE - Width
        BY <1>1, <1>2, <2>2
      <3>2. nread + PIPESIZE = r + Width
        BY <1>1, <1>2, <3>1
      <3> QED BY <1>3, <2>2, <3>1, <3>2
    <2> QED BY <2>1, <2>2
  <1>7. ASSUME NEW x \in Int PROVE (x - Width) % PIPESIZE = x % PIPESIZE
    <2>1. Width \in Int /\ Width % PIPESIZE = 0
      BY <1>1, PipeAssumption
    <2>2. PICK m \in Int : Width = PIPESIZE * m
      BY <1>1, <2>1, Divide
    <2>3. PIPESIZE * (0 - m) = 0 - Width /\ 0 - m \in Int
      BY <1>1, <2>2, Product, Distribute
    <2>4. x - Width = x + PIPESIZE * (0 - m)
      BY <2>1, <2>3
    <2> QED BY <1>1, <2>3, <2>4, RemainderMoves
  <1> QED BY <1>4, <1>5, <1>6, <1>7

(* No more bytes are in the pipe than it has slots.                        *)
Fits == Size <= PIPESIZE

(* Slot of the i-th byte.                                                  *)
Place(i) == (nread + i - 1) % PIPESIZE

LEMMA Places ==
  ASSUME TypeOK
  PROVE  \A i \in Int : Place(i) \in 0 .. PIPESIZE - 1
  <1> SUFFICES ASSUME NEW i \in Int PROVE Place(i) \in 0 .. PIPESIZE - 1
    OBVIOUS
  <1>1. PIPESIZE \in Nat \ {0} /\ nread + i - 1 \in Int
    BY PipeAssumption DEF TypeOK, Counter
  <1> QED BY <1>1, Divide DEF Place

(* A writer puts a byte behind the others.                                 *)
LEMMA Puts ==
  ASSUME TypeOK, TypeOK', Fits, ~freed, NEW p \in Proc, WriteByte(p)
  PROVE  /\ Fits' /\ Len(Contents) < PIPESIZE
         /\ Contents' = Append(Contents, sent + 1)
  <1>1. /\ Width \in Nat \ {0} /\ PIPESIZE \in Nat \ {0} /\ PIPESIZE < Width
        /\ nread \in 0 .. Width - 1 /\ nwrite \in 0 .. Width - 1
        /\ nread' = nread /\ nwrite' = Inc(nwrite) /\ nwrite' \in Nat
        /\ freed' = freed
    BY PipeAssumption DEF TypeOK, Counter, WriteByte
  <1>2. Size' = IF nwrite' >= nread THEN nwrite' - nread ELSE nwrite' - nread + Width
    <2>1. nwrite' \in Counter /\ nread' \in Counter
      BY DEF TypeOK
    <2> QED BY <1>1, <2>1, Counters DEF Size
  <1>0. Size = IF nwrite >= nread THEN nwrite - nread ELSE nwrite - nread + Width
    <2>1. nwrite \in Counter /\ nread \in Counter
      BY DEF TypeOK
    <2> QED BY <2>1, Counters DEF Size
  <1>3. PICK n \in Nat : n = Size
    <2>1. Size \in Nat
      BY <1>0, <1>1
    <2> QED BY <2>1, Zenon
  <1>4. n < PIPESIZE
    <2>1. n <= PIPESIZE /\ ~Full
      BY <1>3 DEF Fits, WriteByte
    <2>2. nwrite # IF nread + PIPESIZE < Width THEN nread + PIPESIZE
                   ELSE nread + PIPESIZE - Width
      BY <2>1, Counters DEF Full
    <2> QED BY <1>0, <1>1, <1>3, <2>1, <2>2
  <1>5. Size' = n + 1
    <2>1. nwrite' = IF nwrite + 1 = Width THEN 0 ELSE nwrite + 1
      BY <1>1, Counters DEF Counter
    <2> QED BY <1>0, <1>1, <1>2, <1>3, <1>4, <2>1
  <1>6. nwrite % PIPESIZE = Place(n + 1)
    <2>1. CASE nwrite >= nread
      <3>1. nread + (n + 1) - 1 = nwrite
        BY <1>0, <1>1, <1>3, <2>1
      <3> QED BY <3>1 DEF Place
    <2>2. CASE ~ (nwrite >= nread)
      <3>1. nread + (n + 1) - 1 = nwrite + Width /\ nwrite + Width - Width = nwrite
            /\ nwrite + Width \in Int
        BY <1>0, <1>1, <1>3, <2>2
      <3>2. PICK x \in Int : x = nwrite + Width
        BY <3>1
      <3>3. (x - Width) % PIPESIZE = x % PIPESIZE
        BY Counters
      <3>4. x - Width = nwrite /\ Place(n + 1) = x % PIPESIZE
        BY <1>1, <3>1, <3>2 DEF Place
      <3> QED BY <3>3, <3>4, Zenon
    <2> QED BY <2>1, <2>2
  <1>7. \A i \in 1 .. n : Place(i) # Place(n + 1)
    <2> SUFFICES ASSUME NEW i \in 1 .. n PROVE Place(i) # Place(n + 1)
      OBVIOUS
    <2>1. /\ nread + i - 1 \in Int /\ nread + (n + 1) - 1 \in Int
          /\ nread + i - 1 < nread + (n + 1) - 1
          /\ nread + (n + 1) - 1 < nread + i - 1 + PIPESIZE
      BY <1>1, <1>4
    <2> QED BY <1>1, <2>1, RemaindersDiffer DEF Place
  <1>8. \A i \in Int : Place(i)' = Place(i)
    BY <1>1 DEF Place
  <1>9. /\ data \in [0 .. PIPESIZE - 1 -> 0 .. sent]
        /\ data' = [data EXCEPT ![Place(n + 1)] = sent + 1]
    BY <1>6 DEF TypeOK, WriteByte
  <1>10. Contents = [i \in 1 .. n |-> data[Place(i)]]
    BY <1>3 DEF Contents, Place
  <1>11. Contents' = [i \in 1 .. n + 1 |-> data'[Place(i)]]
    <2>1. Contents' = [i \in 1 .. n + 1 |-> data'[Place(i)']]
      BY <1>1, <1>5 DEF Contents, Place
    <2> QED BY <2>1, <1>8
  <1>12. Contents \in Seq(Nat) /\ Len(Contents) = n
    <2>1. data \in [0 .. PIPESIZE - 1 -> 0 .. sent] /\ sent \in Nat
      BY DEF TypeOK
    <2>2. \A i \in 1 .. n : Place(i) \in 0 .. PIPESIZE - 1
      BY <1>3, Places
    <2>3. \A i \in 1 .. n : data[Place(i)] \in Nat
      BY <2>1, <2>2
    <2> QED BY <1>10, <2>3
  <1>13. /\ \A i \in 1 .. n : data'[Place(i)] = data[Place(i)]
         /\ data'[Place(n + 1)] = sent + 1
    <2>1. n + 1 \in Int /\ \A i \in 1 .. n + 1 : Place(i) \in 0 .. PIPESIZE - 1
      BY <1>3, Places
    <2> HIDE DEF Place
    <2> QED BY <1>3, <1>7, <1>9, <2>1
  <1>14. Contents' = Append(Contents, sent + 1)
    BY <1>10, <1>11, <1>12, <1>13
  <1> QED BY <1>4, <1>5, <1>1, <1>12, <1>14 DEF Fits

(* A reader takes the first.                                               *)
LEMMA Gets ==
  ASSUME TypeOK, TypeOK', Fits, ~freed, NEW p \in Proc, ReadByte(p)
  PROVE  /\ Fits' /\ Contents # << >> /\ Contents' = Tail(Contents)
         /\ Head(Contents) = data[nread % PIPESIZE]
  <1>1. /\ Width \in Nat \ {0} /\ PIPESIZE \in Nat \ {0} /\ PIPESIZE < Width
        /\ nread \in 0 .. Width - 1 /\ nwrite \in 0 .. Width - 1
        /\ nwrite' = nwrite /\ nread' = Inc(nread) /\ nread' \in Nat
        /\ freed' = freed /\ data' = data /\ nwrite # nread
    BY PipeAssumption DEF TypeOK, Counter, ReadByte, Empty
  <1>2. Size' = IF nwrite >= nread' THEN nwrite - nread' ELSE nwrite - nread' + Width
    <2>1. nwrite' \in Counter /\ nread' \in Counter
      BY DEF TypeOK
    <2> QED BY <1>1, <2>1, Counters DEF Size
  <1>0. Size = IF nwrite >= nread THEN nwrite - nread ELSE nwrite - nread + Width
    <2>1. nwrite \in Counter /\ nread \in Counter
      BY DEF TypeOK
    <2> QED BY <2>1, Counters DEF Size
  <1>3. PICK n \in Nat : n = Size
    <2>1. Size \in Nat
      BY <1>0, <1>1
    <2> QED BY <2>1, Zenon
  <1>4. n > 0 /\ n <= PIPESIZE
    BY <1>0, <1>1, <1>3 DEF Fits
  <1>5. nread' = IF nread + 1 = Width THEN 0 ELSE nread + 1
    BY <1>1, Counters DEF Counter
  <1>6. Size' = n - 1
    BY <1>0, <1>1, <1>2, <1>3, <1>4, <1>5
  <1>7. \A i \in Int : Place(i)' = Place(i + 1)
    <2> SUFFICES ASSUME NEW i \in Int
                 PROVE  (nread' + i - 1) % PIPESIZE = (nread + (i + 1) - 1) % PIPESIZE
      BY DEF Place
    <2>1. CASE nread + 1 = Width
      <3>1. nread' + i - 1 = (nread + (i + 1) - 1) - Width /\ nread + (i + 1) - 1 \in Int
        BY <1>1, <1>5, <2>1
      <3> QED BY <3>1, Counters
    <2>2. CASE nread + 1 # Width
      <3>1. nread' + i - 1 = nread + (i + 1) - 1
        BY <1>1, <1>5, <2>2
      <3> QED BY <3>1
    <2> QED BY <2>1, <2>2
  <1>8. Contents = [i \in 1 .. n |-> data[Place(i)]]
    BY <1>3 DEF Contents, Place
  <1>9. Contents' = [i \in 1 .. n - 1 |-> data[Place(i + 1)]]
    <2>1. Contents' = [i \in 1 .. n - 1 |-> data'[Place(i)']]
      BY <1>1, <1>6 DEF Contents, Place
    <2>2. \A i \in 1 .. n - 1 : data'[Place(i)'] = data[Place(i + 1)]
      BY <1>1, <1>3, <1>7
    <2> QED BY <2>1, <2>2, Zenon
  <1>10. Contents \in Seq(Nat) /\ Len(Contents) = n
    <2>1. data \in [0 .. PIPESIZE - 1 -> 0 .. sent] /\ sent \in Nat
      BY DEF TypeOK
    <2>2. \A i \in 1 .. n : Place(i) \in 0 .. PIPESIZE - 1
      BY <1>3, Places
    <2>3. \A i \in 1 .. n : data[Place(i)] \in Nat
      BY <2>1, <2>2
    <2> QED BY <1>8, <2>3
  <1>11. Contents' = Tail(Contents)
    BY <1>4, <1>8, <1>9, <1>10
  <1>12. Head(Contents) = data[nread % PIPESIZE]
    <2>1. Head(Contents) = data[Place(1)]
      BY <1>4, <1>8, <1>10
    <2>2. Place(1) = nread % PIPESIZE
      BY <1>1 DEF Place
    <2> QED BY <2>1, <2>2
  <1> QED BY <1>4, <1>6, <1>1, <1>10, <1>11, <1>12 DEF Fits

(* Nothing else changes what is in the pipe, until it is freed.            *)
LEMMA Keeps ==
  ASSUME UNCHANGED << data, nread, nwrite >>, freed' = freed, Fits
  PROVE  Fits' /\ Contents' = Contents
  BY DEF Fits, Contents, Size

(* The abstract queue, of any bytes: the width of the stream is only a     *)
(* bound of the runs.                                                      *)
Stream == INSTANCE BoundedFifo WITH Item <- Nat, Capacity <- PIPESIZE,
                                    queue <- Contents, out <- got,
                                    closed <- freed

LEMMA StreamStep ==
  ASSUME IInv, TypeOK', Fits, [Next]_vars
  PROVE  Fits' /\ [Stream!Next]_(Stream!fifo)
  <1>1. TypeOK /\ FreedMeansUnused
    BY FreedFollows DEF IInv
  <1>2. CASE UNCHANGED vars
    BY <1>2, Keeps DEF vars, pipe, Stream!fifo
  <1>3. CASE Next
    <2>1. PICK p \in Proc :
            \/ InCall(p)
            \/ \E n \in 1 .. MaxChunk : WriteBegin(p, n) \/ ReadBegin(p, n)
            \/ \E q \in Proc : Fork(p, q)
            \/ \E e \in End : CloseFile(p, e)
            \/ ExitLast(p)
            \/ Kill(p)
      BY <1>3 DEF Next
    <2>2. CASE WriteByte(p)
      <3>1. ~freed
        BY <1>1, <2>2 DEF FreedMeansUnused, WriteByte
      <3>2. sent + 1 \in Nat
        BY <1>1 DEF TypeOK
      <3>3. UNCHANGED << got, freed >>
        BY <2>2 DEF WriteByte
      <3>4. Fits' /\ Len(Contents) < PIPESIZE /\ Contents' = Append(Contents, sent + 1)
        BY <1>1, <2>2, <3>1, Puts
      <3> QED BY <3>1, <3>2, <3>3, <3>4 DEF Stream!Next, Stream!Put
    <2>3. CASE ReadByte(p)
      <3>1. ~freed
        BY <1>1, <2>3 DEF FreedMeansUnused, ReadByte
      <3>2. got' = Append(got, data[nread % PIPESIZE]) /\ freed' = freed
        BY <2>3 DEF ReadByte
      <3>3. /\ Fits' /\ Contents # << >> /\ Contents' = Tail(Contents)
            /\ Head(Contents) = data[nread % PIPESIZE]
        BY <1>1, <2>3, <3>1, Gets
      <3> QED BY <3>1, <3>2, <3>3 DEF Stream!Next, Stream!Get
    <2>4. CASE pipeclose(p)
      <3>1. UNCHANGED << data, nread, nwrite >>
        BY <2>4 DEF pipeclose
      <3>2. CASE freed'
        <4>1. Contents' = << >>
          BY <3>2 DEF Contents
        <4>2. Fits'
          BY <3>1 DEF Fits, Size
        <4>3. ~freed
          BY <1>1, <2>4 DEF FreedMeansUnused, pipeclose
        <4>4. got' = got
          BY <2>4 DEF pipeclose
        <4> QED BY <3>2, <4>1, <4>2, <4>3, <4>4 DEF Stream!Next, Stream!Close
      <3>3. CASE ~freed'
        <4>1. freed => \A d \in End : ~open[d]
          BY DEF IInv, FreedIsClosed
        <4>2. ~freed
          BY <2>4, <3>3, <4>1 DEF pipeclose
        <4>3. freed' = freed
          BY <1>1, <3>3, <4>2 DEF TypeOK
        <4>4. Fits' /\ Contents' = Contents
          BY <3>1, <4>3, Keeps
        <4>5. got' = got
          BY <2>4 DEF pipeclose
        <4> QED BY <4>3, <4>4, <4>5 DEF Stream!fifo
      <3> QED BY <3>2, <3>3
    <2>5. CASE \/ Acquire(p) \/ WriteFull(p) \/ WriteEnd(p)
               \/ ReadTest(p) \/ ReadEnd(p) \/ Sleep(p)
               \/ \E n \in 1 .. MaxChunk : WriteBegin(p, n) \/ ReadBegin(p, n)
               \/ \E q \in Proc : Fork(p, q)
               \/ \E e \in End : CloseFile(p, e)
               \/ ExitLast(p)
               \/ Kill(p)
      <3>1. UNCHANGED << pipe, got >>
        BY <2>5 DEF Acquire, WriteFull, WriteEnd, ReadTest, ReadEnd, Sleep,
                    WriteBegin, ReadBegin, Fork, CloseFile, ExitLast, Kill
      <3> QED BY <3>1, Keeps DEF pipe, Stream!fifo
    <2> QED BY <2>1, <2>2, <2>3, <2>4, <2>5 DEF InCall
  <1> QED BY <1>2, <1>3

(* pipewrite and piperead over a ring whose counters wrap around, by any   *)
(* number of processes that are killed and close their ends at any time,   *)
(* implement a queue of at most PIPESIZE bytes, until its memory is freed. *)
THEOREM StreamImplemented == Spec => Stream!Spec
  <1>1. Init => Fits /\ Stream!Init
    <2> SUFFICES ASSUME Init PROVE Fits /\ Contents = << >>
      BY DEF Stream!Init, Init
    <2>1. TypeOK
      BY InitIInv DEF IInv
    <2>2. Size = 0
      BY <2>1, Counters DEF Init, Size, TypeOK
    <2>3. PIPESIZE \in Nat
      BY PipeAssumption
    <2> QED BY <2>2, <2>3 DEF Fits, Contents, Init
  <1>2. IInv /\ IInv' /\ Fits /\ [Next]_vars => Fits' /\ [Stream!Next]_(Stream!fifo)
    BY StreamStep DEF IInv
  <1> QED BY <1>1, <1>2, Invariance, PTL DEF Spec, Stream!Spec

(***************************************************************************)
(* Shm.  Who is inside shmgetat is alone with its key; the table names     *)
(* every page that is not free once; and every process that has a key has  *)
(* its pages mapped, in the order in which it asked for its keys.          *)
(***************************************************************************)
UsersOf(k) == {p \in Process : k \in shm_va[p]}
Inside(p, l, k) == call[p] = << l, k >>
IndexOf(k) == 0 .. PagesOf(k) - 1

\* The table's pages of key k are taken: somebody uses it, or is about to.
Kept(k) == ref_count[k] > 0 \/ \E p \in Process : Inside(p, "map", k)

ShmTyped ==
  /\ ref_count \in [Key -> Int] /\ num_pages \in [Key -> Int]
  /\ page_ptr \in [Key -> [Index -> Page \cup {NoPage}]]
  /\ free \in SUBSET Page
  /\ life \in [Process -> {"unborn", "alive", "zombie"}]
  /\ mapped \in [Process -> Seq(Page)] /\ shm_va \in [Process -> SUBSET Key]
  /\ call \in [Process -> {NoCall} \cup ({"alloc", "map"} \X Key)]

\* Without a race one process at most is inside shmgetat with a key, and it
\* is not one that has the key.
AloneInside ==
  /\ \A p, q \in Process : call[p] # NoCall /\ call[q] # NoCall /\ call[p][2] = call[q][2] => p = q
  /\ \A p \in Process : call[p] # NoCall => life[p] = "alive" /\ call[p][2] \notin shm_va[p]
  /\ \A p \in Process, k \in Key : Inside(p, "alloc", k) => ref_count[k] = 0
  /\ \A p \in Process : life[p] = "unborn" => shm_va[p] = {} /\ mapped[p] = << >>

\* A page is named once in the table; a key in use names pages that are not
\* free, and every page that is not free is named by such a key.
TableRight ==
  /\ \A k, j \in Key, h, i \in Index :
       page_ptr[k][h] = page_ptr[j][i] /\ page_ptr[k][h] # NoPage => k = j /\ h = i
  /\ \A k \in Key :
       /\ \A i \in Index : i >= PagesOf(k) => page_ptr[k][i] = NoPage
       /\ num_pages[k] \in {0, PagesOf(k)}
       /\ ref_count[k] > 0 => num_pages[k] = PagesOf(k)
       /\ Kept(k) => \A i \in IndexOf(k) : page_ptr[k][i] \in Page \ free
  /\ \A pg \in Page \ free : \E k \in Key : Kept(k) /\ \E i \in IndexOf(k) : page_ptr[k][i] = pg

\* A process has the pages of its keys, each once, and of a key the first
\* page before the others.
MappedRight(p) ==
  /\ \A x \in DOMAIN mapped[p] : \E k \in shm_va[p] : \E i \in IndexOf(k) :
       mapped[p][x] = page_ptr[k][i]
  /\ \A k \in shm_va[p] : \A i \in IndexOf(k) : \E x \in DOMAIN mapped[p] :
       mapped[p][x] = page_ptr[k][i]
  /\ \A x, y \in DOMAIN mapped[p] : mapped[p][x] = mapped[p][y] => x = y
  /\ \A k \in shm_va[p] : \A i \in IndexOf(k) : \A x, y \in DOMAIN mapped[p] :
       mapped[p][x] = page_ptr[k][0] /\ mapped[p][y] = page_ptr[k][i] => x <= y

ShmInner ==
  /\ ShmTyped /\ RefCountIsUsers /\ AloneInside /\ TableRight
  /\ \A p \in Process : MappedRight(p)

ShmInv == raced = {} => ShmInner

---------------------------------------------------------------------------
LEMMA KeyFacts ==
  ASSUME NEW k \in Key
  PROVE  /\ k \in Nat /\ PagesOf(k) \in 1 .. MaxPages
         /\ IndexOf(k) \subseteq Index /\ 0 \in IndexOf(k)
  <1>1. MaxPages \in Nat \ {0} /\ k \in Nat
    BY ShmAssumption
  <1>2. PagesOf(k) \in 1 .. MaxPages
    BY <1>1 DEF PagesOf
  <1> QED BY <1>1, <1>2 DEF IndexOf, Index

(* The number of a key's users, and what one more or one less makes of it. *)
LEMMA UsersFinite ==
  ASSUME NEW S \in SUBSET Process
  PROVE  /\ IsFiniteSet(S) /\ Cardinality(S) \in Nat
         /\ Cardinality(S) = 0 <=> S = {}
  <1>1. IsFiniteSet(S)
    BY ShmAssumption, FS_Subset
  <1> QED BY <1>1, FS_CardinalityType, FS_EmptySet

LEMMA OneJoins ==
  ASSUME NEW S \in SUBSET Process, NEW q \in Process, q \notin S
  PROVE  Cardinality(S \cup {q}) = Cardinality(S) + 1
  BY UsersFinite, FS_AddElement

LEMMA OneLeaves ==
  ASSUME NEW S \in SUBSET Process, NEW q \in S
  PROVE  Cardinality(S \ {q}) = Cardinality(S) - 1
  BY UsersFinite, FS_RemoveElement

LEMMA OnlyUser ==
  ASSUME NEW S \in SUBSET Process, NEW q \in S
  PROVE  Cardinality(S) > 0 /\ (Cardinality(S) = 1 <=> S = {q})
  <1>1. Cardinality(S) \in Nat /\ Cardinality(S) # 0
    BY UsersFinite
  <1>2. Cardinality(S \ {q}) = Cardinality(S) - 1
    BY OneLeaves
  <1>3. Cardinality(S \ {q}) = 0 <=> S \ {q} = {}
    BY UsersFinite
  <1> QED BY <1>1, <1>2, <1>3

(***************************************************************************)
(* deallocshm's loop.  First, that it is defined; then, what is done when  *)
(* the last j pages have been looked at.                                   *)
(***************************************************************************)
Goes(m, s, n, b) == m = [k \in 0 .. n |-> IF k = 0 THEN b
                                           ELSE checkifshared(m[k - 1], s[n + 1 - k])]

LEMMA LoopExists ==
  ASSUME NEW s, NEW n \in Nat, NEW b
  PROVE  \E m : Goes(m, s, n, b)
  <1> DEFINE Upto(m, j) == m = [k \in 0 .. j |-> IF k = 0 THEN b
                                      ELSE checkifshared(m[k - 1], s[n + 1 - k])]
             S == {j \in Nat : \E m : Upto(m, j)}
  <1>1. 0 \in S
    <2>1. Upto([k \in 0 .. 0 |-> b], 0)
      OBVIOUS
    <2> HIDE DEF Upto
    <2> QED BY <2>1
  <1>2. ASSUME NEW j \in S PROVE j + 1 \in S
    <2>1. PICK f : Upto(f, j)
      OBVIOUS
    <2> DEFINE g == [k \in 0 .. j + 1 |-> IF k = j + 1 THEN checkifshared(f[j], s[n + 1 - k])
                                          ELSE f[k]]
    <2>2. j \in Nat
      OBVIOUS
    <2>3. ASSUME NEW k \in 0 .. j + 1
          PROVE  g[k] = IF k = 0 THEN b ELSE checkifshared(g[k - 1], s[n + 1 - k])
      <3>1. CASE k = j + 1
        <4>1. g[k] = checkifshared(f[j], s[n + 1 - k]) /\ k # 0 /\ k - 1 = j
          BY <2>2, <3>1
        <4>2. g[j] = f[j]
          BY <2>2
        <4> HIDE DEF g
        <4> QED BY <4>1, <4>2
      <3>2. CASE k # j + 1
        <4>1. k \in 0 .. j /\ g[k] = f[k]
          BY <2>2, <3>2
        <4>2. f[k] = IF k = 0 THEN b ELSE checkifshared(f[k - 1], s[n + 1 - k])
          BY <2>1, <4>1
        <4>3. k # 0 => k - 1 \in 0 .. j + 1 /\ k - 1 # j + 1
          BY <2>2, <4>1
        <4>4. k # 0 => g[k - 1] = f[k - 1]
          BY <4>3
        <4> HIDE DEF g
        <4> QED BY <4>1, <4>2, <4>4
      <3> QED BY <3>1, <3>2
    <2>4. g = [k \in 0 .. j + 1 |-> g[k]]
      OBVIOUS
    <2> HIDE DEF g
    <2>5. Upto(g, j + 1)
      BY <2>3, <2>4
    <2> HIDE DEF Upto
    <2> QED BY <2>2, <2>5
  <1>3. S = Nat
    <2> HIDE DEF S
    <2>1. S \in SUBSET Nat
      BY DEF S
    <2> QED BY <1>1, <1>2, <2>1, SetInduction
  <1>4. \E m : Upto(m, n)
    BY <1>3
  <1> QED BY <1>4 DEF Goes

LEMMA Loop ==
  ASSUME NEW p \in Process
  PROVE  LET n == Len(mapped[p]) IN
         n \in Nat => \E m : /\ deallocshm(p) = m[n] /\ m[0] = << ref_count, free >>
                /\ \A k \in 1 .. n : m[k] = checkifshared(m[k - 1], mapped[p][n + 1 - k])
  <1> DEFINE n == Len(mapped[p])
             T(m) == Goes(m, mapped[p], n, << ref_count, free >>)
             c == CHOOSE m : T(m)
  <1> SUFFICES ASSUME n \in Nat
               PROVE \E m : /\ deallocshm(p) = m[n] /\ m[0] = << ref_count, free >>
                /\ \A k \in 1 .. n : m[k] = checkifshared(m[k - 1], mapped[p][n + 1 - k])
    OBVIOUS
  <1>1. \E m : T(m)
    <2> HIDE DEF n
    <2> QED BY LoopExists
  <1>2. T(c)
    <2> HIDE DEF T
    <2> QED BY <1>1
  <1>3. deallocshm(p) = c[n]
    BY DEF deallocshm, Goes
  <1> HIDE DEF c, n
  <1>4. c[0] = << ref_count, free >>
    BY <1>2 DEF Goes
  <1>5. ASSUME NEW k \in 1 .. n
        PROVE  c[k] = checkifshared(c[k - 1], mapped[p][n + 1 - k])
    BY <1>2 DEF Goes
  <1> QED BY <1>3, <1>4, <1>5 DEF n

(* What the loop gives: each key of p has one user less, and the pages of  *)
(* those of which p was the only one are free.                             *)
Past(p, j, pg) == \E x \in DOMAIN mapped[p] : x > Len(mapped[p]) - j /\ mapped[p][x] = pg

Left(p, j, k) == IF k \in shm_va[p] /\ Past(p, j, page_ptr[k][0])
                 THEN ref_count[k] - 1 ELSE ref_count[k]

Given(p, j, pg) == \E k \in shm_va[p] : /\ ref_count[k] = 1
                     /\ \E i \in IndexOf(k) : pg = page_ptr[k][i]
                     /\ Past(p, j, pg)

Done(p, j, m) ==
  /\ m[1] = [k \in Key |-> Left(p, j, k)]
  /\ m[2] = {pg \in Page : pg \in free \/ Given(p, j, pg)}

LEMMA UserCounts ==
  ASSUME ShmInner, NEW p \in Process, NEW k \in shm_va[p]
  PROVE  /\ k \in Key /\ ref_count[k] > 0 /\ Kept(k) /\ num_pages[k] = PagesOf(k)
         /\ ref_count[k] = 1 <=> UsersOf(k) = {p}
         /\ ref_count[k] \in Int
  <1>1. k \in Key
    BY DEF ShmInner, ShmTyped
  <1>2. p \in UsersOf(k) /\ UsersOf(k) \in SUBSET Process
    BY DEF UsersOf
  <1>3. ref_count[k] = Cardinality(UsersOf(k))
    BY <1>1 DEF ShmInner, RefCountIsUsers, UsersOf
  <1>4. ref_count[k] > 0 /\ (ref_count[k] = 1 <=> UsersOf(k) = {p})
    BY <1>2, <1>3, OnlyUser
  <1> QED BY <1>1, <1>4 DEF ShmInner, ShmTyped, TableRight, Kept

LEMMA PageOf ==
  ASSUME ShmInner, NEW p \in Process, NEW k \in shm_va[p], NEW i \in IndexOf(k)
  PROVE  /\ page_ptr[k][i] \in Page /\ page_ptr[k][i] \notin free
         /\ Naming(page_ptr[k][i]) = {<< k, i >>}
  <1>1. k \in Key /\ Kept(k) /\ num_pages[k] = PagesOf(k)
    BY UserCounts
  <1>2. i \in Index /\ i < PagesOf(k) /\ i \in Int
    BY <1>1, KeyFacts DEF IndexOf, Index
  <1>3. page_ptr[k][i] \in Page \ free
    BY <1>1 DEF ShmInner, TableRight
  <1>4. page_ptr[k][i] # NoPage
    BY <1>3, ShmAssumption
  <1>5. \A ki \in Key \X Index : page_ptr[ki[1]][ki[2]] = page_ptr[k][i] => ki = << k, i >>
    <2>1. ASSUME NEW h \in Key, NEW l \in Index, page_ptr[h][l] = page_ptr[k][i]
          PROVE  h = k /\ l = i
      BY <1>1, <1>2, <1>4, <2>1 DEF ShmInner, TableRight
    <2>2. \A ki \in Key \X Index : ki = << ki[1], ki[2] >> /\ ki[1] \in Key /\ ki[2] \in Index
      OBVIOUS
    <2> QED BY <2>1, <2>2
  <1>6. << k, i >> \in Key \X Index
    BY <1>1, <1>2
  <1> QED BY <1>1, <1>2, <1>3, <1>5, <1>6 DEF Naming

LEMMA NamedOnce ==
  ASSUME ShmInner, NEW k \in Key, NEW j \in Key, NEW h \in Index, NEW i \in Index,
         page_ptr[k][h] = page_ptr[j][i], page_ptr[k][h] # NoPage
  PROVE  k = j /\ h = i
  BY DEF ShmInner, TableRight

LEMMA FirstOfOne == ASSUME NEW k \in Int, NEW i \in Int PROVE FirstOf({<< k, i >>}) = << k, i >>
  BY DEF FirstOf

LEMMA LoopStep ==
  ASSUME ShmInner, NEW p \in Process, NEW j \in 1 .. Len(mapped[p]), NEW m,
         m = << m[1], m[2] >>, Done(p, j - 1, m)
  PROVE  LET d == checkifshared(m, mapped[p][Len(mapped[p]) + 1 - j]) IN
         d = << d[1], d[2] >> /\ Done(p, j, d)
  <1> DEFINE x == Len(mapped[p]) + 1 - j
             pg == mapped[p][x]
             d == checkifshared(m, pg)
  <1>1. mapped[p] \in Seq(Page) /\ MappedRight(p)
    BY DEF ShmInner, ShmTyped
  <1>2. x \in DOMAIN mapped[p] /\ x \in Int /\ Len(mapped[p]) \in Nat
    BY <1>1
  <1>3. PICK k, i : k \in shm_va[p] /\ i \in IndexOf(k) /\ pg = page_ptr[k][i]
    BY <1>1, <1>2 DEF MappedRight
  <1>4. k \in Key /\ k \in Int /\ i \in Index /\ i \in Int /\ 0 \in IndexOf(k)
    BY <1>3, UserCounts, KeyFacts DEF IndexOf
  <1>5. Naming(pg) = {<< k, i >>} /\ pg \in Page /\ FirstOf(Naming(pg)) = << k, i >>
    BY <1>3, <1>4, PageOf, FirstOfOne
  <1>6. \A y \in DOMAIN mapped[p] : y > Len(mapped[p]) - j <=>
          y = x \/ y > Len(mapped[p]) - (j - 1)
    BY <1>1, <1>2
  <1>7. \A g : Past(p, j, g) <=> Past(p, j - 1, g) \/ g = pg
    BY <1>2, <1>6 DEF Past
  <1>8. ~Past(p, j - 1, page_ptr[k][0])
    <2>1. ASSUME NEW y \in DOMAIN mapped[p], mapped[p][y] = page_ptr[k][0]
          PROVE  y <= x
      BY <1>1, <1>2, <1>3, <2>1 DEF MappedRight
    <2>2. x <= Len(mapped[p]) - (j - 1)
      BY <1>2
    <2>3. \A y \in DOMAIN mapped[p] : y \in Int
      BY <1>1
    <2> HIDE DEF x
    <2> QED BY <1>2, <2>1, <2>2, <2>3 DEF Past
  <1>9. m[1][k] = ref_count[k]
    BY <1>4, <1>8 DEF Done, Left
  <1> HIDE DEF x, pg
  <1>10. d = << IF i = 0 THEN [m[1] EXCEPT ![k] = @ - 1] ELSE m[1],
               IF ref_count[k] = 1 THEN m[2] \cup {pg} ELSE m[2] >>
    <2>1. Naming(pg) # {}
      BY <1>5
    <2>2. d = LET ki == FirstOf(Naming(pg)) IN
              << IF ki[2] = 0 THEN [m[1] EXCEPT ![ki[1]] = @ - 1] ELSE m[1],
                 IF LastUser(m[1][ki[1]]) THEN m[2] \cup {pg} ELSE m[2] >>
      BY <2>1 DEF checkifshared
    <2>3. FirstOf(Naming(pg)) = << k, i >>
      BY <1>5
    <2> HIDE DEF d
    <2>4. d = << IF << k, i >>[2] = 0 THEN [m[1] EXCEPT ![<< k, i >>[1]] = @ - 1] ELSE m[1],
                 IF LastUser(m[1][<< k, i >>[1]]) THEN m[2] \cup {pg} ELSE m[2] >>
      BY <2>2, <2>3
    <2> QED BY <1>9, <2>4 DEF LastUser
  <1>11. d[1] = [h \in Key |-> Left(p, j, h)]
    <2>1. ASSUME NEW h \in Key PROVE d[1][h] = Left(p, j, h)
      <3>1. h \in shm_va[p] => (page_ptr[h][0] = pg <=> h = k /\ i = 0)
        <4>1. ASSUME h \in shm_va[p], page_ptr[h][0] = pg PROVE h = k /\ i = 0
          <5>1. Naming(pg) = {<< h, 0 >>}
            BY <4>1, KeyFacts, PageOf
          <5>2. << h, 0 >> = << k, i >>
            BY <1>5, <5>1
          <5> QED BY <5>2
        <4> QED BY <1>3, <4>1
      <3>2. m[1][h] = Left(p, j - 1, h) /\ m[1] = [g \in Key |-> m[1][g]]
        BY DEF Done
      <3>3. CASE h = k /\ i = 0
        <4>1. d[1][h] = m[1][h] - 1
          BY <1>10, <3>2, <3>3
        <4>2. Left(p, j, h) = ref_count[h] - 1
          BY <1>3, <1>7, <3>1, <3>3 DEF Left
        <4> QED BY <1>9, <3>3, <4>1, <4>2
      <3>4. CASE ~ (h = k /\ i = 0)
        <4>1. d[1][h] = m[1][h]
          BY <1>10, <3>2, <3>4
        <4>2. Left(p, j, h) = Left(p, j - 1, h)
          BY <1>7, <3>1, <3>4 DEF Left
        <4> QED BY <3>2, <4>1, <4>2
      <3> QED BY <3>3, <3>4
    <2>2. d[1] = [h \in Key |-> d[1][h]]
      BY <1>10 DEF Done
    <2> HIDE DEF d
    <2> QED BY <2>1, <2>2
  <1>12. d[2] = {g \in Page : g \in free \/ Given(p, j, g)}
    <2>1. ASSUME NEW g PROVE Given(p, j, g) <=> Given(p, j - 1, g) \/ (g = pg /\ ref_count[k] = 1)
      <3>1. ASSUME NEW h \in shm_va[p], NEW l \in IndexOf(h), pg = page_ptr[h][l] PROVE h = k
        <4>1. Naming(pg) = {<< h, l >>}
          BY <3>1, PageOf
        <4>2. << h, l >> = << k, i >>
          BY <1>5, <4>1
        <4> QED BY <4>2
      <3>2. Given(p, j - 1, g) => Given(p, j, g)
        BY <1>7 DEF Given
      <3>3. ASSUME g = pg, ref_count[k] = 1 PROVE Given(p, j, g)
        BY <1>3, <1>7, <3>3 DEF Given
      <3>4. ASSUME Given(p, j, g), ~Given(p, j - 1, g) PROVE g = pg /\ ref_count[k] = 1
        <4>1. PICK h \in shm_va[p] : /\ ref_count[h] = 1
                                     /\ \E l \in IndexOf(h) : g = page_ptr[h][l]
                                     /\ Past(p, j, g)
          BY <3>4 DEF Given
        <4>2. ~Past(p, j - 1, g)
          BY <3>4, <4>1 DEF Given
        <4>3. g = pg
          BY <1>7, <4>1, <4>2
        <4> QED BY <3>1, <4>1, <4>3
      <3> QED BY <3>2, <3>3, <3>4
    <2>2. d[2] = IF ref_count[k] = 1 THEN m[2] \cup {pg} ELSE m[2]
      BY <1>10
    <2>3. m[2] = {g \in Page : g \in free \/ Given(p, j - 1, g)}
      BY DEF Done
    <2> HIDE DEF d
    <2> QED BY <1>5, <2>1, <2>2, <2>3
  <1>13. d = << d[1], d[2] >>
    BY <1>10
  <1> QED BY <1>11, <1>12, <1>13 DEF Done, x, pg

LEMMA Dealloc ==
  ASSUME ShmInner, NEW p \in Process
  PROVE  /\ deallocshm(p)[1] = [k \in Key |-> IF k \in shm_va[p] THEN ref_count[k] - 1
                                                                ELSE ref_count[k]]
         /\ deallocshm(p)[2] = {pg \in Page : \/ pg \in free
               \/ \E k \in shm_va[p] : /\ UsersOf(k) = {p}
                                       /\ \E i \in IndexOf(k) : pg = page_ptr[k][i]}
  <1> DEFINE n == Len(mapped[p])
  <1>1. mapped[p] \in Seq(Page) /\ MappedRight(p) /\ n \in Nat
    BY DEF ShmInner, ShmTyped
  <1>2. PICK m : /\ deallocshm(p) = m[n] /\ m[0] = << ref_count, free >>
                 /\ \A k \in 1 .. n : m[k] = checkifshared(m[k - 1], mapped[p][n + 1 - k])
    BY <1>1, Loop
  <1> DEFINE S == {j \in Nat : j <= n => m[j] = << m[j][1], m[j][2] >> /\ Done(p, j, m[j])}
  <1>3. 0 \in S
    <2>1. \A x \in DOMAIN mapped[p] : ~ (x > n - 0)
      BY <1>1
    <2>2. \A pg : ~Past(p, 0, pg)
      BY <2>1 DEF Past
    <2>3. ref_count = [k \in Key |-> Left(p, 0, k)]
      BY <2>2 DEF Left, ShmInner, ShmTyped
    <2>4. free = {pg \in Page : pg \in free \/ Given(p, 0, pg)}
      BY <2>2 DEF Given, ShmInner, ShmTyped
    <2>5. m[0][1] = ref_count /\ m[0][2] = free
      BY <1>2
    <2>6. Done(p, 0, m[0])
      BY <2>3, <2>4, <2>5 DEF Done
    <2> QED BY <1>2, <2>6
  <1>4. ASSUME NEW j \in S PROVE j + 1 \in S
    <2>1. SUFFICES ASSUME j + 1 <= n
                   PROVE  m[j + 1] = << m[j + 1][1], m[j + 1][2] >> /\ Done(p, j + 1, m[j + 1])
      OBVIOUS
    <2>2. j \in Nat /\ (j + 1) - 1 = j /\ j + 1 \in 1 .. n /\ j <= n
      BY <1>1, <2>1
    <2>3. m[j] = << m[j][1], m[j][2] >> /\ Done(p, (j + 1) - 1, m[j])
      BY <2>2
    <2>4. m[j + 1] = checkifshared(m[j], mapped[p][n + 1 - (j + 1)])
      BY <1>2, <2>2
    <2> HIDE DEF S
    <2> QED BY <2>2, <2>3, <2>4, LoopStep
  <1>5. S = Nat
    <2> HIDE DEF S
    <2>1. S \in SUBSET Nat
      BY DEF S
    <2> QED BY <1>3, <1>4, <2>1, SetInduction
  <1>6. Done(p, n, m[n])
    BY <1>1, <1>5
  <1>7. \A x \in DOMAIN mapped[p] : x > n - n
    BY <1>1
  <1>8. \A k \in shm_va[p] : \A i \in IndexOf(k) : Past(p, n, page_ptr[k][i])
    BY <1>1, <1>7 DEF MappedRight, Past
  <1>9. ASSUME NEW k \in Key
        PROVE  Left(p, n, k) = IF k \in shm_va[p] THEN ref_count[k] - 1 ELSE ref_count[k]
    BY <1>8, KeyFacts DEF Left
  <1>10. ASSUME NEW pg
         PROVE  Given(p, n, pg) <=> \E k \in shm_va[p] : /\ UsersOf(k) = {p}
                                       /\ \E i \in IndexOf(k) : pg = page_ptr[k][i]
    BY <1>8, UserCounts DEF Given
  <1> HIDE DEF n, S
  <1>11. deallocshm(p)[1] = [k \in Key |-> Left(p, n, k)]
    BY <1>2, <1>6 DEF Done
  <1>12. deallocshm(p)[2] = {pg \in Page : pg \in free \/ Given(p, n, pg)}
    BY <1>2, <1>6 DEF Done
  <1>13. [k \in Key |-> Left(p, n, k)]
           = [k \in Key |-> IF k \in shm_va[p] THEN ref_count[k] - 1 ELSE ref_count[k]]
    BY <1>9
  <1>14. {pg \in Page : pg \in free \/ Given(p, n, pg)}
           = {pg \in Page : \/ pg \in free
               \/ \E k \in shm_va[p] : /\ UsersOf(k) = {p}
                                       /\ \E i \in IndexOf(k) : pg = page_ptr[k][i]}
    BY <1>10
  <1> QED BY <1>11, <1>12, <1>13, <1>14

(***************************************************************************)
(* The actions.                                                            *)
(***************************************************************************)
LEMMA ShmInitInner == ASSUME ShmInit PROVE ShmInner
  <1>1. ShmTyped
    <2>1. << >> \in Seq(Page)
      OBVIOUS
    <2> QED BY <2>1, ShmAssumption DEF ShmInit, ShmTyped
  <1>2. RefCountIsUsers
    <2>1. \A k \in Key : {p \in Process : k \in shm_va[p]} = {}
      BY DEF ShmInit
    <2> QED BY <2>1, FS_EmptySet DEF ShmInit, RefCountIsUsers
  <1>3. AloneInside
    BY DEF ShmInit, AloneInside, Inside, NoCall
  <1>4. TableRight
    <2>1. \A k \in Key : ~Kept(k)
      BY DEF ShmInit, Kept, Inside, NoCall
    <2>2. \A k \in Key : ref_count[k] = 0 /\ num_pages[k] = 0
      BY DEF ShmInit
    <2>3. \A k \in Key, i \in Index : page_ptr[k][i] = NoPage
      BY DEF ShmInit
    <2>4. Page \ free = {}
      BY DEF ShmInit
    <2> QED BY <2>1, <2>2, <2>3, <2>4 DEF TableRight
  <1>5. \A p \in Process : MappedRight(p)
    BY DEF ShmInit, MappedRight
  <1> QED BY <1>1, <1>2, <1>3, <1>4, <1>5 DEF ShmInner

LEMMA ShmTestKeeps ==
  ASSUME ShmInner, NEW p \in Process, NEW k \in Key, ShmTest(p, k), raced' = {}
  PROVE  ShmInner'
  <1>1. /\ life[p] = "alive" /\ call[p] = NoCall /\ k \notin shm_va[p] /\ k \notin InUse
        /\ call' = [call EXCEPT ![p] = << IF ref_count[k] = 0 THEN "alloc" ELSE "map", k >>]
        /\ UNCHANGED << ref_count, num_pages, page_ptr, free, life, mapped, shm_va >>
    BY DEF ShmTest, Ready, Races, Unused
  <1>2. call \in [Process -> {NoCall} \cup ({"alloc", "map"} \X Key)]
    BY DEF ShmInner, ShmTyped
  <1>3. PICK w \in {"alloc", "map"} : /\ call' = [call EXCEPT ![p] = << w, k >>]
                                      /\ w = "alloc" <=> ref_count[k] = 0
    BY <1>1
  <1>4. call'[p] = << w, k >> /\ \A q \in Process : q # p => call'[q] = call[q]
    BY <1>2, <1>3
  <1>5. ShmTyped'
    <2>1. << w, k >> \in {"alloc", "map"} \X Key
      OBVIOUS
    <2>2. call' \in [Process -> {NoCall} \cup ({"alloc", "map"} \X Key)]
      BY <1>2, <1>3, <2>1
    <2> QED BY <1>1, <2>2 DEF ShmInner, ShmTyped
  <1>6. RefCountIsUsers'
    BY <1>1 DEF ShmInner, RefCountIsUsers
  <1>7. AloneInside'
    <2>1. \A q \in Process : call[q] # NoCall => call[q][2] # k
      BY <1>1 DEF InUse
    <2>2. << w, k >>[2] = k
      OBVIOUS
    <2>3. \A q, r \in Process : call'[q] # NoCall /\ call'[r] # NoCall /\ call'[q][2] = call'[r][2] => q = r
      BY <1>4, <2>1, <2>2 DEF ShmInner, AloneInside
    <2>4. \A q \in Process : call'[q] # NoCall => life[q] = "alive" /\ call'[q][2] \notin shm_va[q]
      BY <1>1, <1>4, <2>2 DEF ShmInner, AloneInside
    <2>5. \A q \in Process, j \in Key : call'[q] = << "alloc", j >> => ref_count[j] = 0
      BY <1>3, <1>4 DEF ShmInner, AloneInside, Inside
    <2> QED BY <1>1, <2>3, <2>4, <2>5 DEF ShmInner, AloneInside, Inside
  <1>8. ASSUME NEW j \in Key PROVE Kept(j)' <=> Kept(j)
    <2>1. ASSUME NEW q \in Process, call'[q] = << "map", j >> PROVE Kept(j)
      <3>1. CASE q = p
        <4>1. w = "map" /\ j = k
          BY <1>4, <2>1, <3>1
        <4>2. ref_count[k] # 0 /\ ref_count[k] = Cardinality(UsersOf(k)) /\ UsersOf(k) \in SUBSET Process
          BY <1>3, <4>1 DEF ShmInner, RefCountIsUsers, UsersOf
        <4>3. ref_count[k] > 0
          BY <4>2, UsersFinite
        <4> QED BY <4>1, <4>3 DEF Kept
      <3>2. CASE q # p
        BY <1>4, <2>1, <3>2 DEF Kept, Inside
      <3> QED BY <3>1, <3>2
    <2>2. ASSUME NEW q \in Process, Inside(q, "map", j) PROVE call'[q] = << "map", j >>
      BY <1>1, <1>4, <2>2 DEF Inside, NoCall
    <2> QED BY <1>1, <2>1, <2>2 DEF Kept, Inside
  <1>9. TableRight'
    BY <1>1, <1>8 DEF ShmInner, TableRight
  <1>10. \A q \in Process : MappedRight(q)'
    BY <1>1 DEF ShmInner, MappedRight
  <1> QED BY <1>5, <1>6, <1>7, <1>9, <1>10 DEF ShmInner

LEMMA ShmAllocKeeps ==
  ASSUME ShmInner, ~Reuse, NEW p \in Process, ShmAlloc(p), raced' = {}
  PROVE  ShmInner'
  <1>2. PICK k \in Key : call[p] = << "alloc", k >>
    <2>1. call[p] \in {"alloc", "map"} \X Key /\ call[p][1] = "alloc"
      BY DEF ShmAlloc, ShmInner, ShmTyped
    <2> QED BY <2>1
  <1>0. << "alloc", k >>[2] = k
    OBVIOUS
  <1>1. /\ call' = [call EXCEPT ![p] = << "map", k >>]
        /\ UNCHANGED << ref_count, num_pages, life, mapped, shm_va >>
    BY <1>0, <1>2 DEF ShmAlloc
  <1>3. PICK new \in [0 .. PagesOf(k) - 1 -> Allocatable(k)] :
          /\ \A i, j \in DOMAIN new : new[i] = new[j] => i = j
          /\ free' = free \ {new[i] : i \in DOMAIN new}
          /\ page_ptr' = [page_ptr EXCEPT ![k] =
                  [i \in Index |-> IF i \in DOMAIN new THEN new[i] ELSE @[i]]]
    <2> DEFINE h == call[p][2]
    <2>1. h = k
      BY <1>0, <1>2
    <2> DEFINE Takes(g) == \E new \in [0 .. PagesOf(g) - 1 -> Allocatable(g)] :
          /\ \A i, j \in DOMAIN new : new[i] = new[j] => i = j
          /\ free' = free \ {new[i] : i \in DOMAIN new}
          /\ page_ptr' = [page_ptr EXCEPT ![g] =
                  [i \in Index |-> IF i \in DOMAIN new THEN new[i] ELSE @[i]]]
    <2>2. Takes(h)
      BY DEF ShmAlloc
    <2>3. Takes(k)
      <3> HIDE DEF Takes, h
      <3> QED BY <2>1, <2>2
    <2> QED BY <2>3
  <1>4. DOMAIN new = IndexOf(k) /\ IndexOf(k) \subseteq Index
    BY <1>2, <1>3, KeyFacts DEF IndexOf
  <1>5. \A i \in IndexOf(k) : /\ new[i] \in free /\ new[i] \in Page /\ new[i] # NoPage
                              /\ \A j \in Key \ {k}, h \in Index : page_ptr[j][h] # new[i]
    <2>1. Allocatable(k) = free \ Named(k)
      BY DEF Allocatable
    <2>2. \A i \in IndexOf(k) : new[i] \in free \ Named(k)
      BY <1>3, <1>4, <2>1
    <2> QED BY <2>2, ShmAssumption DEF Named, ShmInner, ShmTyped
  <1>6. page_ptr \in [Key -> [Index -> Page \cup {NoPage}]]
    BY DEF ShmInner, ShmTyped
  <1>7. /\ \A i \in Index : page_ptr'[k][i] = IF i \in IndexOf(k) THEN new[i] ELSE page_ptr[k][i]
        /\ \A j \in Key : j # k => page_ptr'[j] = page_ptr[j]
    BY <1>2, <1>3, <1>4, <1>6
  <1>8. ref_count[k] = 0 /\ ~(\E q \in Process : Inside(q, "map", k)) /\ ~Kept(k)
    <2>1. ref_count[k] = 0
      BY <1>2 DEF ShmInner, AloneInside, Inside
    <2>2. ASSUME NEW q \in Process, Inside(q, "map", k) PROVE FALSE
      <3>1. call[q] # NoCall /\ call[p] # NoCall /\ call[q][2] = call[p][2] /\ call[q][1] # call[p][1]
        BY <1>2, <2>2 DEF Inside, NoCall
      <3> QED BY <3>1 DEF ShmInner, AloneInside
    <2> QED BY <2>1, <2>2 DEF Kept
  <1>9. \A q \in Process : k \notin shm_va[q]
    <2>1. ASSUME NEW q \in Process, k \in shm_va[q] PROVE FALSE
      BY <1>8, <2>1, UserCounts
    <2> QED BY <2>1
  <1>10. ShmTyped'
    <2>1. page_ptr' \in [Key -> [Index -> Page \cup {NoPage}]]
      <3>1. [i \in Index |-> IF i \in DOMAIN new THEN new[i] ELSE page_ptr[k][i]]
              \in [Index -> Page \cup {NoPage}]
        BY <1>2, <1>4, <1>5, <1>6
      <3> QED BY <1>2, <1>3, <1>6, <3>1
    <2>2. << "map", k >> \in {"alloc", "map"} \X Key
      BY <1>2
    <2>3. call' \in [Process -> {NoCall} \cup ({"alloc", "map"} \X Key)]
      BY <1>1, <2>2 DEF ShmInner, ShmTyped
    <2>4. free' \in SUBSET Page
      BY <1>3 DEF ShmInner, ShmTyped
    <2> QED BY <1>1, <2>1, <2>3, <2>4 DEF ShmInner, ShmTyped
  <1>11. RefCountIsUsers'
    BY <1>1 DEF ShmInner, RefCountIsUsers
  <1>12. call'[p] = << "map", k >> /\ \A q \in Process : q # p => call'[q] = call[q]
    BY <1>1 DEF ShmInner, ShmTyped
  <1>13. AloneInside'
    <2>1. << "map", k >>[2] = k /\ << "alloc", k >>[2] = k /\ << "map", k >> # NoCall
          /\ << "alloc", k >> # NoCall
      BY DEF NoCall
    <2>2. \A q \in Process : call'[q][2] = call[q][2] /\ (call'[q] = NoCall <=> call[q] = NoCall)
      BY <1>2, <1>12, <2>1
    <2>3. \A q, r \in Process : call'[q] # NoCall /\ call'[r] # NoCall /\ call'[q][2] = call'[r][2] => q = r
      BY <2>2 DEF ShmInner, AloneInside
    <2>4. \A q \in Process : call'[q] # NoCall => life[q] = "alive" /\ call'[q][2] \notin shm_va[q]
      BY <2>2 DEF ShmInner, AloneInside
    <2>5. \A q \in Process, j \in Key : call'[q] = << "alloc", j >> => ref_count[j] = 0
      BY <1>12 DEF ShmInner, AloneInside, Inside
    <2> QED BY <1>1, <2>3, <2>4, <2>5 DEF ShmInner, AloneInside, Inside
  <1>14. /\ \A j \in Key : j # k => (Kept(j)' <=> Kept(j))
         /\ Kept(k)'
    <2>1. \A q \in Process, j \in Key : j # k => (call'[q] = << "map", j >> <=> call[q] = << "map", j >>)
      BY <1>2, <1>12
    <2>2. \E q \in Process : call'[q] = << "map", k >>
      BY <1>12
    <2>3. ASSUME NEW j \in Key, j # k PROVE Kept(j)' <=> Kept(j)
      BY <1>1, <2>1, <2>3 DEF Kept, Inside
    <2>4. Kept(k)'
      BY <2>2 DEF Kept, Inside
    <2> QED BY <2>3, <2>4
  <1>15. TableRight'
    <2>1. ASSUME NEW l \in Key, NEW j \in Key, NEW h \in Index, NEW i \in Index,
                 page_ptr'[l][h] = page_ptr'[j][i], page_ptr'[l][h] # NoPage
          PROVE  l = j /\ h = i
      <3>1. CASE l # k /\ j # k
        BY <1>7, <2>1, <3>1 DEF ShmInner, TableRight
      <3>2. \A g \in Index : g \notin IndexOf(k) => page_ptr'[k][g] = NoPage
        <4>1. \A g \in Index : g \notin IndexOf(k) => g >= PagesOf(k)
          BY <1>2, KeyFacts DEF Index, IndexOf
        <4> QED BY <1>2, <1>7, <4>1 DEF ShmInner, TableRight
      <3>3. CASE l = k /\ j = k
        <4>1. h \in IndexOf(k) /\ i \in IndexOf(k)
          BY <2>1, <3>2, <3>3
        <4>2. page_ptr'[l][h] = new[h] /\ page_ptr'[j][i] = new[i]
          BY <1>7, <3>3, <4>1
        <4>3. new[h] = new[i] /\ h \in DOMAIN new /\ i \in DOMAIN new
          BY <1>4, <2>1, <4>1, <4>2
        <4>4. h = i
          BY <1>3, <4>3
        <4> QED BY <3>3, <4>4
      <3>4. CASE l = k /\ j # k
        <4>1. h \in IndexOf(k) /\ page_ptr'[l][h] = new[h] /\ page_ptr'[j][i] = page_ptr[j][i]
          BY <1>7, <2>1, <3>2, <3>4
        <4> QED BY <1>5, <2>1, <3>4, <4>1
      <3>5. CASE l # k /\ j = k
        <4>1. i \in IndexOf(k) /\ page_ptr'[j][i] = new[i] /\ page_ptr'[l][h] = page_ptr[l][h]
          BY <1>7, <2>1, <3>2, <3>5
        <4> QED BY <1>5, <2>1, <3>5, <4>1
      <3> QED BY <3>1, <3>3, <3>4, <3>5
    <2>2. ASSUME NEW j \in Key
          PROVE  /\ \A i \in Index : i >= PagesOf(j) => page_ptr'[j][i] = NoPage
                 /\ num_pages'[j] \in {0, PagesOf(j)}
                 /\ ref_count'[j] > 0 => num_pages'[j] = PagesOf(j)
                 /\ Kept(j)' => \A i \in IndexOf(j) : page_ptr'[j][i] \in Page \ free'
      <3>1. num_pages'[j] \in {0, PagesOf(j)} /\ (ref_count'[j] > 0 => num_pages'[j] = PagesOf(j))
        BY <1>1 DEF ShmInner, TableRight
      <3>2. \A i \in Index : i >= PagesOf(j) => page_ptr'[j][i] = NoPage
        <4>1. \A i \in Index : i >= PagesOf(j) => i \notin IndexOf(j)
          BY KeyFacts DEF IndexOf, Index
        <4> QED BY <1>7, <4>1 DEF ShmInner, TableRight
      <3>3. CASE j = k
        <4>1. \A i \in IndexOf(j) : page_ptr'[j][i] \in Page \ free'
          BY <1>3, <1>4, <1>5, <1>7, <3>3
        <4> QED BY <3>1, <3>2, <4>1
      <3>4. CASE j # k
        <4>1. Kept(j)' => \A i \in IndexOf(j) : page_ptr'[j][i] \in Page \ free
          BY <1>7, <1>14, <3>4 DEF ShmInner, TableRight
        <4>2. free' \subseteq free
          BY <1>3
        <4> QED BY <3>1, <3>2, <4>1, <4>2
      <3> QED BY <3>3, <3>4
    <2>3. ASSUME NEW pg \in Page \ free'
          PROVE  \E j \in Key : Kept(j)' /\ \E i \in IndexOf(j) : page_ptr'[j][i] = pg
      <3>1. CASE pg \in free
        <4>1. \E i \in IndexOf(k) : pg = new[i]
          BY <1>3, <1>4, <2>3, <3>1
        <4>2. \E i \in IndexOf(k) : page_ptr'[k][i] = pg
          BY <1>4, <1>7, <4>1
        <4> QED BY <1>14, <4>2
      <3>2. CASE pg \notin free
        <4>1. PICK j \in Key : Kept(j) /\ \E i \in IndexOf(j) : page_ptr[j][i] = pg
          BY <2>3, <3>2 DEF ShmInner, TableRight
        <4>2. j # k
          BY <1>8, <4>1
        <4> QED BY <1>7, <1>14, <4>1, <4>2
      <3> QED BY <3>1, <3>2
    <2> QED BY <2>1, <2>2, <2>3 DEF TableRight, IndexOf
  <1>16. \A q \in Process : MappedRight(q)'
    <2>1. ASSUME NEW q \in Process PROVE MappedRight(q)'
      <3>1. \A j \in shm_va[q] : page_ptr'[j] = page_ptr[j]
        BY <1>7, <1>9, UserCounts
      <3>2. mapped'[q] = mapped[q] /\ shm_va'[q] = shm_va[q]
        BY <1>1
      <3> QED BY <3>1, <3>2 DEF ShmInner, MappedRight, IndexOf
    <2> QED BY <2>1
  <1> QED BY <1>10, <1>11, <1>13, <1>15, <1>16 DEF ShmInner

LEMMA ShmMapKeeps ==
  ASSUME ShmInner, NEW p \in Process, ShmMap(p), raced' = {}
  PROVE  ShmInner'
  <1>1. PICK k \in Key : call[p] = << "map", k >>
    <2>1. call[p] \in {"alloc", "map"} \X Key /\ call[p][1] = "map"
      BY DEF ShmMap, ShmInner, ShmTyped
    <2> QED BY <2>1
  <1>2. << "map", k >>[2] = k
    OBVIOUS
  <1>3. /\ ref_count' = [ref_count EXCEPT ![k] = @ + 1]
        /\ num_pages' = [num_pages EXCEPT ![k] = PagesOf(k)]
        /\ mapped' = [mapped EXCEPT ![p] = @ \o PagesIn(k)]
        /\ shm_va' = [shm_va EXCEPT ![p] = @ \cup {k}]
        /\ call' = [call EXCEPT ![p] = NoCall]
        /\ UNCHANGED << page_ptr, free, life >>
    <2> DEFINE h == call[p][2]
    <2>1. h = k
      BY <1>1, <1>2
    <2>2. /\ ref_count' = [ref_count EXCEPT ![h] = @ + 1]
          /\ num_pages' = [num_pages EXCEPT ![h] = PagesOf(h)]
          /\ mapped' = [mapped EXCEPT ![p] = @ \o PagesIn(h)]
          /\ shm_va' = [shm_va EXCEPT ![p] = @ \cup {h}]
      BY DEF ShmMap
    <2>3. call' = [call EXCEPT ![p] = NoCall] /\ UNCHANGED << page_ptr, free, life >>
      BY DEF ShmMap
    <2> HIDE DEF h
    <2> QED BY <2>1, <2>2, <2>3
  <1>4. k \notin shm_va[p] /\ life[p] = "alive"
    <2>1. call[p] # NoCall /\ call[p][2] = k
      BY <1>1, <1>2 DEF NoCall
    <2> QED BY <2>1 DEF ShmInner, AloneInside
  <1>5. Kept(k)
    BY <1>1 DEF Kept, Inside
  <1>6. PagesOf(k) \in 1 .. MaxPages /\ MaxPages \in Nat /\ IndexOf(k) \subseteq Index
    BY KeyFacts, ShmAssumption
  <1>7. \A i \in IndexOf(k) : page_ptr[k][i] \in Page /\ page_ptr[k][i] \notin free
    BY <1>5 DEF ShmInner, TableRight
  <1> DEFINE old == mapped[p]
             add == PagesIn(k)
             n   == Len(mapped[p])
  <1>8. old \in Seq(Page) /\ n \in Nat /\ DOMAIN old = 1 .. n
    BY DEF ShmInner, ShmTyped
  <1>9. /\ add \in Seq(Page) /\ Len(add) = PagesOf(k)
        /\ \A x \in 1 .. PagesOf(k) : add[x] = page_ptr[k][x - 1] /\ x - 1 \in IndexOf(k)
    <2>1. \A x \in 1 .. PagesOf(k) : x - 1 \in IndexOf(k)
      BY <1>6 DEF IndexOf
    <2>2. add \in [1 .. PagesOf(k) -> Page]
      BY <1>7, <2>1 DEF PagesIn
    <2>3. \A x \in 1 .. PagesOf(k) : add[x] = page_ptr[k][x - 1]
      BY DEF PagesIn
    <2> HIDE DEF add
    <2>4. PagesOf(k) \in Nat
      BY <1>6
    <2> HIDE DEF n, old
    <2>5. add \in Seq(Page) /\ Len(add) = PagesOf(k)
      BY <2>2, <2>4
    <2> QED BY <2>1, <2>3, <2>5
  <1>10. /\ mapped'[p] = old \o add
         /\ \A q \in Process : q # p => mapped'[q] = mapped[q]
         /\ shm_va'[p] = shm_va[p] \cup {k}
         /\ \A q \in Process : q # p => shm_va'[q] = shm_va[q]
         /\ \A q \in Process : shm_va[q] \in SUBSET Key
    BY <1>3 DEF ShmInner, ShmTyped
  <1> HIDE DEF old, add, n
  <1>11. /\ old \o add \in Seq(Page) /\ DOMAIN (old \o add) = 1 .. n + PagesOf(k)
         /\ \A x \in 1 .. n : (old \o add)[x] = old[x]
         /\ \A x \in 1 .. PagesOf(k) : (old \o add)[n + x] = page_ptr[k][x - 1]
    <2>1. Len(old) = n
      BY DEF old, n
    <2> QED BY <1>6, <1>8, <1>9, <2>1
  <1>12. ShmTyped'
    <2>1. mapped' \in [Process -> Seq(Page)] /\ shm_va' \in [Process -> SUBSET Key]
      <3>1. mapped'[p] \in Seq(Page)
        BY <1>10, <1>11
      <3> QED BY <1>3, <1>10, <3>1 DEF ShmInner, ShmTyped
    <2>2. ref_count' \in [Key -> Int] /\ num_pages' \in [Key -> Int]
      BY <1>3, <1>6 DEF ShmInner, ShmTyped
    <2>3. call' \in [Process -> {NoCall} \cup ({"alloc", "map"} \X Key)]
      BY <1>3 DEF ShmInner, ShmTyped
    <2> QED BY <1>3, <2>1, <2>2, <2>3 DEF ShmInner, ShmTyped
  <1>13. RefCountIsUsers'
    <2>1. ASSUME NEW j \in Key
          PROVE  ref_count'[j] = Cardinality({q \in Process : j \in shm_va'[q]})
      <3>1. ref_count[j] = Cardinality(UsersOf(j)) /\ UsersOf(j) \in SUBSET Process
        BY DEF ShmInner, RefCountIsUsers, UsersOf
      <3>2. CASE j = k
        <4>1. p \notin UsersOf(k)
          BY <1>4 DEF UsersOf
        <4>2. {q \in Process : j \in shm_va'[q]} = UsersOf(j) \cup {p}
          BY <1>10, <3>2 DEF UsersOf
        <4>3. ref_count'[j] = ref_count[j] + 1
          BY <1>3, <3>2 DEF ShmInner, ShmTyped
        <4> QED BY <3>1, <3>2, <4>1, <4>2, <4>3, OneJoins
      <3>3. CASE j # k
        <4>1. {q \in Process : j \in shm_va'[q]} = UsersOf(j)
          BY <1>10, <3>3 DEF UsersOf
        <4>2. ref_count'[j] = ref_count[j]
          BY <1>3, <3>3 DEF ShmInner, ShmTyped
        <4> QED BY <3>1, <4>1, <4>2
      <3> QED BY <3>2, <3>3
    <2> QED BY <2>1 DEF RefCountIsUsers
  <1>14. call'[p] = NoCall /\ \A q \in Process : q # p => call'[q] = call[q]
    BY <1>3 DEF ShmInner, ShmTyped
  <1>15. \A q \in Process : q # p /\ call[q] # NoCall => call[q][2] # k
    <2>1. call[p] # NoCall /\ call[p][2] = k
      BY <1>1, <1>2 DEF NoCall
    <2> QED BY <2>1 DEF ShmInner, AloneInside
  <1>16. AloneInside'
    <2>1. \A q, r \in Process : call'[q] # NoCall /\ call'[r] # NoCall /\ call'[q][2] = call'[r][2] => q = r
      BY <1>14 DEF ShmInner, AloneInside
    <2>2. \A q \in Process : call'[q] # NoCall => life[q] = "alive" /\ call'[q][2] \notin shm_va'[q]
      BY <1>10, <1>14 DEF ShmInner, AloneInside
    <2>3. \A q \in Process, j \in Key : call'[q] = << "alloc", j >> => ref_count'[j] = 0
      <3>1. ASSUME NEW q \in Process, NEW j \in Key, call'[q] = << "alloc", j >>
            PROVE  ref_count'[j] = 0
        <4>0. << "alloc", j >> # NoCall
          BY DEF NoCall
        <4>1. q # p /\ call[q] = << "alloc", j >>
          BY <1>14, <3>1, <4>0
        <4>2. call[q] # NoCall /\ call[q][2] = j
          BY <4>1 DEF NoCall
        <4>3. j # k
          BY <1>15, <4>1, <4>2
        <4>4. ref_count'[j] = ref_count[j]
          BY <1>3, <4>3 DEF ShmInner, ShmTyped
        <4> QED BY <4>1, <4>4 DEF ShmInner, AloneInside, Inside
      <3> QED BY <3>1
    <2>4. \A q \in Process : life[q] = "unborn" => shm_va'[q] = {} /\ mapped'[q] = << >>
      BY <1>4, <1>10 DEF ShmInner, AloneInside
    <2> QED BY <1>3, <2>1, <2>2, <2>3, <2>4 DEF AloneInside, Inside
  <1>17. /\ \A j \in Key : j # k => ref_count'[j] = ref_count[j] /\ num_pages'[j] = num_pages[j]
         /\ num_pages'[k] = PagesOf(k) /\ ref_count'[k] > 0
    <2>1. ref_count[k] = Cardinality(UsersOf(k)) /\ UsersOf(k) \in SUBSET Process
      BY DEF ShmInner, RefCountIsUsers, UsersOf
    <2>2. ref_count[k] \in Nat
      BY <2>1, UsersFinite
    <2> QED BY <1>3, <2>2 DEF ShmInner, ShmTyped
  <1>18. \A j \in Key : Kept(j)' <=> Kept(j)
    <2>1. ASSUME NEW j \in Key, j # k PROVE Kept(j)' <=> Kept(j)
      <3>1. \A q \in Process : call'[q] = << "map", j >> <=> call[q] = << "map", j >>
        BY <1>1, <1>14, <2>1 DEF NoCall
      <3> QED BY <1>17, <2>1, <3>1 DEF Kept, Inside
    <2>2. Kept(k)'
      BY <1>17 DEF Kept
    <2> QED BY <1>5, <2>1, <2>2
  <1>19. TableRight'
    BY <1>3, <1>17, <1>18 DEF ShmInner, TableRight, IndexOf
  <1>20. ASSUME NEW q \in Process PROVE MappedRight(q)'
    <2>1. CASE q # p
      BY <1>3, <1>10, <2>1 DEF ShmInner, MappedRight, IndexOf
    <2>2. CASE q = p
      <3> DEFINE both == old \o add
      <3>1. mapped'[q] = both /\ shm_va'[q] = shm_va[p] \cup {k} /\ page_ptr' = page_ptr
        BY <1>3, <1>10, <2>2
      <3>2. /\ DOMAIN both = 1 .. n + PagesOf(k)
            /\ \A x \in 1 .. n : x \in DOMAIN both /\ both[x] = mapped[p][x] /\ x \in DOMAIN mapped[p]
            /\ \A x \in DOMAIN mapped[p] : x \in 1 .. n
            /\ \A x \in 1 .. PagesOf(k) : n + x \in DOMAIN both /\ both[n + x] = page_ptr[k][x - 1]
        <4>1. DOMAIN both = 1 .. n + PagesOf(k) /\ \A x \in 1 .. n : both[x] = mapped[p][x]
          BY <1>11 DEF old
        <4>2. \A x \in 1 .. PagesOf(k) : both[n + x] = page_ptr[k][x - 1]
          BY <1>11
        <4>3. DOMAIN mapped[p] = 1 .. n
          BY <1>8 DEF old
        <4> HIDE DEF both
        <4>4. \A x \in 1 .. n : x \in 1 .. n + PagesOf(k)
          BY <1>6, <1>8
        <4>5. \A x \in 1 .. PagesOf(k) : n + x \in 1 .. n + PagesOf(k)
          BY <1>6, <1>8
        <4> QED BY <4>1, <4>2, <4>3, <4>4, <4>5
      <3>3. \A x \in DOMAIN both : \/ x \in 1 .. n
                                   \/ x > n /\ x - n - 1 \in IndexOf(k) /\ both[x] = page_ptr[k][x - n - 1]
        <4>1. ASSUME NEW x \in DOMAIN both, x \notin 1 .. n
              PROVE  x > n /\ x - n - 1 \in IndexOf(k) /\ both[x] = page_ptr[k][x - n - 1]
          <5>1. x - n \in 1 .. PagesOf(k) /\ n + (x - n) = x /\ x > n /\ (x - n) - 1 = x - n - 1
            BY <1>6, <1>8, <3>2, <4>1
          <5>2. both[n + (x - n)] = page_ptr[k][(x - n) - 1]
            BY <3>2, <5>1
          <5>3. x - n - 1 \in IndexOf(k)
            BY <1>6, <5>1 DEF IndexOf
          <5> QED BY <5>1, <5>2, <5>3
        <4> QED BY <4>1
      <3>4. MappedRight(p)
        BY DEF ShmInner
      <3> HIDE DEF both
      <3>5. \A x \in 1 .. n : \E j \in shm_va[p] : \E i \in IndexOf(j) : both[x] = page_ptr[j][i]
        BY <3>2, <3>4 DEF MappedRight
      <3>6. \A x \in 1 .. n, i \in IndexOf(k) : both[x] # page_ptr[k][i]
        <4>1. ASSUME NEW x \in 1 .. n, NEW i \in IndexOf(k), both[x] = page_ptr[k][i] PROVE FALSE
          <5>1. PICK j \in shm_va[p] : \E l \in IndexOf(j) : both[x] = page_ptr[j][l]
            BY <3>5
          <5>2. PICK l \in IndexOf(j) : both[x] = page_ptr[j][l]
            BY <5>1
          <5>3. j \in Key /\ j # k /\ l \in Index /\ i \in Index /\ page_ptr[k][i] # NoPage
            BY <1>4, <1>6, <1>7, UserCounts, KeyFacts, ShmAssumption
          <5>4. page_ptr[k][i] = page_ptr[j][l]
            BY <4>1, <5>2
          <5>5. k = j
            BY <5>3, <5>4, NamedOnce
          <5> QED BY <5>3, <5>5
        <4> QED BY <4>1
      <3>7. \A x \in DOMAIN both : \E j \in shm_va[p] \cup {k} : \E i \in IndexOf(j) : both[x] = page_ptr[j][i]
        BY <3>3, <3>5
      <3>8. ASSUME NEW j \in shm_va[p] \cup {k}, NEW i \in IndexOf(j)
            PROVE  \E x \in DOMAIN both : both[x] = page_ptr[j][i]
        <4>1. CASE j = k
          <5>1. i + 1 \in 1 .. PagesOf(k) /\ (i + 1) - 1 = i
            BY <1>6, <4>1 DEF IndexOf
          <5> QED BY <3>2, <4>1, <5>1
        <4>2. CASE j # k
          <5>1. \E x \in DOMAIN mapped[p] : mapped[p][x] = page_ptr[j][i]
            BY <3>4, <4>2 DEF MappedRight
          <5> QED BY <3>2, <5>1
        <4> QED BY <4>1, <4>2
      <3>9. ASSUME NEW x \in DOMAIN both, NEW y \in DOMAIN both, both[x] = both[y] PROVE x = y
        <4>1. CASE x \in 1 .. n /\ y \in 1 .. n
          BY <3>2, <3>4, <3>9, <4>1 DEF MappedRight
        <4>2. CASE x \notin 1 .. n /\ y \notin 1 .. n
          <5>1. x - n - 1 \in IndexOf(k) /\ both[x] = page_ptr[k][x - n - 1]
                /\ y - n - 1 \in IndexOf(k) /\ both[y] = page_ptr[k][y - n - 1]
            BY <3>3, <4>2
          <5>2. page_ptr[k][x - n - 1] # NoPage
            BY <1>7, <5>1, ShmAssumption
          <5>3. x - n - 1 = y - n - 1
            <6>1. x - n - 1 \in Index /\ y - n - 1 \in Index
              BY <1>6, <5>1
            <6>2. page_ptr[k][x - n - 1] = page_ptr[k][y - n - 1]
              BY <3>9, <5>1
            <6> QED BY <5>2, <6>1, <6>2, NamedOnce
          <5>4. x \in Int /\ y \in Int
            BY <1>6, <1>8, <3>2
          <5> QED BY <1>8, <5>3, <5>4
        <4>3. CASE x \in 1 .. n /\ y \notin 1 .. n
          BY <3>3, <3>6, <3>9, <4>3
        <4>4. CASE x \notin 1 .. n /\ y \in 1 .. n
          BY <3>3, <3>6, <3>9, <4>4
        <4> QED BY <4>1, <4>2, <4>3, <4>4
      <3>10. ASSUME NEW j \in shm_va[p] \cup {k}, NEW i \in IndexOf(j),
                    NEW x \in DOMAIN both, NEW y \in DOMAIN both,
                    both[x] = page_ptr[j][0], both[y] = page_ptr[j][i]
             PROVE  x <= y
        <4>1. j \in Key /\ 0 \in IndexOf(j)
          BY <1>10, KeyFacts
        <4>2. CASE j = k
          <5>1. x \notin 1 .. n /\ y \notin 1 .. n
            BY <3>6, <3>10, <4>1, <4>2
          <5>2. both[n + 1] = page_ptr[k][0] /\ n + 1 \in DOMAIN both
            BY <1>6, <3>2
          <5>3. x = n + 1
            BY <3>9, <3>10, <4>2, <5>2
          <5>4. y > n /\ y \in Int
            BY <1>6, <1>8, <3>2, <3>3, <5>1
          <5> QED BY <1>8, <5>3, <5>4
        <4>3. CASE j # k
          <5>1. j \in shm_va[p]
            BY <4>3
          <5>2. \A z \in DOMAIN both : z \notin 1 .. n => \A l \in IndexOf(j) : both[z] # page_ptr[j][l]
            <6>1. ASSUME NEW z \in DOMAIN both, z \notin 1 .. n, NEW l \in IndexOf(j),
                         both[z] = page_ptr[j][l]
                  PROVE FALSE
              <7>1. z - n - 1 \in IndexOf(k) /\ both[z] = page_ptr[k][z - n - 1]
                BY <3>3, <6>1
              <7>2. page_ptr[k][z - n - 1] # NoPage /\ z - n - 1 \in Index /\ l \in Index
                BY <1>6, <1>7, <4>1, <7>1, KeyFacts, ShmAssumption
              <7>3. page_ptr[k][z - n - 1] = page_ptr[j][l]
                BY <6>1, <7>1
              <7> QED BY <4>1, <4>3, <7>2, <7>3, NamedOnce
            <6> QED BY <6>1
          <5>3. x \in 1 .. n /\ y \in 1 .. n
            BY <3>10, <4>1, <5>2
          <5>4. mapped[p][x] = page_ptr[j][0] /\ mapped[p][y] = page_ptr[j][i]
                /\ x \in DOMAIN mapped[p] /\ y \in DOMAIN mapped[p]
            BY <3>2, <3>10, <5>3
          <5> QED BY <3>4, <5>1, <5>4 DEF MappedRight
        <4> QED BY <4>2, <4>3
      <3> QED BY <3>1, <3>7, <3>8, <3>9, <3>10 DEF MappedRight, IndexOf
    <2> QED BY <2>1, <2>2
  <1> QED BY <1>12, <1>13, <1>16, <1>19, <1>20 DEF ShmInner

LEMMA forkKeeps ==
  ASSUME ShmInner, NEW p \in Process, NEW q \in Process, fork(p, q), raced' = {}
  PROVE  ShmInner'
  <1>1. /\ life[p] = "alive" /\ call[p] = NoCall /\ life[q] = "unborn"
        /\ life' = [life EXCEPT ![q] = "alive"]
        /\ mapped' = [mapped EXCEPT ![q] = mapped[p]]
        /\ shm_va' = [shm_va EXCEPT ![q] = shm_va[p]]
        /\ ref_count' = [k \in Key |-> IF k \in shm_va[p] THEN ref_count[k] + 1 ELSE ref_count[k]]
        /\ UNCHANGED << num_pages, page_ptr, free, call >>
    BY DEF fork, Ready, Counted
  <1>2. /\ mapped'[q] = mapped[p] /\ shm_va'[q] = shm_va[p] /\ life'[q] = "alive"
        /\ \A r \in Process : r # q => /\ mapped'[r] = mapped[r] /\ shm_va'[r] = shm_va[r]
                                       /\ life'[r] = life[r]
    BY <1>1 DEF ShmInner, ShmTyped
  <1>3. shm_va[q] = {} /\ call[q] = NoCall
    BY <1>1 DEF ShmInner, AloneInside
  <1>4. ShmTyped'
    BY <1>1 DEF ShmInner, ShmTyped
  <1>5. RefCountIsUsers'
    <2>1. ASSUME NEW j \in Key
          PROVE  ref_count'[j] = Cardinality({r \in Process : j \in shm_va'[r]})
      <3>1. ref_count[j] = Cardinality(UsersOf(j)) /\ UsersOf(j) \in SUBSET Process
        BY DEF ShmInner, RefCountIsUsers, UsersOf
      <3>2. CASE j \in shm_va[p]
        <4>1. q \notin UsersOf(j)
          BY <1>3 DEF UsersOf
        <4>2. {r \in Process : j \in shm_va'[r]} = UsersOf(j) \cup {q}
          BY <1>2, <3>2 DEF UsersOf
        <4>3. ref_count'[j] = ref_count[j] + 1
          BY <1>1, <3>2
        <4> QED BY <3>1, <4>1, <4>2, <4>3, OneJoins
      <3>3. CASE j \notin shm_va[p]
        <4>1. {r \in Process : j \in shm_va'[r]} = UsersOf(j)
          BY <1>2, <1>3, <3>3 DEF UsersOf
        <4>2. ref_count'[j] = ref_count[j]
          BY <1>1, <3>3
        <4> QED BY <3>1, <4>1, <4>2
      <3> QED BY <3>2, <3>3
    <2> QED BY <2>1 DEF RefCountIsUsers
  <1>6. \A j \in Key : /\ ref_count'[j] > 0 <=> ref_count[j] > 0
                       /\ ref_count[j] = 0 => ref_count'[j] = 0
    <2>1. ASSUME NEW j \in Key, j \in shm_va[p] PROVE ref_count[j] > 0 /\ ref_count'[j] > 0
      <3>1. ref_count[j] > 0 /\ ref_count[j] \in Int
        BY <2>1, UserCounts
      <3>2. ref_count'[j] = ref_count[j] + 1
        BY <1>1, <2>1
      <3> QED BY <3>1, <3>2
    <2>2. \A j \in Key : j \notin shm_va[p] => ref_count'[j] = ref_count[j]
      BY <1>1
    <2> QED BY <2>1, <2>2
  <1>7. \A j \in Key : Kept(j)' <=> Kept(j)
    BY <1>1, <1>6 DEF Kept, Inside
  <1>8. AloneInside'
    <2>1. \A r \in Process : call[r] # NoCall => r # q
      BY <1>3
    <2>2. \A r \in Process : call[r] # NoCall => life'[r] = "alive" /\ call[r][2] \notin shm_va'[r]
      BY <1>2, <2>1 DEF ShmInner, AloneInside
    <2>3. \A r \in Process : life'[r] = "unborn" => shm_va'[r] = {} /\ mapped'[r] = << >>
      BY <1>2 DEF ShmInner, AloneInside
    <2>4. \A r \in Process, j \in Key : call[r] = << "alloc", j >> => ref_count'[j] = 0
      BY <1>6 DEF ShmInner, AloneInside, Inside
    <2> QED BY <1>1, <2>2, <2>3, <2>4 DEF ShmInner, AloneInside, Inside
  <1>9. TableRight'
    BY <1>1, <1>6, <1>7 DEF ShmInner, TableRight
  <1>10. ASSUME NEW r \in Process PROVE MappedRight(r)'
    <2>1. CASE r = q
      BY <1>1, <1>2, <2>1 DEF ShmInner, MappedRight
    <2>2. CASE r # q
      BY <1>1, <1>2, <2>2 DEF ShmInner, MappedRight
    <2> QED BY <2>1, <2>2
  <1> QED BY <1>4, <1>5, <1>8, <1>9, <1>10 DEF ShmInner

LEMMA exitKeeps ==
  ASSUME ShmInner, NEW p \in Process, exit(p)
  PROVE  ShmInner'
  <1>1. /\ life[p] = "alive" /\ call[p] = NoCall /\ life' = [life EXCEPT ![p] = "zombie"]
        /\ UNCHANGED << ref_count, num_pages, page_ptr, free, mapped, shm_va, call >>
    BY DEF exit, Ready
  <1>2. life'[p] = "zombie" /\ \A r \in Process : r # p => life'[r] = life[r]
    BY <1>1 DEF ShmInner, ShmTyped
  <1>3. ShmTyped'
    BY <1>1 DEF ShmInner, ShmTyped
  <1>4. AloneInside'
    BY <1>1, <1>2 DEF ShmInner, AloneInside, Inside
  <1>5. RefCountIsUsers' /\ TableRight'
    <2>1. \A k \in Key : Kept(k)' <=> Kept(k)
      BY <1>1 DEF Kept, Inside
    <2>2. RefCountIsUsers'
      BY <1>1 DEF ShmInner, RefCountIsUsers
    <2>3. TableRight'
      BY <1>1, <2>1 DEF ShmInner, TableRight
    <2> QED BY <2>2, <2>3
  <1>6. \A r \in Process : MappedRight(r)'
    BY <1>1 DEF ShmInner, MappedRight
  <1> QED BY <1>3, <1>4, <1>5, <1>6 DEF ShmInner

(* wait and exec: p, whose address space goes, is not inside shmgetat, and *)
(* nobody is with a key of his.                                            *)
LEMMA freevmKeeps ==
  ASSUME ShmInner, NEW p \in Process, freevm(p), raced' = {}, call[p] = NoCall,
         UNCHANGED << num_pages, page_ptr, call >>,
         life' = life \/ life' = [life EXCEPT ![p] = "unborn"]
  PROVE  ShmInner'
  <1> DEFINE His(pg) == \E k \in shm_va[p] : UsersOf(k) = {p} /\ \E i \in IndexOf(k) : pg = page_ptr[k][i]
  <1>1. /\ ref_count' = [k \in Key |-> IF k \in shm_va[p] THEN ref_count[k] - 1 ELSE ref_count[k]]
        /\ free' = {pg \in Page : pg \in free \/ His(pg)}
        /\ mapped' = [mapped EXCEPT ![p] = << >>] /\ shm_va' = [shm_va EXCEPT ![p] = {}]
    BY Dealloc DEF freevm
  <1> HIDE DEF His
  <1>2. /\ mapped'[p] = << >> /\ shm_va'[p] = {}
        /\ \A r \in Process : r # p => mapped'[r] = mapped[r] /\ shm_va'[r] = shm_va[r]
    BY <1>1 DEF ShmInner, ShmTyped
  <1>3. \A k \in shm_va[p], r \in Process : call[r] # NoCall => call[r][2] # k
    BY DEF freevm, Races, InUse
  <1>4. \A r \in Process : life'[r] = life[r] \/ (r = p /\ life'[r] = "unborn")
    BY DEF ShmInner, ShmTyped
  <1>5. ShmTyped'
    <2>1. << >> \in Seq(Page)
      OBVIOUS
    <2>2. mapped' \in [Process -> Seq(Page)] /\ shm_va' \in [Process -> SUBSET Key]
      BY <1>1, <2>1 DEF ShmInner, ShmTyped
    <2>3. ref_count' \in [Key -> Int] /\ free' \in SUBSET Page
      BY <1>1 DEF ShmInner, ShmTyped
    <2>4. life' \in [Process -> {"unborn", "alive", "zombie"}]
      BY DEF ShmInner, ShmTyped
    <2> QED BY <2>2, <2>3, <2>4 DEF ShmInner, ShmTyped
  <1>6. ASSUME NEW j \in Key
        PROVE  ref_count'[j] = Cardinality({r \in Process : j \in shm_va'[r]})
    <2>1. ref_count[j] = Cardinality(UsersOf(j)) /\ UsersOf(j) \in SUBSET Process
      BY DEF ShmInner, RefCountIsUsers, UsersOf
    <2>2. {r \in Process : j \in shm_va'[r]} = UsersOf(j) \ {p}
      BY <1>2 DEF UsersOf
    <2>3. CASE j \in shm_va[p]
      <3>1. p \in UsersOf(j)
        BY <2>3 DEF UsersOf
      <3>2. ref_count'[j] = ref_count[j] - 1
        BY <1>1, <2>3
      <3> QED BY <2>1, <2>2, <3>1, <3>2, OneLeaves
    <2>4. CASE j \notin shm_va[p]
      <3>1. UsersOf(j) \ {p} = UsersOf(j)
        BY <2>4 DEF UsersOf
      <3>2. ref_count'[j] = ref_count[j]
        BY <1>1, <2>4
      <3> QED BY <2>1, <2>2, <3>1, <3>2
    <2> QED BY <2>3, <2>4
  <1>7. \A j \in Key : /\ j \notin shm_va[p] => ref_count'[j] = ref_count[j]
                       /\ j \in shm_va[p] => ref_count'[j] = ref_count[j] - 1
    BY <1>1
  <1>8. \A r \in Process, j \in Key : Inside(r, "map", j) \/ Inside(r, "alloc", j) => j \notin shm_va[p]
    <2>1. ASSUME NEW r \in Process, NEW j \in Key, NEW w, Inside(r, w, j) PROVE j \notin shm_va[p]
      <3>1. << w, j >> # NoCall /\ << w, j >>[2] = j
        BY DEF NoCall
      <3> QED BY <1>3, <2>1, <3>1 DEF Inside
    <2> QED BY <2>1
  <1>9. AloneInside'
    <2>1. \A r \in Process : call[r] # NoCall => r # p
      OBVIOUS
    <2>2. \A r \in Process : call[r] # NoCall => life'[r] = "alive" /\ call[r][2] \notin shm_va'[r]
      BY <1>2, <1>4, <2>1 DEF ShmInner, AloneInside
    <2>3. \A r \in Process : life'[r] = "unborn" => shm_va'[r] = {} /\ mapped'[r] = << >>
      BY <1>2, <1>4 DEF ShmInner, AloneInside
    <2>4. \A r \in Process, j \in Key : call[r] = << "alloc", j >> => ref_count'[j] = 0
      BY <1>7, <1>8 DEF ShmInner, AloneInside, Inside
    <2> QED BY <2>2, <2>3, <2>4 DEF ShmInner, AloneInside, Inside
  <1>10. ASSUME NEW j \in Key
         PROVE  /\ Kept(j)' => Kept(j) /\ \A i \in IndexOf(j) : ~His(page_ptr[j][i])
                /\ Kept(j) /\ ~Kept(j)' => j \in shm_va[p] /\ UsersOf(j) = {p}
    <2>1. CASE j \notin shm_va[p]
      <3>1. Kept(j)' <=> Kept(j)
        BY <1>7, <2>1 DEF Kept, Inside
      <3>2. ASSUME Kept(j), NEW i \in IndexOf(j), His(page_ptr[j][i]) PROVE FALSE
        <4>1. PICK k \in shm_va[p] : \E h \in IndexOf(k) : page_ptr[j][i] = page_ptr[k][h]
          BY <3>2 DEF His
        <4>2. PICK h \in IndexOf(k) : page_ptr[j][i] = page_ptr[k][h]
          BY <4>1
        <4>3. page_ptr[j][i] \in Page
          BY <3>2 DEF ShmInner, TableRight
        <4>4. page_ptr[j][i] # NoPage /\ k \in Key /\ h \in Index /\ i \in Index
          BY <4>3, UserCounts, KeyFacts, ShmAssumption
        <4>5. j = k
          BY <4>2, <4>4, NamedOnce
        <4> QED BY <2>1, <4>5
      <3> QED BY <3>1, <3>2
    <2>2. CASE j \in shm_va[p]
      <3>1. Kept(j) /\ ref_count[j] > 0 /\ ref_count[j] \in Int /\ (ref_count[j] = 1 <=> UsersOf(j) = {p})
        BY <2>2, UserCounts
      <3>2. ~(\E r \in Process : Inside(r, "map", j))
        BY <1>8, <2>2
      <3>3. Kept(j)' <=> ref_count'[j] > 0
        BY <3>2 DEF Kept, Inside
      <3>4. Kept(j)' <=> UsersOf(j) # {p}
        BY <1>7, <2>2, <3>1, <3>3
      <3>5. ASSUME UsersOf(j) # {p}, NEW i \in IndexOf(j), His(page_ptr[j][i]) PROVE FALSE
        <4>1. PICK k \in shm_va[p] : UsersOf(k) = {p} /\ \E h \in IndexOf(k) : page_ptr[j][i] = page_ptr[k][h]
          BY <3>5 DEF His
        <4>2. PICK h \in IndexOf(k) : page_ptr[j][i] = page_ptr[k][h]
          BY <4>1
        <4>3. Naming(page_ptr[j][i]) = {<< j, i >>} /\ Naming(page_ptr[k][h]) = {<< k, h >>}
          BY <2>2, PageOf
        <4>4. << j, i >> = << k, h >>
          BY <4>2, <4>3
        <4> QED BY <3>5, <4>1, <4>4
      <3> QED BY <2>2, <3>1, <3>4, <3>5
    <2> QED BY <2>1, <2>2
  <1>11. TableRight'
    <2>1. ASSUME NEW k \in Key
          PROVE  /\ num_pages[k] \in {0, PagesOf(k)}
                 /\ ref_count'[k] > 0 => num_pages[k] = PagesOf(k)
                 /\ Kept(k)' => \A i \in IndexOf(k) : page_ptr[k][i] \in Page \ free'
      <3>1. num_pages[k] \in {0, PagesOf(k)}
        BY DEF ShmInner, TableRight
      <3>2. ref_count'[k] > 0 => num_pages[k] = PagesOf(k)
        <4>1. CASE k \in shm_va[p]
          BY <4>1, UserCounts
        <4>2. CASE k \notin shm_va[p]
          BY <1>7, <4>2 DEF ShmInner, TableRight
        <4> QED BY <4>1, <4>2
      <3>3. Kept(k)' => \A i \in IndexOf(k) : page_ptr[k][i] \in Page \ free'
        <4>1. Kept(k)' => \A i \in IndexOf(k) : page_ptr[k][i] \in Page \ free
          BY <1>10 DEF ShmInner, TableRight
        <4> QED BY <1>1, <1>10, <4>1
      <3> QED BY <3>1, <3>2, <3>3
    <2>2. ASSUME NEW pg \in Page \ free'
          PROVE  \E k \in Key : Kept(k)' /\ \E i \in IndexOf(k) : page_ptr[k][i] = pg
      <3>1. pg \notin free /\ ~His(pg)
        BY <1>1, <2>2
      <3>2. PICK k \in Key : Kept(k) /\ \E i \in IndexOf(k) : page_ptr[k][i] = pg
        BY <2>2, <3>1 DEF ShmInner, TableRight
      <3>3. ~ (k \in shm_va[p] /\ UsersOf(k) = {p})
        BY <3>1, <3>2 DEF His
      <3>4. Kept(k)'
        BY <1>10, <3>2, <3>3
      <3> QED BY <3>2, <3>4
    <2> QED BY <2>1, <2>2 DEF ShmInner, TableRight
  <1>12. ASSUME NEW r \in Process PROVE MappedRight(r)'
    <2>1. CASE r = p
      BY <1>2, <2>1 DEF MappedRight
    <2>2. CASE r # p
      BY <1>2, <2>2 DEF ShmInner, MappedRight
    <2> QED BY <2>1, <2>2
  <1> QED BY <1>5, <1>6, <1>9, <1>11, <1>12 DEF ShmInner, RefCountIsUsers

LEMMA ShmNextKeeps ==
  ASSUME ~Reuse, ShmInv, [ShmNext]_shmvars
  PROVE  ShmInv'
  <1> SUFFICES ASSUME raced' = {} PROVE ShmInner'
    BY DEF ShmInv
  <1>1. CASE UNCHANGED shmvars
    <2>1. ShmInner
      BY <1>1 DEF ShmInv, shmvars
    <2>2. UNCHANGED << ref_count, num_pages, page_ptr, free, life, mapped, shm_va, call >>
      BY <1>1 DEF shmvars
    <2>3. \A k \in Key : Kept(k)' <=> Kept(k)
      BY <2>2 DEF Kept, Inside
    <2>4. ShmTyped' /\ RefCountIsUsers'
      BY <2>1, <2>2 DEF ShmInner, ShmTyped, RefCountIsUsers
    <2>5. AloneInside'
      BY <2>1, <2>2 DEF ShmInner, AloneInside, Inside
    <2>6. TableRight'
      BY <2>1, <2>2, <2>3 DEF ShmInner, TableRight
    <2>7. \A p \in Process : MappedRight(p)'
      BY <2>1, <2>2 DEF ShmInner, MappedRight
    <2> QED BY <2>4, <2>5, <2>6, <2>7 DEF ShmInner
  <1>2. CASE ShmNext
    <2>1. PICK p \in Process :
            \/ \E k \in Key : ShmTest(p, k)
            \/ ShmAlloc(p) \/ ShmMap(p)
            \/ \E q \in Process : fork(p, q) \/ wait(p, q)
            \/ exit(p) \/ exec(p)
      BY <1>2 DEF ShmNext
    <2>2. ASSUME NEW k \in Key, ShmTest(p, k) PROVE ShmInner'
      <3>1. ShmInner
        BY <2>2 DEF ShmTest, Ready, ShmInv
      <3> QED BY <2>2, <3>1, ShmTestKeeps
    <2>3. CASE ShmAlloc(p)
      <3>1. ShmInner
        BY <2>3 DEF ShmAlloc, ShmInv
      <3> QED BY <2>3, <3>1, ShmAllocKeeps
    <2>4. CASE ShmMap(p)
      <3>1. ShmInner
        BY <2>4 DEF ShmMap, ShmInv
      <3> QED BY <2>4, <3>1, ShmMapKeeps
    <2>5. ASSUME NEW q \in Process, fork(p, q) PROVE ShmInner'
      <3>1. ShmInner
        BY <2>5 DEF fork, Ready, ShmInv
      <3> QED BY <2>5, <3>1, forkKeeps
    <2>6. ASSUME NEW q \in Process, wait(p, q) PROVE ShmInner'
      <3>1. ShmInner
        BY <2>6 DEF wait, Ready, ShmInv
      <3>2. /\ freevm(q) /\ life' = [life EXCEPT ![q] = "unborn"] /\ life[q] = "zombie"
            /\ UNCHANGED << num_pages, page_ptr, call >>
        BY <2>6 DEF wait
      <3>3. call[q] = NoCall
        BY <3>1, <3>2 DEF ShmInner, AloneInside
      <3> QED BY <3>1, <3>2, <3>3, freevmKeeps
    <2>7. CASE exit(p)
      <3>1. ShmInner
        BY <2>7 DEF exit, Ready, ShmInv
      <3> QED BY <2>7, <3>1, exitKeeps
    <2>8. CASE exec(p)
      <3>1. ShmInner
        BY <2>8 DEF exec, Ready, ShmInv
      <3>2. /\ freevm(p) /\ life' = life /\ call[p] = NoCall
            /\ UNCHANGED << num_pages, page_ptr, call >>
        BY <2>8 DEF exec, Ready
      <3> QED BY <3>1, <3>2, freevmKeeps
    <2> QED BY <2>1, <2>2, <2>3, <2>4, <2>5, <2>6, <2>7, <2>8
  <1> QED BY <1>1, <1>2

LEMMA ShmInnerEnough == ASSUME ShmInner PROVE SeeTheSame /\ FreeMeansUnused
  <1>1. SeeTheSame
    <2>1. ASSUME NEW p \in Process, NEW k \in shm_va[p], NEW i \in 0 .. num_pages[k] - 1
          PROVE  page_ptr[k][i] \in Range(mapped[p])
      <3>1. k \in Key /\ num_pages[k] = PagesOf(k) /\ i \in IndexOf(k)
        BY <2>1, UserCounts DEF IndexOf
      <3>2. \E x \in DOMAIN mapped[p] : mapped[p][x] = page_ptr[k][i]
        BY <3>1 DEF ShmInner, MappedRight
      <3> QED BY <3>2 DEF Range
    <2> QED BY <2>1 DEF SeeTheSame
  <1>2. ASSUME NEW p \in Process, NEW i \in DOMAIN mapped[p] PROVE mapped[p][i] \notin free
    <2>1. PICK k \in shm_va[p] : \E h \in IndexOf(k) : mapped[p][i] = page_ptr[k][h]
      BY DEF ShmInner, MappedRight
    <2> QED BY <2>1, PageOf
  <1>3. ASSUME NEW pg \in Page \ free
        PROVE  \E k \in Key : \E i \in Index :
                 page_ptr[k][i] = pg /\ ((ref_count[k] > 0 /\ i < num_pages[k]) \/ k \in InUse)
    <2>1. PICK k \in Key : Kept(k) /\ \E i \in IndexOf(k) : page_ptr[k][i] = pg
      BY DEF ShmInner, TableRight
    <2>2. PICK i \in IndexOf(k) : page_ptr[k][i] = pg
      BY <2>1
    <2>3. i \in Index /\ i < PagesOf(k)
      BY KeyFacts DEF IndexOf
    <2>4. CASE ref_count[k] > 0
      <3>1. num_pages[k] = PagesOf(k)
        BY <2>4 DEF ShmInner, TableRight
      <3> QED BY <2>2, <2>3, <2>4, <3>1
    <2>5. ASSUME NEW p \in Process, Inside(p, "map", k) PROVE k \in InUse
      <3>1. call[p] # NoCall /\ call[p][2] = k
        BY <2>5 DEF Inside, NoCall
      <3> QED BY <3>1 DEF InUse
    <2> QED BY <2>1, <2>2, <2>3, <2>4, <2>5 DEF Kept
  <1> QED BY <1>1, <1>2, <1>3 DEF FreeMeansUnused

\* For any processes, keys and pages, if kalloc returns no page that an unused key
\* still names: while no process enters shmgetat with a key, or gives it up, during
\* another's call with it, ref_count is the number of users, all see the same pages,
\* no mapped page is free, and the last user gives every page back (deallocshm).
THEOREM PagesStayInOrder == ASSUME ~Reuse PROVE ShmSpec => []PagesInOrder
  <1>1. ShmInit => ShmInv
    BY ShmInitInner DEF ShmInv
  <1>2. ShmInv /\ [ShmNext]_shmvars => ShmInv'
    BY ShmNextKeeps
  <1>3. ShmInv => PagesInOrder
    BY ShmInnerEnough DEF ShmInv, PagesInOrder, ShmInner
  <1> QED BY <1>1, <1>2, <1>3, PTL DEF ShmSpec
=============================================================================
