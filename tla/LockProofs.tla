----------------------------- MODULE LockProofs -----------------------------
(***************************************************************************)
(* Theorems about the kernel's two kinds of lock: B_BUSY of the buffers    *)
(* (BufCache) and the spinlocks (Spinlock).                                *)
(*                                                                         *)
(* For any numbers of processes, buffers and sectors, any contents, and    *)
(* any number of spurious interrupts, the buffers are in order in every    *)
(* state, and the cache is a store.  BuffersInOrder is not inductive: a    *)
(* process that was woken in iderw goes back to sleep if its buffer is not *)
(* synced, and would then sleep without being queued.  IInv adds that this *)
(* does not happen, and that processes and drive work on sectors of the    *)
(* disk.                                                                   *)
(*                                                                         *)
(* For any numbers of processors and processes the spinlocks are in order. *)
(* SpinInv says what every list of instructions, of threads that run and   *)
(* of those that do not, takes and gives back from each place on.          *)
(***************************************************************************)
EXTENDS BufCache, Spinlock, Numbers, FiniteSetTheorems, SequenceTheorems, TLAPS

Working ==
  /\ \A p \in Proc : pc[p] # "out" => want[p] \in Sector
  /\ \A p \in Proc : pc[p] \notin {"out", "bget"} => mybuf[p] \in Buf
  /\ drive.busy => drive.sector \in Sector

WokenIsSynced == \A p \in Proc : pc[p] = "woken" => Synced(mybuf[p])

IInv == BuffersInOrder /\ Working /\ WokenIsSynced

---------------------------------------------------------------------------
(* The list of buffers and the queue. *)

LEMMA SizeIsNat == NBUF \in Nat
  BY IdeAssumption, FS_CardinalityType DEF NBUF

LEMMA SomeOrder == Order # {}
  <1>1. PICK s : s \in Bijection(1 .. NBUF, Buf)
    BY IdeAssumption, FS_CardinalityType DEF NBUF, ExistsBijection
  <1>2. s \in Order
    BY <1>1 DEF Order, Bijection, Surjection
  <1> QED BY <1>2

(* Moving a buffer to the front drops none: what was before it moves one   *)
(* place back, and what was behind it stays.                               *)
LEMMA ToFrontKeepsAll ==
  ASSUME NEW s \in Order, NEW b \in Buf
  PROVE  ToFront(s, b) \in Order
  <1> DEFINE t == ToFront(s, b)
  <1>1. /\ NBUF \in Nat /\ s \in [1 .. NBUF -> Buf]
        /\ \A c \in Buf : \E i \in 1 .. NBUF : s[i] = c
    BY SizeIsNat DEF Order
  <1>2. t \in [1 .. NBUF -> Buf]
    BY <1>1 DEF ToFront
  <1>3. ASSUME NEW c \in Buf PROVE \E i \in 1 .. NBUF : t[i] = c
    <2>1. PICK j \in 1 .. NBUF : s[j] = c
      BY <1>1
    <2>2. PICK m \in 1 .. NBUF : s[m] = b
      BY <1>1
    <2>3. CASE c = b
      BY <1>1, <2>2, <2>3 DEF ToFront
    <2>4. CASE c # b /\ \E k \in 1 .. j - 1 : s[k] = b
      <3>1. j # 1
        BY <2>4
      <3>2. t[j] = s[j]
        BY <1>1, <2>4, <3>1 DEF ToFront
      <3> QED BY <2>1, <3>2
    <2>5. CASE c # b /\ ~ \E k \in 1 .. j - 1 : s[k] = b
      <3>1. ~ \E k \in 1 .. j : s[k] = b
        BY <2>1, <2>5
      <3>2. m > j
        BY <2>2, <3>1
      <3>3. /\ j + 1 \in 1 .. NBUF /\ j + 1 # 1 /\ (j + 1) - 1 = j
        BY <1>1, <3>2
      <3>4. t[j + 1] = s[j]
        BY <3>1, <3>3 DEF ToFront
      <3> QED BY <2>1, <3>3, <3>4
    <2> QED BY <2>3, <2>4, <2>5
  <1> QED BY <1>2, <1>3 DEF Order

LEMMA QueueGrows ==
  ASSUME NEW q \in Seq(Buf), NEW b \in Buf
  PROVE  /\ Append(q, b) \in Seq(Buf)
         /\ Len(Append(q, b)) = Len(q) + 1
         /\ \A i \in 1 .. Len(q) : Append(q, b)[i] = q[i]
         /\ Append(q, b)[Len(q) + 1] = b
  OBVIOUS

LEMMA QueueShrinks ==
  ASSUME NEW q \in Seq(Buf), q # << >>
  PROVE  /\ Tail(q) \in Seq(Buf) /\ Head(q) \in Buf /\ Head(q) = q[1]
         /\ Len(q) \in Nat /\ Len(q) >= 1 /\ Len(Tail(q)) = Len(q) - 1
         /\ \A i \in 1 .. Len(q) - 1 : Tail(q)[i] = q[i + 1]
  OBVIOUS

---------------------------------------------------------------------------
(* The first state. *)

LEMMA InitIInv == Init => IInv
  <1> SUFFICES ASSUME Init PROVE IInv
    OBVIOUS
  <1> USE DEF Init, IdeInit
  <1>1. lru \in Order
    BY SomeOrder
  <1>2. TypeOK
    <2>1. /\ sector \in [Buf -> Sector \cup {NoSector}]
          /\ flags \in [Buf -> SUBSET Flag]
          /\ data \in [Buf -> Data] /\ disk \in [Sector -> Data]
      BY IdeAssumption
    <2>2. drive \in [cmd : {"none", "read", "write", "error"}, data : Data,
                    sector : Sector \cup {NoSector}, busy : BOOLEAN]
      BY IdeAssumption
    <2>3. idequeue \in Seq(Buf) /\ spurious \in 0 .. MaxSpurious
      BY IdeAssumption
    <2>4. /\ pc \in [Proc -> {"out", "bget", "bsleep", "iderw", "synced?", "woken", "have"}]
          /\ mybuf \in [Proc -> Buf \cup {Nobody}]
          /\ want \in [Proc -> Sector \cup {NoSector}]
      OBVIOUS
    <2> QED BY <1>1, <2>1, <2>2, <2>3, <2>4 DEF TypeOK
  <1>3. OneBufferPerSector /\ OneOwner /\ BgetWaits
    BY IdeAssumption DEF OneBufferPerSector, OneOwner, Owner, Busy, BgetWaits
  <1>4. QueueIsWaiting
    BY IdeAssumption DEF QueueIsWaiting, Queued, Owner
  <1>5. Working /\ WokenIsSynced
    BY DEF Working, WokenIsSynced
  <1> QED BY <1>2, <1>3, <1>4, <1>5 DEF IInv, BuffersInOrder

---------------------------------------------------------------------------
(* The drive, and interrupts that find nothing to do. *)

LEMMA DriveAlone ==
  ASSUME IInv, UNCHANGED << bufs, idequeue, pc, mybuf, cacheonly >>,
         TypeOK', drive'.busy => drive'.sector \in Sector
  PROVE  IInv'
  <1> USE DEF IInv, BuffersInOrder, bufs, cacheonly
  <1>1. (OneBufferPerSector /\ OneOwner /\ BgetWaits)'
    BY DEF OneBufferPerSector, OneOwner, Owner, Busy, BgetWaits
  <1>2. QueueIsWaiting'
    BY DEF QueueIsWaiting, Queued, Owner
  <1>3. (Working /\ WokenIsSynced)'
    BY DEF Working, WokenIsSynced, Synced
  <1> QED BY <1>1, <1>2, <1>3

LEMMA DriveDoneKeeps == IInv /\ DriveDone /\ UNCHANGED cacheonly => IInv'
  <1> SUFFICES ASSUME IInv, DriveDone, UNCHANGED cacheonly PROVE IInv'
    OBVIOUS
  <1> USE DEF bufs, cacheonly, IInv, BuffersInOrder
  <1>1. /\ drive'.busy = FALSE /\ drive'.sector = drive.sector
        /\ drive' \in [cmd : {"none", "read", "write", "error"}, data : Data,
                       sector : Sector \cup {NoSector}, busy : BOOLEAN]
        /\ disk' \in [Sector -> Data]
    BY DEF DriveDone, TypeOK, Working
  <1>2. TypeOK'
    BY <1>1 DEF DriveDone, TypeOK
  <1> QED BY <1>1, <1>2, DriveAlone DEF DriveDone

LEMMA SpuriousKeeps == IInv /\ SpuriousInterrupt /\ UNCHANGED cacheonly => IInv'
  <1> SUFFICES ASSUME IInv, SpuriousInterrupt, UNCHANGED cacheonly PROVE IInv'
    OBVIOUS
  <1> USE DEF bufs, cacheonly, IInv, BuffersInOrder, SpuriousInterrupt
  <1>1. TypeOK'
    BY IdeAssumption DEF TypeOK
  <1> QED BY <1>1, DriveAlone DEF Working

LEMMA IntrNothingKeeps == IInv /\ IntrNothing /\ UNCHANGED cacheonly => IInv'
  <1> SUFFICES ASSUME IInv, IntrNothing, UNCHANGED cacheonly PROVE IInv'
    OBVIOUS
  <1> USE DEF bufs, cacheonly, IInv, BuffersInOrder, IntrNothing
  <1>1. TypeOK'
    BY DEF TypeOK
  <1> QED BY <1>1, DriveAlone DEF Working

---------------------------------------------------------------------------
(* Processes in bget. *)

LEMMA BreadKeeps == \A p \in Proc, s \in Sector : IInv /\ bread(p, s) => IInv'
  <1> SUFFICES ASSUME NEW p \in Proc, NEW s \in Sector, IInv, bread(p, s)
               PROVE  IInv'
    OBVIOUS
  <1> USE DEF bufs, device, cacheonly, IInv, BuffersInOrder, bread, Goto
  <1>1. TypeOK'
    BY DEF TypeOK
  <1>2. /\ \A q \in Proc : pc[q] # "out" => pc'[q] = pc[q] /\ want'[q] = want[q]
        /\ pc[p] = "out" /\ pc'[p] = "bget" /\ want'[p] = s
        /\ \A q \in Proc : pc[q] = "out" => pc'[q] \in {"out", "bget"}
    BY DEF TypeOK
  <1>3. \A b \in Buf : Owner(b)' = Owner(b)
    BY <1>2 DEF Owner
  <1>4. OneBufferPerSector' /\ OneOwner'
    BY <1>2, <1>3 DEF OneBufferPerSector, OneOwner, Busy, Owner
  <1>5. QueueIsWaiting' /\ BgetWaits'
    BY <1>2, <1>3 DEF QueueIsWaiting, Queued, BgetWaits, Busy, Owner
  <1>6. Working' /\ WokenIsSynced'
    BY <1>2 DEF Working, WokenIsSynced, Synced, TypeOK
  <1> QED BY <1>1, <1>4, <1>5, <1>6

LEMMA BgetCachedKeeps == \A p \in Proc : IInv /\ BgetCached(p) => IInv'
  <1> SUFFICES ASSUME NEW p \in Proc, IInv, BgetCached(p) PROVE IInv'
    OBVIOUS
  <1> USE DEF bufs, device, cacheonly, IInv, BuffersInOrder, Goto
  <1>1. PICK b \in Buf :
          /\ sector[b] = want[p]
          /\ mybuf' = [mybuf EXCEPT ![p] = b]
          /\ \/ /\ ~Busy(b)
                /\ flags' = [flags EXCEPT ![b] = @ \cup {"BUSY"}]
                /\ pc' = [pc EXCEPT ![p] = AfterGet(b, flags[b])]
             \/ /\ Busy(b)
                /\ pc' = [pc EXCEPT ![p] = "bsleep"]
                /\ UNCHANGED flags
    BY DEF BgetCached, Holding
  <1>2. /\ pc[p] = "bget" /\ want[p] \in Sector
        /\ UNCHANGED << sector, data, idequeue, device, cacheonly >>
    BY DEF BgetCached, Working
  <1>3. \A q \in Proc : q # p => pc'[q] = pc[q] /\ mybuf'[q] = mybuf[q]
    BY <1>1 DEF TypeOK
  <1>4. mybuf'[p] = b
    BY <1>1 DEF TypeOK
  <1>5. CASE Busy(b) /\ pc' = [pc EXCEPT ![p] = "bsleep"] /\ UNCHANGED flags
    <2>1. TypeOK'
      BY <1>1, <1>2, <1>5 DEF TypeOK
    <2>2. pc'[p] = "bsleep"
      BY <1>5 DEF TypeOK
    <2>3. \A c \in Buf : Owner(c)' = Owner(c)
      BY <1>2, <1>3, <1>4, <2>2 DEF Owner
    <2>4. OneBufferPerSector' /\ OneOwner'
      BY <1>2, <1>5, <2>3 DEF OneBufferPerSector, OneOwner, Busy
    <2>5. QueueIsWaiting'
      BY <1>2, <1>3, <2>2, <2>3 DEF QueueIsWaiting, Queued, Owner
    <2>6. BgetWaits'
      BY <1>3, <1>4, <1>5 DEF BgetWaits, Busy
    <2>7. Working' /\ WokenIsSynced'
      BY <1>2, <1>3, <1>4, <1>5, <2>2 DEF Working, WokenIsSynced, Synced
    <2> QED BY <2>1, <2>4, <2>5, <2>6, <2>7
  <1>6. CASE /\ ~Busy(b)
             /\ flags' = [flags EXCEPT ![b] = @ \cup {"BUSY"}]
             /\ pc' = [pc EXCEPT ![p] = AfterGet(b, flags[b])]
    <2>1. pc'[p] \in {"iderw", "have"}
      BY <1>6 DEF TypeOK, AfterGet
    <2>2. TypeOK'
      BY <1>1, <1>2, <1>6 DEF TypeOK, AfterGet, Flag
    <2>3. /\ flags'[b] = flags[b] \cup {"BUSY"}
          /\ \A c \in Buf : c # b => flags'[c] = flags[c]
      BY <1>6 DEF TypeOK
    <2>4. Owner(b) = {}
      BY <1>6 DEF OneOwner
    <2>5. /\ Owner(b)' = {p}
          /\ \A c \in Buf : c # b => Owner(c)' = Owner(c)
      BY <1>2, <1>3, <1>4, <2>1, <2>4 DEF Owner
    <2>6. OneBufferPerSector'
      BY <1>2 DEF OneBufferPerSector
    <2>7. OneOwner'
      BY <1>1, <1>2, <2>3, <2>5 DEF OneOwner, Busy
    <2>8. QueueIsWaiting'
      BY <1>2, <1>3, <2>1, <2>4, <2>5 DEF QueueIsWaiting, Queued, Owner
    <2>9. BgetWaits'
      BY <1>3, <2>1, <2>3 DEF BgetWaits, Busy, Working
    <2>10. Working' /\ WokenIsSynced'
      BY <1>2, <1>3, <1>4, <2>1, <2>3 DEF Working, WokenIsSynced, Synced, TypeOK
    <2> QED BY <2>2, <2>6, <2>7, <2>8, <2>9, <2>10
  <1> QED BY <1>1, <1>5, <1>6

LEMMA BgetFreshKeeps == \A p \in Proc : IInv /\ BgetFresh(p) => IInv'
  <1> SUFFICES ASSUME NEW p \in Proc, IInv, BgetFresh(p) PROVE IInv'
    OBVIOUS
  <1> USE DEF bufs, device, cacheonly, IInv, BuffersInOrder, Goto
  <1>1. PICK b \in Buf :
          /\ ~Busy(b)
          /\ sector' = [sector EXCEPT ![b] = want[p]]
          /\ flags' = [flags EXCEPT ![b] = {"BUSY"}]
          /\ mybuf' = [mybuf EXCEPT ![p] = b]
          /\ pc' = [pc EXCEPT ![p] = "iderw"]
    <2>1. PICK i \in 1 .. NBUF :
            /\ ~Busy(lru[i])
            /\ sector' = [sector EXCEPT ![lru[i]] = want[p]]
            /\ flags' = [flags EXCEPT ![lru[i]] = {"BUSY"}]
            /\ mybuf' = [mybuf EXCEPT ![p] = lru[i]]
            /\ pc' = [pc EXCEPT ![p] = "iderw"]
      BY DEF BgetFresh, FreshFlags, AfterGet
    <2>2. lru[i] \in Buf
      BY <2>1 DEF TypeOK, Order
    <2> QED BY <2>1, <2>2
  <1>2. /\ pc[p] = "bget" /\ want[p] \in Sector
        /\ \A c \in Buf : sector[c] # want[p]
        /\ UNCHANGED << data, idequeue, device, cacheonly >>
    BY DEF BgetFresh, NotCached, Holding, Working
  <1>3. /\ \A q \in Proc : q # p => pc'[q] = pc[q] /\ mybuf'[q] = mybuf[q]
        /\ mybuf'[p] = b /\ pc'[p] = "iderw"
    BY <1>1 DEF TypeOK
  <1>4. /\ flags'[b] = {"BUSY"} /\ sector'[b] = want[p]
        /\ \A c \in Buf : c # b => flags'[c] = flags[c] /\ sector'[c] = sector[c]
    BY <1>1 DEF TypeOK
  <1>5. TypeOK'
    BY <1>1, <1>2 DEF TypeOK, Flag
  <1>6. Owner(b) = {}
    BY <1>1 DEF OneOwner
  <1>7. /\ Owner(b)' = {p}
        /\ \A c \in Buf : c # b => Owner(c)' = Owner(c)
    BY <1>2, <1>3, <1>6 DEF Owner
  <1>8. OneBufferPerSector'
    BY <1>2, <1>4 DEF OneBufferPerSector
  <1>9. OneOwner'
    BY <1>2, <1>4, <1>7 DEF OneOwner, Busy
  <1>10. QueueIsWaiting'
    BY <1>2, <1>3, <1>6, <1>7 DEF QueueIsWaiting, Queued, Owner
  <1>11. BgetWaits'
    BY <1>1, <1>3, <1>4 DEF BgetWaits, Busy, Working
  <1>12. ASSUME NEW q \in Proc, pc[q] = "woken" PROVE mybuf[q] # b
    BY <1>6, <1>12 DEF Owner
  <1>13. Working'
    BY <1>2, <1>3 DEF Working
  <1>14. WokenIsSynced'
    BY <1>3, <1>4, <1>12 DEF WokenIsSynced, Synced, Working
  <1> QED BY <1>5, <1>8, <1>9, <1>10, <1>11, <1>13, <1>14

---------------------------------------------------------------------------
(* Processes and the disk. *)

LEMMA CommandType ==
  ASSUME TypeOK, NEW b \in Buf, sector[b] \in Sector, NEW fs
  PROVE  /\ Command(b, fs) \in [cmd : {"none", "read", "write", "error"}, data : Data,
                                sector : Sector \cup {NoSector}, busy : BOOLEAN]
         /\ Command(b, fs).sector \in Sector
  BY IdeAssumption DEF Command, TypeOK

LEMMA IderwKeeps == \A p \in Proc : IInv /\ iderw(p) /\ UNCHANGED cacheonly => IInv'
  <1> SUFFICES ASSUME NEW p \in Proc, IInv, iderw(p), UNCHANGED cacheonly PROVE IInv'
    OBVIOUS
  <1> DEFINE b == mybuf[p]
  <1> USE DEF bufs, cacheonly, IInv, BuffersInOrder, Goto
  <1>1. /\ pc[p] = "iderw" /\ pc' = [pc EXCEPT ![p] = "synced?"]
        /\ idequeue' = Append(idequeue, b)
        /\ UNCHANGED << bufs, irq, spurious, disk, failed, mybuf, cacheonly >>
        /\ drive' \in {drive, Command(b, flags[b])}
    BY DEF iderw
  <1>2. b \in Buf
    BY <1>1 DEF Working
  <1>3. p \in Owner(b) /\ sector[b] = want[p] /\ want[p] \in Sector
    BY <1>1, <1>2 DEF Owner, OneOwner, Working
  <1>4. \A q \in Owner(b) : q = p
    BY <1>2, <1>3 DEF OneOwner
  <1>5. /\ pc'[p] = "synced?" /\ \A q \in Proc : q # p => pc'[q] = pc[q]
    BY <1>1 DEF TypeOK
  <1>6. \A c \in Buf : Owner(c)' = Owner(c)
    BY <1>1, <1>5 DEF Owner
  <1>7. /\ idequeue \in Seq(Buf) /\ idequeue' \in Seq(Buf) /\ Len(idequeue) \in Nat
        /\ Len(idequeue') = Len(idequeue) + 1
        /\ \A i \in 1 .. Len(idequeue) : idequeue'[i] = idequeue[i]
        /\ idequeue'[Len(idequeue) + 1] = b
    BY <1>1, <1>2, QueueGrows DEF TypeOK
  <1>8. TypeOK'
    BY <1>1, <1>2, <1>3, <1>7, CommandType DEF TypeOK
  <1>9. OneBufferPerSector' /\ OneOwner'
    BY <1>1, <1>6 DEF OneBufferPerSector, OneOwner, Busy
  <1>10. b \notin Queued
    BY <1>1, <1>2, <1>4 DEF QueueIsWaiting
  <1>11. Queued' = Queued \cup {b}
    BY <1>7 DEF Queued
  <1>12. QueueIsWaiting'
    <2>1. \A i, j \in 1 .. Len(idequeue') : idequeue'[i] = idequeue'[j] => i = j
      BY <1>7, <1>10 DEF QueueIsWaiting, Queued
    <2>2. \A c \in Buf : c \in Queued' <=> \E q \in Owner(c)' : pc'[q] = "synced?"
      BY <1>1, <1>2, <1>3, <1>5, <1>6, <1>11 DEF QueueIsWaiting, Owner
    <2> QED BY <2>1, <2>2 DEF QueueIsWaiting
  <1>13. BgetWaits'
    BY <1>1, <1>5 DEF BgetWaits, Busy
  <1>14. Working'
    BY <1>1, <1>2, <1>3, <1>5, CommandType DEF Working
  <1>15. WokenIsSynced'
    BY <1>1, <1>5 DEF WokenIsSynced, Synced
  <1> QED BY <1>8, <1>9, <1>12, <1>13, <1>14, <1>15

(* The sleep in iderw never begins again. *)
LEMMA IderwWokenKeeps ==
  \A p \in Proc : IInv /\ IderwWoken(p) /\ UNCHANGED cacheonly => IInv'
  <1> SUFFICES ASSUME NEW p \in Proc, IInv, IderwWoken(p), UNCHANGED cacheonly
               PROVE  IInv'
    OBVIOUS
  <1> USE DEF bufs, device, cacheonly, IInv, BuffersInOrder, Goto
  <1>1. /\ pc[p] = "woken" /\ pc' = [pc EXCEPT ![p] = "have"]
        /\ UNCHANGED << bufs, idequeue, device, mybuf, cacheonly >>
    BY DEF IderwWoken, WokenIsSynced
  <1>2. pc'[p] = "have" /\ \A q \in Proc : q # p => pc'[q] = pc[q]
    BY <1>1 DEF TypeOK
  <1>3. \A c \in Buf : Owner(c)' = Owner(c)
    BY <1>1, <1>2 DEF Owner
  <1>4. TypeOK'
    BY <1>1 DEF TypeOK
  <1>5. OneBufferPerSector' /\ OneOwner'
    BY <1>1, <1>3 DEF OneBufferPerSector, OneOwner, Busy
  <1>6. QueueIsWaiting'
    BY <1>1, <1>2, <1>3 DEF QueueIsWaiting, Queued, Owner
  <1>7. BgetWaits' /\ Working' /\ WokenIsSynced'
    BY <1>1, <1>2 DEF BgetWaits, Busy, Working, WokenIsSynced, Synced
  <1> QED BY <1>4, <1>5, <1>6, <1>7

(* What wakeup(c) does to the place of each process. *)
LEMMA WokenOne ==
  ASSUME TypeOK, NEW c \in Buf, NEW q \in Proc
  PROVE  /\ Woken(c)[q] \in {"out", "bget", "bsleep", "iderw", "synced?", "woken", "have"}
         /\ mybuf[q] # c => Woken(c)[q] = pc[q]
         /\ pc[q] \notin {"synced?", "bsleep"} => Woken(c)[q] = pc[q]
         /\ mybuf[q] = c /\ pc[q] = "synced?" => Woken(c)[q] = "woken"
         /\ mybuf[q] = c /\ pc[q] = "bsleep" => Woken(c)[q] = "bget"
  BY DEF Woken, TypeOK

LEMMA IdeintrKeeps == IInv /\ ideintr /\ UNCHANGED cacheonly => IInv'
  <1> SUFFICES ASSUME IInv, ideintr, UNCHANGED cacheonly PROVE IInv'
    OBVIOUS
  <1> DEFINE b == Head(idequeue)
             next == Tail(idequeue)
  <1> USE DEF bufs, cacheonly, IInv, BuffersInOrder
  <1>1. /\ idequeue # << >> /\ idequeue' = next
        /\ data' \in {data, [data EXCEPT ![b] = drive.data]}
        /\ flags' = [flags EXCEPT ![b] = (@ \cup {"VALID"}) \ {"DIRTY"}]
        /\ drive' = drive
           \/ (next # << >> /\ drive' = Command(Head(next), flags[Head(next)]))
        /\ pc' = Woken(b)
        /\ irq' = FALSE /\ failed' \in BOOLEAN
        /\ UNCHANGED << sector, spurious, disk, mybuf, cacheonly >>
    BY DEF ideintr, NextStarts, TypeOK
  <1>2. /\ next \in Seq(Buf) /\ b \in Buf /\ b = idequeue[1]
        /\ Len(idequeue) \in Nat /\ Len(idequeue) >= 1
        /\ Len(next) = Len(idequeue) - 1
        /\ \A i \in 1 .. Len(idequeue) - 1 : next[i] = idequeue[i + 1]
    BY <1>1, QueueShrinks DEF TypeOK
  <1>3. Queued' = Queued \ {b}
    BY <1>1, <1>2 DEF Queued, QueueIsWaiting
  <1>4. next # << >> => /\ Head(next) \in Buf /\ sector[Head(next)] \in Sector
    <2>1. SUFFICES ASSUME next # << >> PROVE Head(next) \in Buf /\ sector[Head(next)] \in Sector
      OBVIOUS
    <2>2. Head(next) \in Buf /\ Head(next) = next[1] /\ Len(next) >= 1
      BY <1>2, <2>1, QueueShrinks
    <2>3. Head(next) = idequeue[2] /\ 2 \in 1 .. Len(idequeue)
      BY <1>2, <2>2
    <2>4. PICK q \in Owner(Head(next)) : pc[q] = "synced?"
      BY <2>2, <2>3 DEF QueueIsWaiting, Queued
    <2>5. q \in Proc /\ sector[Head(next)] = want[q] /\ want[q] \in Sector
      BY <2>2, <2>4 DEF OneOwner, Owner, Working
    <2> QED BY <2>2, <2>5
  <1>5. /\ flags'[b] = (flags[b] \cup {"VALID"}) \ {"DIRTY"}
        /\ \A c \in Buf : c # b => flags'[c] = flags[c]
    BY <1>1, <1>2 DEF TypeOK
  <1>6. TypeOK'
    <2>1. drive' \in [cmd : {"none", "read", "write", "error"}, data : Data,
                      sector : Sector \cup {NoSector}, busy : BOOLEAN]
      BY <1>1, <1>4, CommandType DEF TypeOK
    <2>2. pc' \in [Proc -> {"out", "bget", "bsleep", "iderw", "synced?", "woken", "have"}]
      BY <1>1, <1>2, WokenOne DEF Woken
    <2>3. data' \in [Buf -> Data]
      BY <1>1 DEF TypeOK
    <2>4. flags' \in [Buf -> SUBSET Flag]
      BY <1>1 DEF TypeOK, Flag
    <2> QED BY <1>1, <1>2, <2>1, <2>2, <2>3, <2>4 DEF TypeOK
  <1>7. ASSUME NEW q \in Proc
        PROVE  /\ mybuf[q] # b => pc'[q] = pc[q]
               /\ pc[q] \notin {"synced?", "bsleep"} => pc'[q] = pc[q]
               /\ mybuf[q] = b /\ pc[q] = "synced?" => pc'[q] = "woken"
               /\ mybuf[q] = b /\ pc[q] = "bsleep" => pc'[q] = "bget"
    BY <1>1, <1>2, WokenOne
  <1>8. \A c \in Buf : Owner(c)' = Owner(c)
    BY <1>1, <1>7 DEF Owner
  <1>9. OneBufferPerSector' /\ OneOwner'
    BY <1>1, <1>5, <1>8 DEF OneBufferPerSector, OneOwner, Busy
  <1>10. QueueIsWaiting'
    <2>1. \A i, j \in 1 .. Len(idequeue') : idequeue'[i] = idequeue'[j] => i = j
      BY <1>1, <1>2 DEF QueueIsWaiting
    <2>2. \A c \in Buf : c \in Queued' <=> \E q \in Owner(c)' : pc'[q] = "synced?"
      BY <1>3, <1>7, <1>8 DEF QueueIsWaiting, Owner
    <2> QED BY <2>1, <2>2 DEF QueueIsWaiting
  <1>11. BgetWaits'
    BY <1>1, <1>5, <1>7 DEF BgetWaits, Busy, Working
  <1>12. Working'
    <2>1. drive'.busy => drive'.sector \in Sector
      BY <1>1, <1>4, CommandType DEF Working
    <2> QED BY <1>1, <1>7, <2>1 DEF Working, TypeOK
  <1>13. WokenIsSynced'
    BY <1>1, <1>5, <1>7 DEF WokenIsSynced, Synced, Working, TypeOK
  <1> QED BY <1>6, <1>9, <1>10, <1>11, <1>12, <1>13

---------------------------------------------------------------------------
(* The holder of a buffer. *)

LEMMA BwriteKeeps == \A p \in Proc, v \in Data : IInv /\ bwrite(p, v) => IInv'
  <1> SUFFICES ASSUME NEW p \in Proc, NEW v \in Data, IInv, bwrite(p, v) PROVE IInv'
    OBVIOUS
  <1> DEFINE b == mybuf[p]
  <1> USE DEF bufs, device, cacheonly, IInv, BuffersInOrder, Goto
  <1>1. /\ pc[p] = "have" /\ pc' = [pc EXCEPT ![p] = "iderw"]
        /\ data' = [data EXCEPT ![b] = v]
        /\ flags' = [flags EXCEPT ![b] = @ \cup {"DIRTY"}]
        /\ UNCHANGED << sector, idequeue, device, mybuf, cacheonly >>
    BY DEF bwrite
  <1>2. b \in Buf
    BY <1>1 DEF Working
  <1>3. pc'[p] = "iderw" /\ \A q \in Proc : q # p => pc'[q] = pc[q]
    BY <1>1 DEF TypeOK
  <1>4. /\ flags'[b] = flags[b] \cup {"DIRTY"}
        /\ \A c \in Buf : c # b => flags'[c] = flags[c]
    BY <1>1, <1>2 DEF TypeOK
  <1>5. p \in Owner(b) /\ \A q \in Owner(b) : q = p
    BY <1>1, <1>2 DEF Owner, OneOwner
  <1>6. \A c \in Buf : Owner(c)' = Owner(c)
    BY <1>1, <1>3 DEF Owner
  <1>7. TypeOK'
    BY <1>1 DEF TypeOK, Flag
  <1>8. OneBufferPerSector' /\ OneOwner'
    BY <1>1, <1>4, <1>6 DEF OneBufferPerSector, OneOwner, Busy
  <1>9. QueueIsWaiting'
    BY <1>1, <1>3, <1>6 DEF QueueIsWaiting, Queued, Owner
  <1>10. BgetWaits' /\ Working'
    BY <1>1, <1>3, <1>4 DEF BgetWaits, Busy, Working
  <1>11. ASSUME NEW q \in Proc, pc'[q] = "woken"
         PROVE  q # p /\ pc[q] = "woken" /\ mybuf[q] \in Buf /\ mybuf[q] # b
    BY <1>1, <1>3, <1>5, <1>11 DEF Owner, Working
  <1>12. WokenIsSynced'
    BY <1>1, <1>4, <1>11 DEF WokenIsSynced, Synced
  <1> QED BY <1>7, <1>8, <1>9, <1>10, <1>12

LEMMA BrelseKeeps == \A p \in Proc : IInv /\ brelse(p) => IInv'
  <1> SUFFICES ASSUME NEW p \in Proc, IInv, brelse(p) PROVE IInv'
    OBVIOUS
  <1> USE DEF bufs, device, cacheonly, IInv, BuffersInOrder
  <1>2. PICK b \in Buf : b = mybuf[p]
    BY DEF brelse, Working
  <1>1. /\ pc[p] = "have" /\ pc' = [Woken(b) EXCEPT ![p] = "out"]
        /\ lru' = ToFront(lru, b)
        /\ flags' = [flags EXCEPT ![b] = @ \ {"BUSY"}]
        /\ mybuf' = [mybuf EXCEPT ![p] = Nobody]
        /\ want' = [want EXCEPT ![p] = NoSector]
        /\ UNCHANGED << sector, data, idequeue, device >>
    BY <1>2 DEF brelse
  <1>3. pc'[p] = "out" /\ \A q \in Proc : q # p => pc'[q] = Woken(b)[q]
    BY <1>1 DEF Woken
  <1>4. /\ mybuf'[p] = Nobody /\ Nobody \notin Buf
        /\ \A q \in Proc : q # p => mybuf'[q] = mybuf[q] /\ want'[q] = want[q]
    BY <1>1, IdeAssumption DEF TypeOK
  <1>5. /\ flags'[b] = flags[b] \ {"BUSY"}
        /\ \A c \in Buf : c # b => flags'[c] = flags[c]
    BY <1>1, <1>2 DEF TypeOK
  <1>6. Owner(b) = {p}
    BY <1>1, <1>2 DEF Owner, OneOwner
  <1>7. ASSUME NEW q \in Proc, q # p
        PROVE  /\ mybuf[q] # b => pc'[q] = pc[q]
               /\ pc[q] \notin {"synced?", "bsleep"} => pc'[q] = pc[q]
               /\ mybuf[q] = b => pc[q] # "synced?"
               /\ mybuf[q] = b /\ pc[q] = "bsleep" => pc'[q] = "bget"
    <2>1. mybuf[q] = b => q \notin Owner(b)
      BY <1>6, <1>7
    <2> QED BY <1>2, <1>3, <1>7, <2>1, WokenOne DEF Owner
  <1>8. /\ Owner(b)' = {}
        /\ \A c \in Buf : c # b => Owner(c)' = Owner(c)
    <2>1. ASSUME NEW q \in Proc PROVE q \notin Owner(b)'
      <3>1. CASE q = p
        BY <1>2, <1>4, <3>1 DEF Owner
      <3>2. CASE q # p
        <4>1. q \notin Owner(b)
          BY <1>6, <3>2
        <4> QED BY <1>2, <1>4, <1>7, <3>2, <4>1 DEF Owner, TypeOK
      <3> QED BY <3>1, <3>2
    <2>2. ASSUME NEW c \in Buf, c # b, NEW q \in Proc
          PROVE  q \in Owner(c)' <=> q \in Owner(c)
      <3>1. CASE q = p
        BY <1>2, <1>3, <2>2, <3>1 DEF Owner
      <3>2. CASE q # p
        <4>1. pc[q] \in {"synced?", "bsleep"} /\ mybuf[q] = b => mybuf[q] # c
          BY <2>2
        <4>2. pc'[q] = pc[q] \/ mybuf[q] = b
          BY <1>7, <3>2
        <4> QED BY <1>4, <2>2, <3>2, <4>1, <4>2 DEF Owner
      <3> QED BY <3>1, <3>2
    <2> QED BY <2>1, <2>2 DEF Owner
  <1>9. TypeOK'
    <2>1. pc' \in [Proc -> {"out", "bget", "bsleep", "iderw", "synced?", "woken", "have"}]
      BY <1>1, <1>2, WokenOne DEF Woken
    <2>2. lru' \in Order
      BY <1>1, <1>2, ToFrontKeepsAll DEF TypeOK
    <2>3. flags' \in [Buf -> SUBSET Flag]
      BY <1>1 DEF TypeOK, Flag
    <2> QED BY <1>1, <2>1, <2>2, <2>3 DEF TypeOK
  <1>10. OneBufferPerSector'
    BY <1>1 DEF OneBufferPerSector
  <1>11. OneOwner'
    <2>1. ASSUME NEW c \in Buf, c # b, NEW q \in Owner(c) PROVE q # p
      BY <1>2, <2>1 DEF Owner
    <2>2. ~Busy(b)'
      BY <1>5 DEF Busy
    <2>3. \A c \in Buf : c # b => (Busy(c)' <=> Busy(c))
      BY <1>5 DEF Busy
    <2>4. ASSUME NEW c \in Buf, c # b, NEW q \in Owner(c) PROVE want'[q] = want[q]
      BY <1>4, <2>1, <2>4 DEF Owner
    <2> QED BY <1>1, <1>8, <2>2, <2>3, <2>4 DEF OneOwner
  <1>12. QueueIsWaiting'
    <2>1. ASSUME NEW c \in Buf
          PROVE  c \in Queued' <=> \E q \in Owner(c)' : pc'[q] = "synced?"
      <3>1. CASE c = b
        BY <1>1, <1>2, <1>6, <1>8, <3>1 DEF QueueIsWaiting, Queued
      <3>2. CASE c # b
        <4>1. ASSUME NEW q \in Owner(c) PROVE pc'[q] = pc[q]
          <5>1. q \in Proc /\ mybuf[q] = c
            BY <4>1 DEF Owner
          <5>2. q # p
            BY <1>2, <3>2, <5>1
          <5> QED BY <1>7, <3>2, <5>1, <5>2
        <4> QED BY <1>1, <1>8, <3>2, <4>1 DEF QueueIsWaiting, Queued
      <3> QED BY <3>1, <3>2
    <2> QED BY <1>1, <2>1 DEF QueueIsWaiting
  <1>13. BgetWaits'
    <2>1. ASSUME NEW q \in Proc, pc'[q] = "bsleep" PROVE "BUSY" \in flags'[mybuf'[q]]
      <3>1. q # p
        BY <1>3, <2>1
      <3>2. pc[q] = "bsleep" /\ mybuf[q] # b
        BY <1>2, <1>3, <1>7, <2>1, <3>1, WokenOne DEF TypeOK
      <3>3. mybuf[q] \in Buf /\ "BUSY" \in flags[mybuf[q]]
        BY <3>2 DEF BgetWaits, Busy, Working
      <3> QED BY <1>4, <1>5, <3>1, <3>2, <3>3
    <2> QED BY <2>1 DEF BgetWaits, Busy
  <1>14. Working'
    <2>1. ASSUME NEW q \in Proc, pc'[q] # "out"
          PROVE  q # p /\ pc[q] # "out" /\ (pc'[q] # "bget" => pc[q] # "bget")
      BY <1>2, <1>3, <1>7, <2>1 DEF TypeOK
    <2> QED BY <1>1, <1>4, <2>1 DEF Working
  <1>15. WokenIsSynced'
    <2>1. ASSUME NEW q \in Proc, pc'[q] = "woken"
          PROVE  q # p /\ pc[q] = "woken" /\ mybuf[q] \in Buf /\ mybuf[q] # b
      <3>1. q # p
        BY <1>3, <2>1
      <3>2. pc[q] = "woken"
        BY <1>7, <2>1, <3>1 DEF TypeOK
      <3>3. mybuf[q] \in Buf
        BY <3>2 DEF Working
      <3> QED BY <1>6, <3>1, <3>2, <3>3 DEF Owner
    <2> QED BY <1>1, <1>4, <1>5, <2>1 DEF WokenIsSynced, Synced
  <1> QED BY <1>9, <1>10, <1>11, <1>12, <1>13, <1>14, <1>15

---------------------------------------------------------------------------

LEMMA NextIInv == IInv /\ [Next]_vars => IInv'
  <1> SUFFICES ASSUME IInv, [Next]_vars PROVE IInv'
    OBVIOUS
  <1>1. CASE IdeNext /\ UNCHANGED cacheonly
    BY <1>1, DriveDoneKeeps, SpuriousKeeps, IntrNothingKeeps, IdeintrKeeps,
       IderwKeeps, IderwWokenKeeps DEF IdeNext
  <1>2. CASE \E p \in Proc : BgetCached(p) \/ BgetFresh(p) \/ Work(p)
    BY <1>2, BgetCachedKeeps, BgetFreshKeeps, BreadKeeps, BwriteKeeps,
       BrelseKeeps DEF Work
  <1>3. CASE UNCHANGED vars
    <2>1. TypeOK' /\ (drive'.busy => drive'.sector \in Sector)
      BY <1>3 DEF vars, bufs, device, cacheonly, IInv, BuffersInOrder, TypeOK, Working
    <2> QED BY <1>3, <2>1, DriveAlone DEF vars, bufs, device, cacheonly
  <1> QED BY <1>1, <1>2, <1>3 DEF Next

(* In every state of every run the buffers are in order: one buffer per    *)
(* sector, one owner per BUSY buffer, the disk queue holds just what is    *)
(* waited for, and nobody sleeps for a free buffer (bget, brelse, iderw,   *)
(* ideintr).                                                               *)
THEOREM BuffersOrdered == Spec => []BuffersInOrder
  <1>1. IInv => BuffersInOrder
    BY DEF IInv
  <1> QED BY <1>1, InitIInv, NextIInv, PTL DEF Spec

---------------------------------------------------------------------------
(***************************************************************************)
(* Buffers, queue, drive and disk together are a store of blocks: BufCache *)
(* implements BlockStore, until a read fails.  The mapping needs more than *)
(* the order of the buffers, namely how their contents agree               *)
(* with the drive and the disk (DataInv).                                  *)
(***************************************************************************)

HaveIsSynced == \A p \in Proc : pc[p] = "have" => Synced(mybuf[p])

(* A buffer stays DIRTY only while its owner waits in iderw. *)
DirtyIsWritten ==
  \A b \in Buf : "DIRTY" \in flags[b] =>
    "VALID" \in flags[b] /\ \E p \in Owner(b) : pc[p] \in {"iderw", "synced?"}

(* What a buffer holds that may be taken for another sector is not lost,   *)
(* also when the drive is still writing it after a spurious interrupt.     *)
CleanIsOnDisk ==
  \A b \in Buf : Synced(b) => sector[b] \in Sector /\ data[b] = OnDisk(sector[b])

(* The drive works, or has worked, on the first buffer of the queue. *)
HeadIsStarted ==
  idequeue # << >> =>
    LET b == Head(idequeue) IN
    /\ drive.sector = sector[b]
    /\ IF "DIRTY" \in flags[b]
       THEN /\ drive.cmd = "write" /\ drive.data = data[b]
            /\ ~drive.busy => disk[sector[b]] = data[b]
       ELSE /\ drive.cmd \in {"read", "error"}
            /\ ~drive.busy /\ drive.cmd = "read" => drive.data = disk[sector[b]]

DataInv == HaveIsSynced /\ DirtyIsWritten /\ (~failed => CleanIsOnDisk /\ HeadIsStarted)

---------------------------------------------------------------------------
(* What the mapping gives. *)

(* Contents(s) is v if v is in all valid buffers of s or, if there are     *)
(* none, on the disk.                                                      *)
Holds(s, v) ==
  /\ \A b \in Buf : sector[b] = s /\ "VALID" \in flags[b] => data[b] = v
  /\ (\A b \in Buf : ~(sector[b] = s /\ "VALID" \in flags[b])) => OnDisk(s) = v

LEMMA HoldsIsContents == \A s, v : Holds(s, v) => Contents(s) = v
  BY DEF Holds, Contents, Holding

LEMMA ContentsHolds == OneBufferPerSector => \A s \in Sector : Holds(s, Contents(s))
  <1> SUFFICES ASSUME OneBufferPerSector, NEW s \in Sector PROVE Holds(s, Contents(s))
    OBVIOUS
  <1>1. CASE \E b \in Buf : sector[b] = s /\ "VALID" \in flags[b]
    <2>1. PICK b \in Buf : sector[b] = s /\ "VALID" \in flags[b]
      BY <1>1
    <2>2. \A c \in Buf : sector[c] = s /\ "VALID" \in flags[c] => c = b
      BY <2>1, IdeAssumption DEF OneBufferPerSector
    <2>3. {c \in Holding(s) : "VALID" \in flags[c]} = {b}
      BY <2>1, <2>2 DEF Holding
    <2>4. Contents(s) = data[b]
      BY <2>3 DEF Contents
    <2> QED BY <2>1, <2>2, <2>4 DEF Holds
  <1>2. CASE \A b \in Buf : ~(sector[b] = s /\ "VALID" \in flags[b])
    BY <1>2 DEF Holds, Contents, Holding
  <1> QED BY <1>1, <1>2

LEMMA HoldsIsContentsNext == (\A s, v : Holds(s, v) => Contents(s) = v)'
  BY HoldsIsContents, PTL

LEMMA UserIs ==
  OneBufferPerSector /\ OneOwner =>
    \A s \in Sector, b \in Buf : sector[b] = s =>
      /\ Owner(b) = {} => User(s) = Nobody
      /\ \A p \in Owner(b) : User(s) = p
  <1> SUFFICES ASSUME OneBufferPerSector, OneOwner,
                      NEW s \in Sector, NEW b \in Buf, sector[b] = s
               PROVE  /\ Owner(b) = {} => User(s) = Nobody
                      /\ \A p \in Owner(b) : User(s) = p
    OBVIOUS
  <1>1. Holding(s) = {b}
    BY IdeAssumption DEF Holding, OneBufferPerSector
  <1>2. Users(s) = Owner(b)
    BY <1>1 DEF Users, Owner
  <1>3. \A p \in Owner(b) : Owner(b) = {p}
    BY DEF OneOwner
  <1> QED BY <1>2, <1>3 DEF User

LEMMA NoUser == \A s : Holding(s) = {} => User(s) = Nobody
  BY DEF User, Users

LEMMA UserNext ==
  (/\ OneBufferPerSector /\ OneOwner =>
        \A s \in Sector, b \in Buf : sector[b] = s =>
          /\ Owner(b) = {} => User(s) = Nobody
          /\ \A p \in Owner(b) : User(s) = p
   /\ \A s : Holding(s) = {} => User(s) = Nobody)'
  BY UserIs, NoUser, PTL

---------------------------------------------------------------------------
(* Steps that leave the store as it is. *)

Mapped == << [s \in Sector |-> Contents(s)], [s \in Sector |-> User(s)], failed >>

LEMMA SameContents ==
  ASSUME IInv, \A s \in Sector : \A v : Holds(s, v) => Holds(s, v)'
  PROVE  \A s \in Sector : Contents(s)' = Contents(s)
  <1> SUFFICES ASSUME NEW s \in Sector PROVE Contents(s)' = Contents(s)
    OBVIOUS
  <1>1. Holds(s, Contents(s))
    BY ContentsHolds DEF IInv, BuffersInOrder
  <1> DEFINE c == Contents(s)
  <1>2. \A v : Holds(s, v) => Contents(s)' = v
    BY HoldsIsContentsNext
  <1> QED BY <1>1, <1>2

LEMMA SameUsers ==
  ASSUME sector' = sector, \A b \in Buf : Owner(b)' = Owner(b)
  PROVE  \A s : User(s)' = User(s)
  <1> SUFFICES ASSUME NEW s PROVE User(s)' = User(s)
    OBVIOUS
  <1>1. Holding(s)' = Holding(s) /\ Holding(s) \subseteq Buf
    BY DEF Holding
  <1>2. Users(s)' = Users(s)
    BY <1>1 DEF Users
  <1> QED BY <1>2 DEF User

LEMMA SameStore ==
  ASSUME IInv, sector' = sector, \A b \in Buf : Owner(b)' = Owner(b),
         \A s \in Sector : \A v : Holds(s, v) => Holds(s, v)',
         failed' = failed
  PROVE  UNCHANGED Mapped
  BY SameContents, SameUsers DEF Mapped

(* Neither the buffers nor the drive change. *)
LEMMA QuietStep ==
  ASSUME IInv, DataInv, HaveIsSynced',
         UNCHANGED << bufs, idequeue, drive, disk, failed >>,
         \A b \in Buf : Owner(b)' = Owner(b),
         \A p \in Proc : pc[p] \in {"iderw", "synced?"} => pc'[p] = pc[p]
  PROVE  DataInv' /\ UNCHANGED Mapped
  <1> USE DEF bufs, DataInv
  <1>1. DirtyIsWritten'
    BY DEF DirtyIsWritten, Owner
  <1>2. ~failed' => CleanIsOnDisk' /\ HeadIsStarted'
    BY DEF CleanIsOnDisk, HeadIsStarted, Synced, OnDisk
  <1>3. \A s \in Sector : \A v : Holds(s, v) => Holds(s, v)'
    BY DEF Holds, OnDisk
  <1> QED BY <1>1, <1>2, <1>3, SameStore

LEMMA InterruptsLeave ==
  ASSUME IInv, DataInv, SpuriousInterrupt \/ IntrNothing, UNCHANGED cacheonly
  PROVE  DataInv' /\ UNCHANGED Mapped
  <1>1. UNCHANGED << bufs, idequeue, drive, disk, failed, pc, mybuf >>
    BY DEF SpuriousInterrupt, IntrNothing
  <1>2. HaveIsSynced' /\ \A b \in Buf : Owner(b)' = Owner(b)
    BY <1>1 DEF DataInv, HaveIsSynced, Synced, bufs, Owner
  <1> QED BY <1>1, <1>2, QuietStep

LEMMA StutterLeaves ==
  ASSUME IInv, DataInv, UNCHANGED vars PROVE DataInv' /\ UNCHANGED Mapped
  <1>1. UNCHANGED << bufs, idequeue, drive, disk, failed, pc, mybuf >>
    BY DEF vars, device
  <1>2. HaveIsSynced' /\ \A b \in Buf : Owner(b)' = Owner(b)
    BY <1>1 DEF DataInv, HaveIsSynced, Synced, bufs, Owner
  <1> QED BY <1>1, <1>2, QuietStep

LEMMA BreadLeaves ==
  ASSUME IInv, DataInv, NEW p \in Proc, NEW s \in Sector, bread(p, s)
  PROVE  DataInv' /\ UNCHANGED Mapped
  <1>1. /\ pc[p] = "out" /\ pc'[p] = "bget" /\ mybuf' = mybuf
        /\ \A q \in Proc : q # p => pc'[q] = pc[q]
        /\ UNCHANGED << bufs, idequeue, drive, disk, failed >>
    BY DEF bread, Goto, device, IInv, BuffersInOrder, TypeOK
  <1>2. HaveIsSynced'
    BY <1>1 DEF DataInv, HaveIsSynced, Synced, bufs
  <1>3. \A b \in Buf : Owner(b)' = Owner(b)
    BY <1>1 DEF Owner
  <1> QED BY <1>1, <1>2, <1>3, QuietStep

LEMMA IderwWokenLeaves ==
  ASSUME IInv, DataInv, NEW p \in Proc, IderwWoken(p), UNCHANGED cacheonly
  PROVE  DataInv' /\ UNCHANGED Mapped
  <1>1. /\ pc[p] = "woken" /\ pc'[p] = "have" /\ mybuf' = mybuf
        /\ Synced(mybuf[p])
        /\ \A q \in Proc : q # p => pc'[q] = pc[q]
        /\ UNCHANGED << bufs, idequeue, drive, disk, failed >>
    BY DEF IderwWoken, Goto, device, IInv, BuffersInOrder, TypeOK, WokenIsSynced
  <1>2. HaveIsSynced'
    BY <1>1 DEF DataInv, HaveIsSynced, Synced, bufs
  <1>3. \A b \in Buf : Owner(b)' = Owner(b)
    BY <1>1 DEF Owner
  <1> QED BY <1>1, <1>2, <1>3, QuietStep

(* A drive that ends a write puts on the disk what was counted as there. *)
LEMMA DriveDoneLeaves ==
  ASSUME IInv, DataInv, DriveDone, UNCHANGED cacheonly
  PROVE  DataInv' /\ UNCHANGED Mapped
  <1>1. /\ UNCHANGED << bufs, idequeue, failed, pc, mybuf >>
        /\ drive.busy /\ ~drive'.busy /\ drive'.sector = drive.sector
        /\ drive.sector \in Sector /\ disk \in [Sector -> Data]
        /\ \/ /\ drive.cmd = "write" /\ drive'.cmd = "write" /\ drive'.data = drive.data
              /\ disk' = [disk EXCEPT ![drive.sector] = drive.data]
           \/ /\ drive.cmd = "read" /\ drive'.cmd = "read"
              /\ drive'.data = disk[drive.sector] /\ disk' = disk
           \/ /\ drive.cmd = "read" /\ drive'.cmd = "error" /\ disk' = disk
    BY DEF DriveDone, IInv, BuffersInOrder, TypeOK, Working
  <1>2. \A s \in Sector : OnDisk(s)' = OnDisk(s)
    BY <1>1 DEF OnDisk
  <1>3. HaveIsSynced' /\ DirtyIsWritten' /\ \A b \in Buf : Owner(b)' = Owner(b)
    BY <1>1 DEF DataInv, HaveIsSynced, DirtyIsWritten, Synced, bufs, Owner
  <1>4. ~failed' => CleanIsOnDisk'
    BY <1>1, <1>2 DEF DataInv, CleanIsOnDisk, Synced, bufs
  <1>5. ~failed' => HeadIsStarted'
    BY <1>1 DEF DataInv, HeadIsStarted, bufs
  <1>6. \A s \in Sector : \A v : Holds(s, v) => Holds(s, v)'
    BY <1>1, <1>2 DEF Holds, bufs
  <1> QED BY <1>1, <1>3, <1>4, <1>5, <1>6, SameStore DEF DataInv, bufs

---------------------------------------------------------------------------
(* Steps by which a process takes a sector, writes it, or gives it back. *)

StoreStep == [Store!Next]_Mapped

LEMMA QuietIsStep == UNCHANGED Mapped => StoreStep
  BY DEF StoreStep, Mapped

(* When a read has failed, nothing is promised any more. *)
LEMMA BrokenIsStep == failed' => StoreStep
  BY DEF StoreStep, Store!Next

LEMMA TakeIsStep ==
  ASSUME NEW p \in Proc, NEW s \in Sector, User(s) = Nobody, User(s)' = p,
         \A t \in Sector : t # s => User(t)' = User(t),
         \A t \in Sector : Contents(t)' = Contents(t),
         failed' = failed
  PROVE  StoreStep
  BY DEF StoreStep, Store!Next, Store!Take

LEMMA GiveIsStep ==
  ASSUME NEW p \in Proc, NEW s \in Sector, User(s) = p, User(s)' = Nobody,
         \A t \in Sector : t # s => User(t)' = User(t),
         \A t \in Sector : Contents(t)' = Contents(t),
         failed' = failed
  PROVE  StoreStep
  BY DEF StoreStep, Store!Next, Store!Give

LEMMA WriteIsStep ==
  ASSUME NEW p \in Proc, NEW s \in Sector, NEW v \in Data,
         User(s) = p, Contents(s)' = v,
         \A t \in Sector : t # s => Contents(t)' = Contents(t),
         \A t \in Sector : User(t)' = User(t),
         failed' = failed
  PROVE  StoreStep
  BY DEF StoreStep, Store!Next, Store!Write

(* The users of other sectors. *)
LEMMA OtherUsers ==
  ASSUME NEW s, NEW b \in Buf, sector' = sector, sector[b] = s,
         \A c \in Buf : c # b => Owner(c)' = Owner(c)
  PROVE  \A t : t # s => User(t)' = User(t)
  <1> SUFFICES ASSUME NEW t, t # s PROVE User(t)' = User(t)
    OBVIOUS
  <1>1. Holding(t)' = Holding(t) /\ \A c \in Holding(t) : c \in Buf /\ c # b
    BY DEF Holding
  <1>2. Users(t)' = Users(t)
    BY <1>1 DEF Users
  <1> QED BY <1>2 DEF User

(* A buffer that is BUSY or not is the same for its contents. *)
LEMMA BusyAside ==
  ASSUME NEW b \in Buf, UNCHANGED << sector, data, drive, disk >>,
         \A c \in Buf : /\ "VALID" \in flags'[c] <=> "VALID" \in flags[c]
                        /\ "DIRTY" \in flags'[c] <=> "DIRTY" \in flags[c]
  PROVE  /\ \A c \in Buf : Synced(c)' <=> Synced(c)
         /\ \A s \in Sector : \A v : Holds(s, v) => Holds(s, v)'
         /\ CleanIsOnDisk => CleanIsOnDisk'
  BY DEF Holds, OnDisk, CleanIsOnDisk, Synced

LEMMA HeadIsQueued ==
  ASSUME IInv, idequeue # << >>
  PROVE  /\ Head(idequeue) \in Buf
         /\ \E p \in Owner(Head(idequeue)) : pc[p] = "synced?"
  <1>1. Head(idequeue) = idequeue[1] /\ 1 \in 1 .. Len(idequeue) /\ Head(idequeue) \in Buf
    BY QueueShrinks DEF IInv, BuffersInOrder, TypeOK
  <1> QED BY <1>1 DEF IInv, BuffersInOrder, QueueIsWaiting, Queued

LEMMA BgetCachedTakes ==
  ASSUME IInv, IInv', DataInv, NEW p \in Proc, BgetCached(p)
  PROVE  DataInv' /\ StoreStep
  <1> USE DEF bufs, device, cacheonly, IInv, BuffersInOrder, Goto
  <1>1. PICK b \in Buf :
          /\ sector[b] = want[p]
          /\ mybuf' = [mybuf EXCEPT ![p] = b]
          /\ \/ /\ ~Busy(b)
                /\ flags' = [flags EXCEPT ![b] = @ \cup {"BUSY"}]
                /\ pc' = [pc EXCEPT ![p] = AfterGet(b, flags[b])]
             \/ /\ Busy(b)
                /\ pc' = [pc EXCEPT ![p] = "bsleep"]
                /\ UNCHANGED flags
    BY DEF BgetCached, Holding
  <1>2. /\ pc[p] = "bget" /\ want[p] \in Sector
        /\ UNCHANGED << sector, data, idequeue, device, cacheonly >>
    BY DEF BgetCached, Working
  <1>3. /\ \A q \in Proc : q # p => pc'[q] = pc[q] /\ mybuf'[q] = mybuf[q]
        /\ mybuf'[p] = b
    BY <1>1 DEF TypeOK
  <1>4. CASE pc' = [pc EXCEPT ![p] = "bsleep"] /\ UNCHANGED flags
    <2>1. pc'[p] = "bsleep"
      BY <1>4 DEF TypeOK
    <2>2. HaveIsSynced' /\ \A c \in Buf : Owner(c)' = Owner(c)
      BY <1>2, <1>3, <1>4, <2>1 DEF Owner, DataInv, HaveIsSynced, Synced
    <2> QED BY <1>2, <1>3, <1>4, <2>2, QuietStep, QuietIsStep
  <1>5. CASE /\ ~Busy(b)
             /\ flags' = [flags EXCEPT ![b] = @ \cup {"BUSY"}]
             /\ pc' = [pc EXCEPT ![p] = AfterGet(b, flags[b])]
    <2>1. /\ pc'[p] \in {"iderw", "have"}
          /\ pc'[p] = "have" => "VALID" \in flags[b]
      BY <1>5 DEF TypeOK, AfterGet
    <2>2. \A c \in Buf : /\ "VALID" \in flags'[c] <=> "VALID" \in flags[c]
                         /\ "DIRTY" \in flags'[c] <=> "DIRTY" \in flags[c]
      BY <1>5 DEF TypeOK
    <2>3. Owner(b) = {} /\ "DIRTY" \notin flags[b]
      BY <1>5 DEF OneOwner, DataInv, DirtyIsWritten
    <2>4. /\ Owner(b)' = {p}
          /\ \A c \in Buf : c # b => Owner(c)' = Owner(c)
      BY <1>2, <1>3, <2>1, <2>3 DEF Owner
    <2>5. /\ \A c \in Buf : Synced(c)' <=> Synced(c)
          /\ \A s \in Sector : \A v : Holds(s, v) => Holds(s, v)'
          /\ CleanIsOnDisk => CleanIsOnDisk'
      BY <1>2, <2>2, BusyAside
    <2>6. HaveIsSynced'
      <3> SUFFICES ASSUME NEW q \in Proc, pc'[q] = "have"
                   PROVE  "VALID" \in flags'[mybuf'[q]] /\ "DIRTY" \notin flags'[mybuf'[q]]
        BY DEF HaveIsSynced, Synced
      <3>1. CASE q = p
        BY <1>3, <2>1, <2>2, <2>3, <3>1 DEF Synced
      <3>2. CASE q # p
        <4>1. pc[q] = "have" /\ mybuf'[q] = mybuf[q] /\ mybuf[q] \in Buf
          BY <1>3, <3>2 DEF Working
        <4> QED BY <2>2, <4>1 DEF DataInv, HaveIsSynced, Synced
      <3> QED BY <3>1, <3>2
    <2>7. DirtyIsWritten'
      BY <1>2, <1>3, <2>2, <2>3, <2>4 DEF DataInv, DirtyIsWritten, Owner
    <2>8. ~failed' => HeadIsStarted'
      BY <1>2, <2>2, HeadIsQueued DEF DataInv, HeadIsStarted
    <2>9. User(want[p]) = Nobody /\ User(want[p])' = p
      <3>1. sector'[b] = want[p] /\ p \in Owner(b)'
        BY <1>1, <1>2, <2>4
      <3> QED BY <1>1, <1>2, <2>3, <3>1, UserIs, UserNext
    <2>10. \A t : t # want[p] => User(t)' = User(t)
      BY <1>1, <1>2, <2>4, OtherUsers
    <2>11. StoreStep
      BY <1>2, <2>5, <2>9, <2>10, SameContents, TakeIsStep
    <2> QED BY <1>2, <2>5, <2>6, <2>7, <2>8, <2>11 DEF DataInv
  <1> QED BY <1>1, <1>4, <1>5

LEMMA BgetFreshTakes ==
  ASSUME IInv, IInv', DataInv, NEW p \in Proc, BgetFresh(p)
  PROVE  DataInv' /\ StoreStep
  <1> USE DEF bufs, device, cacheonly, IInv, BuffersInOrder, Goto
  <1>1. PICK b \in Buf :
          /\ ~Busy(b)
          /\ sector' = [sector EXCEPT ![b] = want[p]]
          /\ flags' = [flags EXCEPT ![b] = {"BUSY"}]
          /\ mybuf' = [mybuf EXCEPT ![p] = b]
          /\ pc' = [pc EXCEPT ![p] = "iderw"]
    <2>1. PICK i \in 1 .. NBUF :
            /\ ~Busy(lru[i])
            /\ sector' = [sector EXCEPT ![lru[i]] = want[p]]
            /\ flags' = [flags EXCEPT ![lru[i]] = {"BUSY"}]
            /\ mybuf' = [mybuf EXCEPT ![p] = lru[i]]
            /\ pc' = [pc EXCEPT ![p] = "iderw"]
      BY DEF BgetFresh, FreshFlags, AfterGet
    <2>2. lru[i] \in Buf
      BY <2>1 DEF TypeOK, Order
    <2> QED BY <2>1, <2>2
  <1>2. /\ pc[p] = "bget" /\ want[p] \in Sector
        /\ \A c \in Buf : sector[c] # want[p]
        /\ UNCHANGED << data, idequeue, device, cacheonly >>
    BY DEF BgetFresh, NotCached, Holding, Working
  <1>3. /\ \A q \in Proc : q # p => pc'[q] = pc[q] /\ mybuf'[q] = mybuf[q]
        /\ mybuf'[p] = b /\ pc'[p] = "iderw"
    BY <1>1 DEF TypeOK
  <1>4. /\ flags'[b] = {"BUSY"} /\ sector'[b] = want[p]
        /\ \A c \in Buf : c # b => flags'[c] = flags[c] /\ sector'[c] = sector[c]
    BY <1>1 DEF TypeOK
  <1>5. Owner(b) = {} /\ "DIRTY" \notin flags[b]
    BY <1>1 DEF OneOwner, DataInv, DirtyIsWritten
  <1>6. /\ Owner(b)' = {p}
        /\ \A c \in Buf : c # b => Owner(c)' = Owner(c)
    BY <1>2, <1>3, <1>5 DEF Owner
  <1>7. HaveIsSynced'
    <2> SUFFICES ASSUME NEW q \in Proc, pc'[q] = "have"
                 PROVE  "VALID" \in flags'[mybuf'[q]] /\ "DIRTY" \notin flags'[mybuf'[q]]
      BY DEF HaveIsSynced, Synced
    <2>1. q # p /\ pc[q] = "have" /\ mybuf'[q] = mybuf[q] /\ mybuf[q] \in Buf
      BY <1>3 DEF Working
    <2>2. mybuf[q] # b
      BY <1>5, <2>1 DEF Owner
    <2> QED BY <1>4, <2>1, <2>2 DEF DataInv, HaveIsSynced, Synced
  <1>8. DirtyIsWritten'
    BY <1>2, <1>3, <1>4, <1>6 DEF DataInv, DirtyIsWritten, Owner
  <1>9. ~failed' => CleanIsOnDisk'
    BY <1>2, <1>4 DEF DataInv, CleanIsOnDisk, Synced, OnDisk
  <1>10. ~failed' => HeadIsStarted'
    <2>1. CASE idequeue = << >>
      BY <1>2, <2>1 DEF HeadIsStarted
    <2>2. CASE idequeue # << >>
      <3>1. Head(idequeue) \in Buf /\ Head(idequeue) # b
        BY <1>5, <2>2, HeadIsQueued
      <3> QED BY <1>2, <1>4, <3>1 DEF DataInv, HeadIsStarted
    <2> QED BY <2>1, <2>2
  <1>11. DataInv'
    BY <1>7, <1>8, <1>9, <1>10 DEF DataInv
  <1>12. CASE ~failed
    <2>1. ASSUME NEW s \in Sector, NEW v, Holds(s, v) PROVE Holds(s, v)'
      <3>1. OnDisk(s)' = OnDisk(s)
        BY <1>2 DEF OnDisk
      <3>2. CASE s = want[p]
        <4>1. OnDisk(s) = v
          BY <1>2, <2>1, <3>2 DEF Holds
        <4>2. \A c \in Buf : c # b => sector'[c] # s
          BY <1>2, <1>4, <3>2
        <4> QED BY <1>4, <3>1, <4>1, <4>2 DEF Holds
      <3>3. CASE s # want[p] /\ sector[b] # s
        BY <1>2, <1>4, <2>1, <3>1, <3>3 DEF Holds
      <3>4. CASE s # want[p] /\ sector[b] = s
        <4>1. \A c \in Buf : sector'[c] # s
          BY <1>4, <3>4, IdeAssumption DEF OneBufferPerSector
        <4>2. CASE "VALID" \in flags[b]
          <5>1. data[b] = v
            BY <2>1, <3>4, <4>2 DEF Holds
          <5>2. data[b] = OnDisk(s)
            BY <1>5, <1>12, <3>4, <4>2 DEF DataInv, CleanIsOnDisk, Synced
          <5> QED BY <3>1, <4>1, <5>1, <5>2 DEF Holds
        <4>3. CASE "VALID" \notin flags[b]
          <5>1. \A c \in Buf : c # b => sector[c] # s
            BY <3>4, IdeAssumption DEF OneBufferPerSector
          <5>2. OnDisk(s) = v
            BY <2>1, <4>3, <5>1 DEF Holds
          <5> QED BY <3>1, <4>1, <5>2 DEF Holds
        <4> QED BY <4>2, <4>3
      <3> QED BY <3>2, <3>3, <3>4
    <2>2. User(want[p]) = Nobody
      BY <1>2, NoUser DEF Holding
    <2>3. User(want[p])' = p
      <3>1. p \in Owner(b)'
        BY <1>6
      <3> QED BY <1>2, <1>4, <3>1, UserNext
    <2>4. ASSUME NEW t \in Sector, t # want[p] PROVE User(t)' = User(t)
      <3>1. Users(t)' = Users(t)
        <4>1. \A c \in Buf : c # b => (c \in Holding(t)' <=> c \in Holding(t))
          BY <1>4 DEF Holding
        <4>2. b \notin Holding(t)'
          BY <1>4, <2>4 DEF Holding
        <4> QED BY <1>5, <1>6, <4>1, <4>2 DEF Users, Holding
      <3> QED BY <3>1 DEF User
    <2>5. \A s \in Sector : Contents(s)' = Contents(s)
      BY <2>1, SameContents
    <2>6. failed' = failed
      BY <1>2
    <2> QED BY <1>2, <1>11, <2>2, <2>3, <2>4, <2>5, <2>6, TakeIsStep
  <1>13. CASE failed
    BY <1>2, <1>11, <1>13, BrokenIsStep
  <1> QED BY <1>12, <1>13

LEMMA BwriteWrites ==
  ASSUME IInv, IInv', DataInv, NEW p \in Proc, NEW v \in Data, bwrite(p, v)
  PROVE  DataInv' /\ StoreStep
  <1> USE DEF bufs, device, cacheonly, IInv, BuffersInOrder, Goto
  <1>1. PICK b \in Buf : b = mybuf[p]
    BY DEF bwrite, Working
  <1>2. /\ pc[p] = "have" /\ pc' = [pc EXCEPT ![p] = "iderw"]
        /\ data' = [data EXCEPT ![b] = v]
        /\ flags' = [flags EXCEPT ![b] = @ \cup {"DIRTY"}]
        /\ UNCHANGED << sector, idequeue, device, mybuf, cacheonly >>
    BY <1>1 DEF bwrite
  <1>3. pc'[p] = "iderw" /\ \A q \in Proc : q # p => pc'[q] = pc[q]
    BY <1>2 DEF TypeOK
  <1>4. /\ flags'[b] = flags[b] \cup {"DIRTY"} /\ data'[b] = v
        /\ \A c \in Buf : c # b => flags'[c] = flags[c] /\ data'[c] = data[c]
    BY <1>2 DEF TypeOK
  <1>5. Owner(b) = {p} /\ sector[b] = want[p] /\ want[p] \in Sector
    BY <1>1, <1>2 DEF Owner, OneOwner, Working
  <1>6. \A c \in Buf : Owner(c)' = Owner(c)
    BY <1>1, <1>2, <1>3 DEF Owner
  <1>7. "VALID" \in flags[b]
    BY <1>1, <1>2 DEF DataInv, HaveIsSynced, Synced
  <1>8. HaveIsSynced'
    <2> SUFFICES ASSUME NEW q \in Proc, pc'[q] = "have"
                 PROVE  "VALID" \in flags'[mybuf'[q]] /\ "DIRTY" \notin flags'[mybuf'[q]]
      BY DEF HaveIsSynced, Synced
    <2>1. q # p /\ pc[q] = "have" /\ mybuf'[q] = mybuf[q] /\ mybuf[q] \in Buf
      BY <1>2, <1>3 DEF Working
    <2>2. mybuf[q] # b
      BY <1>5, <2>1 DEF Owner
    <2> QED BY <1>4, <2>1, <2>2 DEF DataInv, HaveIsSynced, Synced
  <1>9. DirtyIsWritten'
    <2> SUFFICES ASSUME NEW c \in Buf, "DIRTY" \in flags'[c]
                 PROVE  /\ "VALID" \in flags'[c]
                        /\ \E q \in Owner(c)' : pc'[q] \in {"iderw", "synced?"}
      BY DEF DirtyIsWritten
    <2>1. CASE c = b
      BY <1>3, <1>4, <1>5, <1>6, <1>7, <2>1
    <2>2. CASE c # b
      <3>1. "VALID" \in flags[c] /\ \E q \in Owner(c) : pc[q] \in {"iderw", "synced?"}
        BY <1>4, <2>2 DEF DataInv, DirtyIsWritten
      <3>2. \A q \in Owner(c) : q \in Proc /\ q # p
        BY <1>1, <2>2 DEF Owner
      <3> QED BY <1>3, <1>4, <1>6, <2>2, <3>1, <3>2
    <2> QED BY <2>1, <2>2
  <1>10. ~failed' => CleanIsOnDisk'
    BY <1>2, <1>4 DEF DataInv, CleanIsOnDisk, Synced, OnDisk
  <1>11. ~failed' => HeadIsStarted'
    <2>1. CASE idequeue = << >>
      BY <1>2, <2>1 DEF HeadIsStarted
    <2>2. CASE idequeue # << >>
      <3>1. Head(idequeue) \in Buf /\ Head(idequeue) # b
        BY <1>2, <1>5, <2>2, HeadIsQueued
      <3> QED BY <1>2, <1>4, <3>1 DEF DataInv, HeadIsStarted
    <2> QED BY <2>1, <2>2
  <1>12. Contents(want[p])' = v
    <2>1. \A c \in Buf : sector[c] = want[p] => c = b
      BY <1>5, IdeAssumption DEF OneBufferPerSector
    <2>2. Holds(want[p], v)'
      BY <1>2, <1>4, <1>5, <1>7, <2>1 DEF Holds
    <2>3. want' = want
      BY <1>2
    <2> QED BY <2>2, <2>3, HoldsIsContentsNext
  <1>13. ASSUME NEW t \in Sector, t # want[p] PROVE Contents(t)' = Contents(t)
    <2>1. Holds(t, Contents(t))
      BY ContentsHolds
    <2> DEFINE u == Contents(t)
    <2>2. \A w : Holds(t, w) => Holds(t, w)'
      BY <1>2, <1>4, <1>5, <1>13 DEF Holds, OnDisk
    <2>3. \A w : Holds(t, w) => Contents(t)' = w
      BY <2>2, HoldsIsContentsNext
    <2> QED BY <2>1, <2>3
  <1>14. User(want[p]) = p /\ \A t : User(t)' = User(t)
    BY <1>2, <1>5, <1>6, UserIs, SameUsers
  <1>15. StoreStep
    BY <1>2, <1>5, <1>12, <1>13, <1>14, WriteIsStep
  <1> QED BY <1>8, <1>9, <1>10, <1>11, <1>15 DEF DataInv

LEMMA BrelseGives ==
  ASSUME IInv, IInv', DataInv, NEW p \in Proc, brelse(p)
  PROVE  DataInv' /\ StoreStep
  <1> USE DEF bufs, device, cacheonly, IInv, BuffersInOrder
  <1>1. PICK b \in Buf : b = mybuf[p]
    BY DEF brelse, Working
  <1>2. /\ pc[p] = "have" /\ pc' = [Woken(b) EXCEPT ![p] = "out"]
        /\ flags' = [flags EXCEPT ![b] = @ \ {"BUSY"}]
        /\ mybuf' = [mybuf EXCEPT ![p] = Nobody]
        /\ UNCHANGED << sector, data, idequeue, device >>
    BY <1>1 DEF brelse
  <1>3. Owner(b) = {p} /\ sector[b] = want[p] /\ want[p] \in Sector
    BY <1>1, <1>2 DEF Owner, OneOwner, Working
  <1>4. /\ pc'[p] = "out" /\ mybuf'[p] = Nobody /\ Nobody \notin Buf
        /\ \A q \in Proc : q # p => mybuf'[q] = mybuf[q] /\ pc'[q] = Woken(b)[q]
    BY <1>2, IdeAssumption DEF TypeOK, Woken
  <1>5. \A c \in Buf : /\ "VALID" \in flags'[c] <=> "VALID" \in flags[c]
                       /\ "DIRTY" \in flags'[c] <=> "DIRTY" \in flags[c]
    BY <1>2 DEF TypeOK
  <1>6. Owner(b)' = {}
    <2>1. "BUSY" \notin flags'[b]
      BY <1>2 DEF TypeOK
    <2> QED BY <2>1 DEF OneOwner, Busy
  <1>7. ASSUME NEW q \in Proc, q # p, mybuf[q] # b
        PROVE  pc'[q] = pc[q] /\ mybuf'[q] = mybuf[q]
    BY <1>4, <1>7, WokenOne
  <1>8. ASSUME NEW c \in Buf, c # b PROVE Owner(c)' = Owner(c)
    <2>1. ASSUME NEW q \in Proc PROVE q \in Owner(c)' <=> q \in Owner(c)
      <3>1. CASE q = p
        BY <1>1, <1>4, <1>8, <3>1 DEF Owner
      <3>2. CASE q # p /\ mybuf[q] = b
        BY <1>4, <1>8, <3>2 DEF Owner
      <3>3. CASE q # p /\ mybuf[q] # b
        BY <1>7, <3>3 DEF Owner
      <3> QED BY <3>1, <3>2, <3>3
    <2> QED BY <2>1 DEF Owner
  <1>9. HaveIsSynced'
    <2> SUFFICES ASSUME NEW q \in Proc, pc'[q] = "have"
                 PROVE  "VALID" \in flags'[mybuf'[q]] /\ "DIRTY" \notin flags'[mybuf'[q]]
      BY DEF HaveIsSynced, Synced
    <2>1. q # p /\ mybuf'[q] = mybuf[q] /\ mybuf'[q] \in Buf
      BY <1>4 DEF Working
    <2>2. mybuf[q] # b
      BY <1>6, <2>1 DEF Owner
    <2>3. pc[q] = "have"
      BY <1>7, <2>1, <2>2
    <2> QED BY <1>5, <2>1, <2>3 DEF DataInv, HaveIsSynced, Synced
  <1>10. DirtyIsWritten'
    <2> SUFFICES ASSUME NEW c \in Buf, "DIRTY" \in flags'[c]
                 PROVE  /\ "VALID" \in flags'[c]
                        /\ \E q \in Owner(c)' : pc'[q] \in {"iderw", "synced?"}
      BY DEF DirtyIsWritten
    <2>1. PICK q \in Owner(c) : "VALID" \in flags[c] /\ pc[q] \in {"iderw", "synced?"}
      BY <1>5 DEF DataInv, DirtyIsWritten
    <2>2. q \in Proc /\ q # p /\ c # b /\ mybuf[q] = c
      BY <1>2, <1>3, <2>1 DEF Owner
    <2>3. pc'[q] = pc[q] /\ q \in Owner(c)'
      BY <1>7, <1>8, <2>1, <2>2
    <2> QED BY <1>5, <2>1, <2>3
  <1>11. /\ \A s \in Sector : \A v : Holds(s, v) => Holds(s, v)'
         /\ CleanIsOnDisk => CleanIsOnDisk'
    BY <1>2, <1>5, BusyAside
  <1>12. ~failed' => HeadIsStarted'
    BY <1>2, <1>5, HeadIsQueued DEF DataInv, HeadIsStarted
  <1>13. PICK s \in Sector : s = want[p]
    BY <1>3
  <1>14. User(s) = p /\ User(s)' = Nobody
    <2>1. sector'[b] = s /\ User(s) = p
      BY <1>2, <1>3, <1>13, UserIs
    <2> QED BY <1>6, <2>1, UserNext
  <1>15. StoreStep
    <2>1. \A t : t # s => User(t)' = User(t)
      BY <1>2, <1>3, <1>8, <1>13, OtherUsers
    <2>2. \A t \in Sector : Contents(t)' = Contents(t)
      BY <1>11, SameContents
    <2> QED BY <1>2, <1>14, <2>1, <2>2, GiveIsStep
  <1> QED BY <1>2, <1>9, <1>10, <1>11, <1>12, <1>15 DEF DataInv

(* Whoever has a buffer on its way to the disk keeps it. *)
LEMMA IderwLeaves ==
  ASSUME IInv, DataInv, NEW p \in Proc, iderw(p), UNCHANGED cacheonly
  PROVE  DataInv' /\ UNCHANGED Mapped
  <1> USE DEF bufs, cacheonly, IInv, BuffersInOrder, Goto
  <1>1. PICK b \in Buf : b = mybuf[p]
    BY DEF iderw, Working
  <1>2. /\ pc[p] = "iderw" /\ pc' = [pc EXCEPT ![p] = "synced?"] /\ ~Synced(b)
        /\ idequeue' = Append(idequeue, b)
        /\ UNCHANGED << bufs, irq, spurious, disk, failed, mybuf >>
        /\ IF idequeue = << >> THEN ~drive.busy /\ drive' = Command(b, flags[b])
                               ELSE drive' = drive
    BY <1>1 DEF iderw
  <1>3. pc'[p] = "synced?" /\ \A q \in Proc : q # p => pc'[q] = pc[q]
    BY <1>2 DEF TypeOK
  <1>4. p \in Owner(b) /\ sector[b] = want[p] /\ want[p] \in Sector
    BY <1>1, <1>2 DEF Owner, OneOwner, Working
  <1>5. \A c \in Buf : Owner(c)' = Owner(c)
    BY <1>2, <1>3 DEF Owner
  <1>6. \A c \in Buf : sector[c] = sector[b] => c = b
    BY <1>4, IdeAssumption DEF OneBufferPerSector
  <1>7. "DIRTY" \in flags[b] => "VALID" \in flags[b]
    BY DEF DataInv, DirtyIsWritten
  <1>8. /\ HaveIsSynced' /\ DirtyIsWritten'
    BY <1>2, <1>3, <1>5 DEF DataInv, HaveIsSynced, DirtyIsWritten, Synced, Owner
  <1>9. \A s \in Sector : s # sector[b] \/ "DIRTY" \notin flags[b] => OnDisk(s)' = OnDisk(s)
    BY <1>2 DEF OnDisk, Command
  <1>10. ~failed' => CleanIsOnDisk'
    <2> SUFFICES ASSUME ~failed, NEW c \in Buf, Synced(c)
                 PROVE  sector[c] \in Sector /\ data[c] = OnDisk(sector[c])'
      BY <1>2 DEF CleanIsOnDisk, Synced
    <2>1. sector[c] \in Sector /\ data[c] = OnDisk(sector[c]) /\ sector[c] # sector[b]
      BY <1>2, <1>6 DEF DataInv, CleanIsOnDisk
    <2> QED BY <1>2, <1>9, <2>1
  <1>11. ~failed' => HeadIsStarted'
    <2>1. CASE idequeue = << >>
      <3>1. Head(idequeue') = b
        BY <1>2, <2>1
      <3>2. /\ drive'.sector = sector[b] /\ drive'.busy
            /\ "DIRTY" \in flags[b] => drive'.cmd = "write" /\ drive'.data = data[b]
            /\ "DIRTY" \notin flags[b] => drive'.cmd = "read"
        BY <1>2, <2>1 DEF Command
      <3> QED BY <1>2, <3>1, <3>2 DEF HeadIsStarted
    <2>2. CASE idequeue # << >>
      <3>1. Head(idequeue') = Head(idequeue)
        BY <1>2, <2>2 DEF TypeOK
      <3> QED BY <1>2, <2>2, <3>1 DEF DataInv, HeadIsStarted
    <2> QED BY <2>1, <2>2
  <1>12. ASSUME NEW s \in Sector, NEW v, Holds(s, v) PROVE Holds(s, v)'
    BY <1>2, <1>7, <1>9, <1>12 DEF Holds
  <1> QED BY <1>2, <1>5, <1>8, <1>10, <1>11, <1>12, SameStore DEF DataInv

(* What ideintr copies into a buffer is what the disk has; what it marks   *)
(* as written is on the disk, or will be.                                  *)
LEMMA IdeintrLeaves ==
  ASSUME IInv, DataInv, ideintr, UNCHANGED cacheonly
  PROVE  DataInv' /\ StoreStep
  <1> DEFINE next == Tail(idequeue)
             n    == Head(next)
  <1> USE DEF bufs, cacheonly, IInv, BuffersInOrder
  <1>1. PICK b \in Buf : b = Head(idequeue) /\ b = idequeue[1]
    BY QueueShrinks DEF ideintr, TypeOK
  <1>2. /\ idequeue # << >> /\ idequeue' = next
        /\ flags' = [flags EXCEPT ![b] = (@ \cup {"VALID"}) \ {"DIRTY"}]
        /\ pc' = Woken(b)
        /\ UNCHANGED << sector, disk, mybuf >>
        /\ "DIRTY" \notin flags[b] => ~drive.busy
        /\ IF next # << >> THEN ~drive.busy /\ drive' = Command(n, flags[n])
                           ELSE drive' = drive
        /\ failed' = (failed \/ ("DIRTY" \notin flags[b] /\ drive.cmd = "error"))
        /\ IF "DIRTY" \notin flags[b] /\ drive.cmd # "error"
           THEN data' = [data EXCEPT ![b] = drive.data] ELSE data' = data
    BY <1>1 DEF ideintr, NextStarts
  <1>3. /\ flags'[b] = (flags[b] \cup {"VALID"}) \ {"DIRTY"}
        /\ \A c \in Buf : c # b => flags'[c] = flags[c] /\ data'[c] = data[c]
    BY <1>2 DEF TypeOK
  <1>4. PICK p \in Owner(b) : pc[p] = "synced?"
    BY <1>1, <1>2, HeadIsQueued
  <1>5. p \in Proc /\ Owner(b) = {p} /\ sector[b] = want[p] /\ want[p] \in Sector
    BY <1>4 DEF Owner, OneOwner, Working
  <1>6. ASSUME NEW q \in Proc
        PROVE  /\ mybuf[q] # b => pc'[q] = pc[q]
               /\ pc[q] \notin {"synced?", "bsleep"} => pc'[q] = pc[q]
               /\ mybuf[q] = b /\ pc[q] = "synced?" => pc'[q] = "woken"
               /\ mybuf[q] = b /\ pc[q] = "bsleep" => pc'[q] = "bget"
    BY <1>2, WokenOne
  <1>7. \A c \in Buf : Owner(c)' = Owner(c)
    BY <1>2, <1>6 DEF Owner
  <1>8. HaveIsSynced'
    <2> SUFFICES ASSUME NEW q \in Proc, pc'[q] = "have"
                 PROVE  "VALID" \in flags'[mybuf'[q]] /\ "DIRTY" \notin flags'[mybuf'[q]]
      BY DEF HaveIsSynced, Synced
    <2>1. pc[q] = "have" /\ mybuf[q] \in Buf
      BY <1>6 DEF TypeOK, Working
    <2>2. mybuf[q] # b
      BY <1>4, <1>5, <2>1 DEF Owner
    <2> QED BY <1>2, <1>3, <2>1, <2>2 DEF DataInv, HaveIsSynced, Synced
  <1>9. DirtyIsWritten'
    <2> SUFFICES ASSUME NEW c \in Buf, "DIRTY" \in flags'[c]
                 PROVE  /\ "VALID" \in flags'[c]
                        /\ \E q \in Owner(c)' : pc'[q] \in {"iderw", "synced?"}
      BY DEF DirtyIsWritten
    <2>1. c # b
      BY <1>3
    <2>2. PICK q \in Owner(c) : "VALID" \in flags[c] /\ pc[q] \in {"iderw", "synced?"}
      BY <1>3, <2>1 DEF DataInv, DirtyIsWritten
    <2>3. q \in Proc /\ mybuf[q] = c
      BY <2>2 DEF Owner
    <2> QED BY <1>3, <1>6, <1>7, <2>1, <2>2, <2>3
  <1>10. CASE failed'
    BY <1>8, <1>9, <1>10, BrokenIsStep DEF DataInv
  <1>11. CASE ~failed'
    <2>1. /\ ~failed /\ failed' = failed /\ CleanIsOnDisk /\ HeadIsStarted
          /\ "DIRTY" \notin flags[b] => drive.cmd = "read"
      <3>1. ~failed /\ failed' = failed
        BY <1>2, <1>11 DEF TypeOK
      <3>2. "DIRTY" \notin flags[b] => drive.cmd # "error"
        BY <1>2, <1>11
      <3> QED BY <1>1, <1>2, <3>1, <3>2 DEF DataInv, HeadIsStarted
    <2>2. /\ drive.sector = sector[b]
          /\ "DIRTY" \in flags[b] =>
               /\ data'[b] = data[b] /\ drive.cmd = "write" /\ drive.data = data[b]
               /\ ~drive.busy => disk[sector[b]] = data[b]
          /\ "DIRTY" \notin flags[b] =>
               data'[b] = disk[sector[b]] /\ drive.cmd = "read" /\ ~drive.busy
      BY <1>1, <1>2, <2>1 DEF HeadIsStarted, TypeOK
    <2>3. data'[b] = OnDisk(sector[b])
      BY <2>2 DEF OnDisk
    (* The next buffer is another one, of another sector. *)
    <2>4. next # << >> => /\ n \in Buf /\ n # b /\ sector[n] \in Sector
                          /\ \A c \in Buf : sector[c] = sector[n] => c = n
      <3> SUFFICES ASSUME next # << >>
                   PROVE  /\ n \in Buf /\ n # b /\ sector[n] \in Sector
                          /\ \A c \in Buf : sector[c] = sector[n] => c = n
        OBVIOUS
      <3>1. next \in Seq(Buf) /\ Len(next) = Len(idequeue) - 1 /\ Len(idequeue) \in Nat
            /\ \A i \in 1 .. Len(idequeue) - 1 : next[i] = idequeue[i + 1]
        BY <1>2, QueueShrinks DEF TypeOK
      <3>2. n \in Buf /\ n = next[1] /\ Len(next) >= 1
        BY <3>1, QueueShrinks
      <3>3. n = idequeue[2] /\ 1 \in 1 .. Len(idequeue) /\ 2 \in 1 .. Len(idequeue)
        BY <3>1, <3>2
      <3>4. n # b /\ n \in Queued
        BY <1>1, <3>3 DEF QueueIsWaiting, Queued
      <3>5. PICK q \in Owner(n) : pc[q] = "synced?"
        BY <3>2, <3>4 DEF QueueIsWaiting
      <3>6. sector[n] = want[q] /\ want[q] \in Sector
        BY <3>2, <3>5 DEF OneOwner, Owner, Working
      <3> QED BY <3>2, <3>4, <3>6, IdeAssumption DEF OneBufferPerSector
    <2>5. /\ next # << >> /\ "DIRTY" \in flags[n] => "VALID" \in flags[n]
          /\ next # << >> => flags'[n] = flags[n] /\ data'[n] = data[n]
      BY <1>3, <2>4 DEF DataInv, DirtyIsWritten
    <2>6. ASSUME NEW s \in Sector,
                 next = << >> \/ s # sector[n] \/ "DIRTY" \notin flags[n]
          PROVE  OnDisk(s)' = OnDisk(s)
      BY <1>2, <2>6 DEF OnDisk, Command
    <2>7. CleanIsOnDisk'
      <3> SUFFICES ASSUME NEW c \in Buf, "VALID" \in flags'[c], "DIRTY" \notin flags'[c]
                   PROVE  sector[c] \in Sector /\ data'[c] = OnDisk(sector[c])'
        BY <1>2 DEF CleanIsOnDisk, Synced
      <3>1. sector[c] \in Sector /\ data'[c] = OnDisk(sector[c])
        BY <1>3, <1>5, <2>1, <2>3 DEF CleanIsOnDisk, Synced
      <3>2. next = << >> \/ sector[c] # sector[n] \/ "DIRTY" \notin flags[n]
        BY <2>4, <2>5
      <3> QED BY <1>2, <2>6, <3>1, <3>2
    <2>8. HeadIsStarted'
      <3>1. CASE next = << >>
        BY <1>2, <3>1 DEF HeadIsStarted
      <3>2. CASE next # << >>
        <4>1. /\ drive'.sector = sector[n] /\ drive'.busy
              /\ "DIRTY" \in flags[n] => drive'.cmd = "write" /\ drive'.data = data[n]
              /\ "DIRTY" \notin flags[n] => drive'.cmd = "read"
          BY <1>2, <3>2 DEF Command
        <4> QED BY <1>2, <2>5, <3>2, <4>1 DEF HeadIsStarted
      <3> QED BY <3>1, <3>2
    <2>9. ASSUME NEW s \in Sector, NEW v, Holds(s, v) PROVE Holds(s, v)'
      <3>1. ASSUME NEW c \in Buf, sector[c] = s, "VALID" \in flags'[c]
            PROVE  data'[c] = v
        <4>1. CASE c = b /\ "DIRTY" \in flags[b]
          BY <2>2, <2>9, <3>1, <4>1 DEF DataInv, DirtyIsWritten, Holds
        <4>2. CASE c = b /\ "DIRTY" \notin flags[b]
          <5>1. CASE "VALID" \in flags[b]
            <6>1. data[b] = OnDisk(s) /\ data[b] = v
              BY <2>1, <2>9, <3>1, <4>2, <5>1 DEF CleanIsOnDisk, Synced, Holds
            <6> QED BY <2>3, <3>1, <4>2, <6>1
          <5>2. CASE "VALID" \notin flags[b]
            <6>1. \A a \in Buf : sector[a] = s => a = b
              BY <3>1, <4>2, IdeAssumption DEF OneBufferPerSector
            <6>2. OnDisk(s) = v
              BY <2>9, <5>2, <6>1 DEF Holds
            <6> QED BY <2>3, <3>1, <4>2, <6>2
          <5> QED BY <5>1, <5>2
        <4>3. CASE c # b
          BY <1>3, <2>9, <3>1, <4>3 DEF Holds
        <4> QED BY <4>1, <4>2, <4>3
      <3>2. ASSUME \A c \in Buf : ~(sector[c] = s /\ "VALID" \in flags'[c])
            PROVE  OnDisk(s)' = v
        <4>1. \A c \in Buf : ~(sector[c] = s /\ "VALID" \in flags[c])
          BY <1>3, <3>2
        <4>2. OnDisk(s) = v
          BY <2>9, <4>1 DEF Holds
        <4>3. next = << >> \/ s # sector[n] \/ "DIRTY" \notin flags[n]
          BY <2>4, <2>5, <4>1
        <4> QED BY <2>6, <4>2, <4>3
      <3> QED BY <1>2, <3>1, <3>2 DEF Holds
    <2>10. UNCHANGED Mapped
      BY <1>2, <1>7, <2>1, <2>9, SameStore
    <2> QED BY <1>8, <1>9, <2>7, <2>8, <2>10, QuietIsStep DEF DataInv
  <1> QED BY <1>10, <1>11

---------------------------------------------------------------------------
LEMMA FirstStore == Init => DataInv /\ Store!Init
  <1> SUFFICES ASSUME Init PROVE DataInv /\ Store!Init
    OBVIOUS
  <1> USE DEF Init, IdeInit
  <1>1. DataInv
    BY DEF DataInv, HaveIsSynced, DirtyIsWritten, CleanIsOnDisk, HeadIsStarted, Synced
  <1>2. ASSUME NEW s \in Sector PROVE Contents(s) = Blank
    <2>1. Holds(s, Blank)
      BY DEF Holds, OnDisk
    <2> QED BY <2>1, HoldsIsContents
  <1>3. ASSUME NEW s \in Sector PROVE User(s) = Nobody
    BY IdeAssumption, NoUser DEF Holding
  <1> QED BY <1>1, <1>2, <1>3 DEF Store!Init

LEMMA NextStore == IInv /\ IInv' /\ DataInv /\ [Next]_vars => DataInv' /\ StoreStep
  <1> SUFFICES ASSUME IInv, IInv', DataInv, [Next]_vars PROVE DataInv' /\ StoreStep
    OBVIOUS
  <1>1. CASE IdeNext /\ UNCHANGED cacheonly
    BY <1>1, DriveDoneLeaves, InterruptsLeave, IdeintrLeaves, IderwLeaves,
       IderwWokenLeaves, QuietIsStep DEF IdeNext
  <1>2. CASE \E p \in Proc : BgetCached(p) \/ BgetFresh(p) \/ Work(p)
    BY <1>2, BgetCachedTakes, BgetFreshTakes, BreadLeaves, BwriteWrites, BrelseGives,
       QuietIsStep DEF Work
  <1>3. CASE UNCHANGED vars
    BY <1>3, StutterLeaves, QuietIsStep
  <1> QED BY <1>1, <1>2, <1>3 DEF Next

(* Whatever processes and interrupts do, there is one store of blocks with *)
(* one user each, in which every block has what was written to it last,    *)
(* also while it moves between buffer, queue, drive and disk - until the   *)
(* drive fails to read (bread, bwrite, brelse over iderw, ideintr).        *)
THEOREM StoreImplemented == Spec => ImplementsStore
  <1>1. Init => IInv /\ DataInv /\ Store!Init
    BY InitIInv, FirstStore
  <1>2. IInv /\ DataInv /\ [Next]_vars => IInv' /\ DataInv' /\ [Store!Next]_Mapped
    BY NextIInv, NextStore DEF StoreStep
  <1> QED BY <1>1, <1>2, PTL DEF Spec, ImplementsStore, Store!Spec, Mapped
---------------------------------------------------------------------------
(* Spinlock.  What a list of instructions says about the thread that has   *)
(* it left: how deep in pushcli it is (Net), which locks it has (Ins), how *)
(* the code it is in was entered (Via), and what it is still going to do.  *)

Ops == {"pushcli", "xchg", "own", "disown", "unlock", "sched", "intena", "slot",
        "wakeup1", "ticks++", "preempt", "iret", "ticks0", "while"}
Operand == Lock \cup BOOLEAN \cup Nat
             \cup {"", "RUNNABLE", "SLEEPING", "interrupt", "call", "fork"}
Instr == Ops \X Operand
Code == Seq(Instr)

OpAt(s, op) == {i \in DOMAIN s : s[i][1] = op}
LockAt(s, lk) == {i \in DOMAIN s : s[i][1] \in {"xchg", "unlock"} /\ s[i][2] = lk}

Net(s) == Cardinality(OpAt(s, "unlock")) - Cardinality(OpAt(s, "pushcli"))
Ins(s, lk) == LockAt(s, lk) # {} /\ s[Min(LockAt(s, lk))][1] = "unlock"
Via(s) == IF OpAt(s, "iret") # {} THEN s[Min(OpAt(s, "iret"))][2] ELSE "none"
Has1(s, op) == OpAt(s, op) # {}
Sleeps(s) == \E i \in DOMAIN s : s[i][1] = "sched" /\ s[i][2] = "SLEEPING"
AllOn(s) == \A i \in DOMAIN s : s[i][1] = "while" => ~Over(s[i][2])

\* Nothing that must follow another instruction at once.
Loose(v) == v = << >> \/ Head(v)[1] \notin {"xchg", "own", "unlock"}

HeldBy(s) == (IF Ins(s, "ptable") THEN 1 ELSE 0) + (IF Ins(s, "tickslock") THEN 1 ELSE 0)
Between(s) == IF s # << >> /\ Head(s)[1] = "xchg" THEN 1 ELSE 0

\* Instruction x may be followed by v.
LocksFine(x, v) ==
  /\ x[1] = "pushcli" => x[2] \in Lock /\ v # << >> /\ Head(v) = << "xchg", x[2] >>
  /\ x[1] = "xchg" => /\ x[2] \in Lock /\ v # << >> /\ Head(v) = << "own", x[2] >>
                      /\ Ins(v, x[2])
                      /\ x[2] = "tickslock" => ~Ins(v, "ptable")
  /\ x[1] = "own" => x[2] \in Lock /\ Ins(v, x[2])
  /\ x[1] = "disown" => x[2] \in Lock /\ v # << >> /\ Head(v) = << "unlock", x[2] >>
  /\ x[1] = "unlock" => x[2] \in Lock /\ ~Ins(v, x[2])
  /\ x[1] \in {"pushcli", "xchg", "disown"} \/ Loose(v)

SwitchFine(t, x, v) ==
  /\ x[1] \in {"sched", "intena"} =>
       /\ t \in Process /\ ~Sleeps(v)
       /\ v # << >> /\ Head(v) = << "disown", "ptable" >>
       /\ Ins(v, "ptable") /\ ~Ins(v, "tickslock")
  /\ x[1] = "sched" => x[2] \in {"RUNNABLE", "SLEEPING"}
  /\ x[1] = "intena" => /\ x[2] \in BOOLEAN
                        /\ Via(v) = "interrupt" => ~x[2]
                        /\ Via(v) = "call" => x[2]
  /\ x[1] \in {"ticks0", "while"} => t \in Process
  /\ x[1] = "slot" => /\ t \in Cpu /\ x[2] \in Nat /\ Via(v) = "none"
                      /\ Ins(v, "ptable") /\ ~Ins(v, "tickslock")

CallsFine(x, v) ==
  /\ x[1] = "wakeup1" => Ins(v, "ptable") /\ Ins(v, "tickslock")
  /\ x[1] = "ticks++" => /\ Ins(v, "tickslock") /\ ~Ins(v, "ptable")
                         /\ Has1(v, "wakeup1") /\ ~Has1(v, "ticks++")
  /\ x[1] \in {"ticks0", "while"} =>
       /\ Ins(v, "tickslock") /\ ~Ins(v, "ptable") /\ ~Has1(v, "while") /\ ~Sleeps(v)
       /\ Via(v) = "call"
  /\ x[1] = "while" => x[2] \in Nat
  /\ x[1] = "preempt" => v # << >> /\ Head(v) = << "iret", "interrupt" >>
  /\ x[1] = "iret" =>
       /\ x[2] \in {"interrupt", "call", "fork"}
       /\ x[2] = "interrupt" => ~Ins(v, "ptable") /\ ~Ins(v, "tickslock") /\ Via(v) # "interrupt"
       /\ x[2] # "interrupt" => v = << >>

Fine(t, x, v) == LocksFine(x, v) /\ SwitchFine(t, x, v) /\ CallsFine(x, v)

\* What is true of a thread that has u left.
Whole(t, u) ==
  /\ Net(u) = HeldBy(u) + Between(u)
  /\ Sleeps(u) => Via(u) = "call" /\ (Ins(u, "ptable") \/ Ins(u, "tickslock"))
  /\ Has1(u, "wakeup1") \/ Has1(u, "ticks++") => Via(u) = "interrupt"
  /\ Has1(u, "wakeup1") /\ ~Has1(u, "ticks++") => Ins(u, "tickslock")
  /\ t \in Process /\ u # << >> => Via(u) # "none"

\* Every place of thread t's list follows on from the ones behind it.
Sound(t, s) ==
  \A i \in 1 .. Len(s) :
    Fine(t, s[i], SubSeq(s, i + 1, Len(s))) /\ Whole(t, SubSeq(s, i, Len(s)))

\* A processor and the thread t that it runs, which has s left.
RunsOk(t, s, n, i, e) ==
  /\ n = Net(s)
  /\ n > 0 \/ Via(s) = "interrupt" => ~i
  /\ n = 0 /\ (Via(s) = "call" \/ (Via(s) = "none" /\ t \in Process)) => i
  /\ n > 0 /\ Head(s)[1] # "intena" =>
       (Via(s) = "interrupt" => ~e) /\ (Via(s) = "call" => e)

\* Processor c, whose thread has s left, and a lock: held from xchg to unlock,
\* under c's name from own to disown.
HoldsOk(c, s, lk, l, h) ==
  /\ Ins(s, lk) => /\ l
                   /\ Head(s) \notin {<< "own", lk >>, << "unlock", lk >>} => h = c
  /\ h = c => Ins(s, lk) /\ Head(s) # << "unlock", lk >>

RunsRight(c) == RunsOk(runs[c], Left(c), ncli[c], ints[c], intena[c])
HoldsRight(c) == \A lk \in Lock : HoldsOk(c, Left(c), lk, locked[lk], holder[lk])

\* A lock is held by one that will give it back.
LocksRight ==
  \A lk \in Lock :
    /\ locked[lk] => \E c \in Cpu : Ins(Left(c), lk)
    /\ \A c, d \in Cpu : Ins(Left(c), lk) /\ Ins(Left(d), lk) => c = d

\* A thread that no processor runs.
ParkedOk(t, s) ==
  /\ s # << >> /\ Ins(s, "ptable") /\ ~Ins(s, "tickslock") /\ ~Sleeps(s)
  /\ t \in Cpu => Head(s)[1] = "slot"
  /\ t \in Process =>
       Head(s)[1] = "intena" \/ (Head(s) = << "disown", "ptable" >> /\ Via(s) = "fork")
Parked(t) == ParkedOk(t, todo[t])

\* A handler has counted a tick and has not come to wakeup1 yet.
Pending == \E c \in Cpu : Has1(Left(c), "wakeup1") /\ ~Has1(Left(c), "ticks++")
\* p sleeps, or is about to, only while its ticks are not over.
Timely(p) == pstate[p] = "SLEEPING" \/ Sleeps(todo[p]) => AllOn(todo[p]) \/ Pending

SpinTyped ==
  /\ locked \in [Lock -> BOOLEAN] /\ holder \in [Lock -> Cpu \cup {NoCpu}]
  /\ ncli \in [Cpu -> Int] /\ intena \in [Cpu -> BOOLEAN] /\ ints \in [Cpu -> BOOLEAN]
  /\ runs \in [Cpu -> Cpu \cup Process] /\ todo \in [Cpu \cup Process -> Code]
  /\ pstate \in [Process -> {"RUNNABLE", "RUNNING", "SLEEPING"}] /\ ticks \in Nat

RunsOnce ==
  /\ \A c \in Cpu : runs[c] \in Process \cup {c}
  /\ \A c, d \in Cpu : runs[c] = runs[d] => c = d
  /\ \A p \in Process : pstate[p] = "RUNNING" <=> \E c \in Cpu : runs[c] = p

SpinInv ==
  /\ SpinTyped /\ ~panicked /\ RunsOnce /\ LocksRight
  /\ \A t \in Cpu \cup Process : Sound(t, todo[t])
  /\ \A c \in Cpu : RunsRight(c) /\ HoldsRight(c)
  /\ \A t \in Cpu \cup Process : (\A c \in Cpu : runs[c] # t) => Parked(t)
  /\ \A p \in Process : Timely(p)

---------------------------------------------------------------------------
(* One instruction more. *)

Cons(x, v) == << x >> \o v

LEMMA ConsView ==
  ASSUME NEW S, NEW x \in S, NEW v \in Seq(S)
  PROVE  /\ Cons(x, v) \in Seq(S) /\ Cons(x, v) # << >>
         /\ Head(Cons(x, v)) = x /\ Tail(Cons(x, v)) = v
         /\ Len(Cons(x, v)) = Len(v) + 1 /\ Cons(x, v)[1] = x
         /\ \A i \in 1 .. Len(v) : Cons(x, v)[i + 1] = v[i]
         /\ DOMAIN v = 1 .. Len(v) /\ DOMAIN Cons(x, v) = 1 .. Len(v) + 1 /\ Len(v) \in Nat
  <1>1. << x >> \in Seq(S) /\ Len(<< x >>) = 1 /\ << x >>[1] = x
    OBVIOUS
  <1>2. /\ Cons(x, v) \in Seq(S) /\ Len(Cons(x, v)) = Len(v) + 1
        /\ \A i \in 1 .. 1 + Len(v) : Cons(x, v)[i] = IF i <= 1 THEN << x >>[i] ELSE v[i - 1]
    BY <1>1, ConcatProperties DEF Cons
  <1>3. Len(v) \in Nat /\ DOMAIN v = 1 .. Len(v)
    OBVIOUS
  <1>4. Cons(x, v) # << >> /\ Cons(x, v)[1] = x
    BY <1>1, <1>2, <1>3
  <1>5. \A i \in 1 .. Len(v) : Cons(x, v)[i + 1] = v[i]
    BY <1>2, <1>3
  <1>6. /\ Tail(Cons(x, v)) \in Seq(S) /\ Len(Tail(Cons(x, v))) = Len(v)
        /\ \A i \in 1 .. Len(v) : Tail(Cons(x, v))[i] = v[i]
    BY <1>2, <1>3, <1>4, <1>5, HeadTailProperties
  <1>7. Tail(Cons(x, v)) = v
    BY <1>6, SeqEqual
  <1>8. DOMAIN Cons(x, v) = 1 .. Len(v) + 1
    BY <1>2
  <1>9. Head(Cons(x, v)) = x
    BY <1>2, <1>4
  <1> QED BY <1>2, <1>3, <1>4, <1>5, <1>7, <1>8, <1>9

LEMMA ConsAgain ==
  ASSUME NEW S, NEW s \in Seq(S), s # << >>
  PROVE  Head(s) \in S /\ Tail(s) \in Seq(S) /\ s = Cons(Head(s), Tail(s))
  <1>1. Head(s) \in S /\ Tail(s) \in Seq(S) /\ Len(Tail(s)) = Len(s) - 1
        /\ \A i \in 1 .. Len(Tail(s)) : Tail(s)[i] = s[i + 1]
    BY HeadTailProperties
  <1>2. /\ Cons(Head(s), Tail(s)) \in Seq(S) /\ Len(Cons(Head(s), Tail(s))) = Len(Tail(s)) + 1
        /\ Cons(Head(s), Tail(s))[1] = Head(s)
        /\ \A i \in 1 .. Len(Tail(s)) : Cons(Head(s), Tail(s))[i + 1] = Tail(s)[i]
    <2>1. PICK h \in S, u \in Seq(S) : h = Head(s) /\ u = Tail(s)
      BY <1>1
    <2>2. /\ Cons(h, u) \in Seq(S) /\ Len(Cons(h, u)) = Len(u) + 1
          /\ Cons(h, u)[1] = h
          /\ \A i \in 1 .. Len(u) : Cons(h, u)[i + 1] = u[i]
      BY ConsView
    <2> QED BY <2>1, <2>2
  <1>3. Len(s) \in Nat /\ Len(s) >= 1 /\ Head(s) = s[1]
    OBVIOUS
  <1>4. \A i \in 1 .. Len(s) : s[i] = Cons(Head(s), Tail(s))[i]
    <2>1. ASSUME NEW i \in 1 .. Len(s), i # 1 PROVE s[i] = Cons(Head(s), Tail(s))[i]
      <3>1. i - 1 \in 1 .. Len(Tail(s)) /\ (i - 1) + 1 = i
        BY <1>1, <1>3, <2>1
      <3>2. Tail(s)[i - 1] = s[i] /\ Cons(Head(s), Tail(s))[i] = Tail(s)[i - 1]
        BY <1>1, <1>2, <3>1
      <3> QED BY <3>2
    <2> QED BY <1>2, <1>3, <2>1
  <1>5. Len(s) = Len(Cons(Head(s), Tail(s)))
    BY <1>1, <1>2, <1>3
  <1> QED BY <1>1, <1>2, <1>4, <1>5, SeqEqual

\* What is put before a list goes there one by one.
LEMMA ConsConcat ==
  ASSUME NEW S, NEW x \in S, NEW a \in Seq(S), NEW v \in Seq(S)
  PROVE  /\ (<< x >> \o a) \o v = Cons(x, a \o v) /\ << x >> \o v = Cons(x, v)
         /\ a \o v \in Seq(S)
  <1>1. << x >> \in Seq(S)
    OBVIOUS
  <1>2. (<< x >> \o a) \o v = << x >> \o (a \o v)
    BY <1>1, ConcatAssociative
  <1> QED BY <1>2, ConcatProperties DEF Cons

---------------------------------------------------------------------------
(* Sets of places that move on by one. *)

Onward(F) == {i + 1 : i \in F}

LEMMA OnwardMin ==
  ASSUME NEW F \in SUBSET Nat, F # {}
  PROVE  Min(Onward(F)) = Min(F) + 1 /\ Min(F) \in F /\ Onward(F) \in SUBSET Nat /\ Onward(F) # {}
  <1>1. Min(F) \in F /\ \A y \in F : Min(F) <= y
    BY MinIsLeast
  <1>2. PICK m : m = Min(F)
    OBVIOUS
  <1>3. m \in Nat /\ m + 1 \in Onward(F) /\ \A y \in Onward(F) : m + 1 <= y
    <2>1. m \in F /\ m \in Nat
      BY <1>1, <1>2
    <2>2. m + 1 \in Onward(F)
      BY <2>1 DEF Onward
    <2>3. ASSUME NEW y \in Onward(F) PROVE m + 1 <= y
      <3>1. PICK i \in F : y = i + 1
        BY <2>3 DEF Onward
      <3>2. m <= i /\ i \in Nat
        BY <1>1, <1>2
      <3> QED BY <2>1, <3>1, <3>2
    <2> QED BY <2>1, <2>2, <2>3
  <1>4. Onward(F) \in SUBSET Nat /\ Onward(F) # {}
    BY <1>3 DEF Onward
  <1>5. PICK n : n = Min(Onward(F))
    OBVIOUS
  <1>6. n \in Onward(F) /\ \A y \in Onward(F) : n <= y
    BY <1>4, <1>5, MinIsLeast
  <1>7. n = m + 1
    BY <1>3, <1>4, <1>6
  <1> QED BY <1>1, <1>2, <1>4, <1>5, <1>7

LEMMA OnwardCount ==
  ASSUME NEW F \in SUBSET Nat, IsFiniteSet(F)
  PROVE  IsFiniteSet(Onward(F)) /\ Cardinality(Onward(F)) = Cardinality(F)
  <1> DEFINE g == [i \in F |-> i + 1]
  <1>1. g \in [F -> Onward(F)]
    BY DEF Onward
  <1>2. \A i, j \in F : g[i] = g[j] => i = j
    OBVIOUS
  <1>3. \A n \in Onward(F) : \E i \in F : g[i] = n
    BY DEF Onward
  <1> HIDE DEF g
  <1>4. g \in Bijection(F, Onward(F))
    BY <1>1, <1>2, <1>3 DEF Bijection, Injection, Surjection, IsInjective
  <1> QED BY <1>4, FS_Bijection DEF ExistsBijection

LEMMA OneMore ==
  ASSUME NEW F \in SUBSET Nat, IsFiniteSet(F), 0 \notin F
  PROVE  /\ IsFiniteSet({1} \cup Onward(F))
         /\ Cardinality({1} \cup Onward(F)) = Cardinality(F) + 1
         /\ Min({1} \cup Onward(F)) = 1
  <1>1. 1 \notin Onward(F)
    BY DEF Onward
  <1>2. IsFiniteSet(Onward(F)) /\ Cardinality(Onward(F)) = Cardinality(F)
    BY OnwardCount
  <1>3. {1} \cup Onward(F) = Onward(F) \cup {1}
    OBVIOUS
  <1>4. /\ IsFiniteSet(Onward(F) \cup {1})
        /\ Cardinality(Onward(F) \cup {1}) = Cardinality(Onward(F)) + 1
    BY <1>1, <1>2, FS_AddElement
  <1>5. Min({1} \cup Onward(F)) = 1
    <2>1. {1} \cup Onward(F) \in SUBSET Nat /\ {1} \cup Onward(F) # {}
      BY DEF Onward
    <2>2. PICK m : m = Min({1} \cup Onward(F))
      OBVIOUS
    <2>3. m \in {1} \cup Onward(F) /\ m <= 1
      BY <2>1, <2>2, MinIsLeast
    <2>4. \A n \in {1} \cup Onward(F) : n >= 1
      BY DEF Onward
    <2> QED BY <2>1, <2>2, <2>3, <2>4
  <1> QED BY <1>2, <1>3, <1>4, <1>5

---------------------------------------------------------------------------
(* What a list with one instruction more says. *)

LEMMA OpAtCons ==
  ASSUME NEW x \in Instr, NEW v \in Code, NEW op
  PROVE  /\ OpAt(Cons(x, v), op) = IF x[1] = op THEN {1} \cup Onward(OpAt(v, op))
                                   ELSE Onward(OpAt(v, op))
         /\ OpAt(v, op) \in SUBSET Nat /\ IsFiniteSet(OpAt(v, op)) /\ 0 \notin OpAt(v, op)
  <1>1. /\ Cons(x, v)[1] = x /\ \A i \in 1 .. Len(v) : Cons(x, v)[i + 1] = v[i]
        /\ DOMAIN v = 1 .. Len(v) /\ DOMAIN Cons(x, v) = 1 .. Len(v) + 1 /\ Len(v) \in Nat
    BY ConsView DEF Code
  <1>2. ASSUME NEW i, i # 1
        PROVE  i \in OpAt(Cons(x, v), op) <=> i \in Onward(OpAt(v, op))
    <2>1. ASSUME i \in OpAt(Cons(x, v), op) PROVE i \in Onward(OpAt(v, op))
      <3>1. i \in 1 .. Len(v) + 1 /\ Cons(x, v)[i][1] = op
        BY <1>1, <2>1 DEF OpAt
      <3>2. i - 1 \in 1 .. Len(v) /\ (i - 1) + 1 = i
        BY <1>1, <1>2, <3>1
      <3>3. i - 1 \in OpAt(v, op)
        BY <1>1, <3>1, <3>2 DEF OpAt
      <3> QED BY <3>2, <3>3 DEF Onward
    <2>2. ASSUME i \in Onward(OpAt(v, op)) PROVE i \in OpAt(Cons(x, v), op)
      <3>1. PICK j \in 1 .. Len(v) : i = j + 1 /\ v[j][1] = op
        BY <1>1, <2>2 DEF Onward, OpAt
      <3>2. Cons(x, v)[i] = v[j] /\ i \in 1 .. Len(v) + 1
        BY <1>1, <3>1
      <3> QED BY <1>1, <3>1, <3>2 DEF OpAt
    <2> QED BY <2>1, <2>2
  <1>3. 1 \in OpAt(Cons(x, v), op) <=> x[1] = op
    BY <1>1 DEF OpAt
  <1>4. OpAt(v, op) \subseteq 1 .. Len(v)
    BY <1>1 DEF OpAt
  <1>5. 1 \notin Onward(OpAt(v, op))
    BY <1>4, <1>1 DEF Onward
  <1>6. IsFiniteSet(1 .. Len(v))
    BY <1>1, FS_Interval
  <1>7. IsFiniteSet(OpAt(v, op))
    BY <1>4, <1>6, FS_Subset
  <1>8. PICK F, G, b : F = Onward(OpAt(v, op)) /\ G = OpAt(Cons(x, v), op) /\ b = (x[1] = op)
    OBVIOUS
  <1>9. \A i : i \in G <=> (i = 1 /\ b) \/ i \in F
    BY <1>2, <1>3, <1>5, <1>8
  <1>10. G = IF b THEN {1} \cup F ELSE F
    BY <1>9
  <1>11. OpAt(v, op) \in SUBSET Nat /\ 0 \notin OpAt(v, op)
    BY <1>1, <1>4
  <1> QED BY <1>7, <1>8, <1>10, <1>11

LEMMA LockAtCons ==
  ASSUME NEW x \in Instr, NEW v \in Code, NEW lk
  PROVE  /\ LockAt(Cons(x, v), lk) = IF x[1] \in {"xchg", "unlock"} /\ x[2] = lk
                                     THEN {1} \cup Onward(LockAt(v, lk))
                                     ELSE Onward(LockAt(v, lk))
         /\ LockAt(v, lk) \in SUBSET Nat /\ IsFiniteSet(LockAt(v, lk)) /\ 0 \notin LockAt(v, lk)
  <1>1. /\ Cons(x, v)[1] = x /\ \A i \in 1 .. Len(v) : Cons(x, v)[i + 1] = v[i]
        /\ DOMAIN v = 1 .. Len(v) /\ DOMAIN Cons(x, v) = 1 .. Len(v) + 1 /\ Len(v) \in Nat
    BY ConsView DEF Code
  <1>2. ASSUME NEW i, i # 1
        PROVE  i \in LockAt(Cons(x, v), lk) <=> i \in Onward(LockAt(v, lk))
    <2>1. ASSUME i \in LockAt(Cons(x, v), lk) PROVE i \in Onward(LockAt(v, lk))
      <3>1. /\ i \in 1 .. Len(v) + 1
            /\ Cons(x, v)[i][1] \in {"xchg", "unlock"} /\ Cons(x, v)[i][2] = lk
        BY <1>1, <2>1 DEF LockAt
      <3>2. i - 1 \in 1 .. Len(v) /\ (i - 1) + 1 = i
        BY <1>1, <1>2, <3>1
      <3>3. i - 1 \in LockAt(v, lk)
        BY <1>1, <3>1, <3>2 DEF LockAt
      <3> QED BY <3>2, <3>3 DEF Onward
    <2>2. ASSUME i \in Onward(LockAt(v, lk)) PROVE i \in LockAt(Cons(x, v), lk)
      <3>1. PICK j \in 1 .. Len(v) : i = j + 1 /\ v[j][1] \in {"xchg", "unlock"} /\ v[j][2] = lk
        BY <1>1, <2>2 DEF Onward, LockAt
      <3>2. Cons(x, v)[i] = v[j] /\ i \in 1 .. Len(v) + 1
        BY <1>1, <3>1
      <3> QED BY <1>1, <3>1, <3>2 DEF LockAt
    <2> QED BY <2>1, <2>2
  <1>3. 1 \in LockAt(Cons(x, v), lk) <=> x[1] \in {"xchg", "unlock"} /\ x[2] = lk
    BY <1>1 DEF LockAt
  <1>4. LockAt(v, lk) \subseteq 1 .. Len(v)
    BY <1>1 DEF LockAt
  <1>5. 1 \notin Onward(LockAt(v, lk))
    BY <1>4, <1>1 DEF Onward
  <1>6. IsFiniteSet(1 .. Len(v))
    BY <1>1, FS_Interval
  <1>7. IsFiniteSet(LockAt(v, lk))
    BY <1>4, <1>6, FS_Subset
  <1>8. PICK F, G, b : F = Onward(LockAt(v, lk)) /\ G = LockAt(Cons(x, v), lk) /\ b = (x[1] \in {"xchg", "unlock"} /\ x[2] = lk)
    OBVIOUS
  <1>9. \A i : i \in G <=> (i = 1 /\ b) \/ i \in F
    BY <1>2, <1>3, <1>5, <1>8
  <1>10. G = IF b THEN {1} \cup F ELSE F
    BY <1>9
  <1>11. LockAt(v, lk) \in SUBSET Nat /\ 0 \notin LockAt(v, lk)
    BY <1>1, <1>4
  <1> QED BY <1>7, <1>8, <1>10, <1>11

LEMMA NetCons ==
  ASSUME NEW x \in Instr, NEW v \in Code
  PROVE  /\ Net(v) \in Int
         /\ Net(Cons(x, v)) = IF x[1] = "unlock" THEN Net(v) + 1
                              ELSE IF x[1] = "pushcli" THEN Net(v) - 1 ELSE Net(v)
  <1>1. ASSUME NEW op
        PROVE  /\ Cardinality(OpAt(v, op)) \in Nat
               /\ Cardinality(OpAt(Cons(x, v), op)) =
                    IF x[1] = op THEN Cardinality(OpAt(v, op)) + 1 ELSE Cardinality(OpAt(v, op))
    <2>1. PICK F : F = OpAt(v, op)
      OBVIOUS
    <2>2. F \in SUBSET Nat /\ IsFiniteSet(F) /\ 0 \notin F
      BY <2>1, OpAtCons
    <2>3. OpAt(Cons(x, v), op) = IF x[1] = op THEN {1} \cup Onward(F) ELSE Onward(F)
      BY <2>1, OpAtCons
    <2>4. Cardinality(F) \in Nat
      BY <2>2, FS_CardinalityType
    <2>5. /\ Cardinality({1} \cup Onward(F)) = Cardinality(F) + 1
          /\ Cardinality(Onward(F)) = Cardinality(F)
      BY <2>2, OneMore, OnwardCount
    <2> QED BY <2>1, <2>3, <2>4, <2>5
  <1>2. "unlock" # "pushcli"
    OBVIOUS
  <1> QED BY <1>1, <1>2 DEF Net

LEMMA InsCons ==
  ASSUME NEW x \in Instr, NEW v \in Code, NEW lk
  PROVE  /\ x[1] \in {"xchg", "unlock"} /\ x[2] = lk => (Ins(Cons(x, v), lk) <=> x[1] = "unlock")
         /\ ~ (x[1] \in {"xchg", "unlock"} /\ x[2] = lk) => (Ins(Cons(x, v), lk) <=> Ins(v, lk))
  <1>1. PICK F : F = LockAt(v, lk)
    OBVIOUS
  <1>2. F \in SUBSET Nat /\ IsFiniteSet(F) /\ 0 \notin F
    BY <1>1, LockAtCons
  <1>3. /\ Cons(x, v)[1] = x /\ \A i \in 1 .. Len(v) : Cons(x, v)[i + 1] = v[i]
        /\ DOMAIN v = 1 .. Len(v) /\ Len(v) \in Nat
    BY ConsView DEF Code
  <1>4. ASSUME x[1] \in {"xchg", "unlock"}, x[2] = lk
        PROVE  Ins(Cons(x, v), lk) <=> x[1] = "unlock"
    <2>1. LockAt(Cons(x, v), lk) = {1} \cup Onward(F)
      BY <1>1, <1>4, LockAtCons
    <2>2. Min({1} \cup Onward(F)) = 1
      BY <1>2, OneMore
    <2>3. {1} \cup Onward(F) # {}
      OBVIOUS
    <2> QED BY <1>3, <2>1, <2>2, <2>3 DEF Ins
  <1>5. ASSUME ~ (x[1] \in {"xchg", "unlock"} /\ x[2] = lk)
        PROVE  Ins(Cons(x, v), lk) <=> Ins(v, lk)
    <2>1. LockAt(Cons(x, v), lk) = Onward(F)
      BY <1>1, <1>5, LockAtCons
    <2>2. CASE F = {}
      BY <1>1, <2>1, <2>2 DEF Ins, Onward
    <2>3. CASE F # {}
      <3>1. Min(Onward(F)) = Min(F) + 1 /\ Min(F) \in F /\ Onward(F) # {}
        BY <1>2, <2>3, OnwardMin
      <3>2. F \subseteq 1 .. Len(v)
        BY <1>1, <1>3 DEF LockAt
      <3>3. Cons(x, v)[Min(F) + 1] = v[Min(F)]
        BY <1>3, <3>1, <3>2
      <3> QED BY <1>1, <2>1, <2>3, <3>1, <3>3 DEF Ins
    <2> QED BY <2>2, <2>3
  <1> QED BY <1>4, <1>5

LEMMA ViaCons ==
  ASSUME NEW x \in Instr, NEW v \in Code
  PROVE  Via(Cons(x, v)) = IF x[1] = "iret" THEN x[2] ELSE Via(v)
  <1>1. PICK F : F = OpAt(v, "iret")
    OBVIOUS
  <1>2. F \in SUBSET Nat /\ IsFiniteSet(F) /\ 0 \notin F
    BY <1>1, OpAtCons
  <1>3. /\ Cons(x, v)[1] = x /\ \A i \in 1 .. Len(v) : Cons(x, v)[i + 1] = v[i]
        /\ DOMAIN v = 1 .. Len(v) /\ Len(v) \in Nat
    BY ConsView DEF Code
  <1>4. CASE x[1] = "iret"
    <2>1. OpAt(Cons(x, v), "iret") = {1} \cup Onward(F)
      BY <1>1, <1>4, OpAtCons
    <2>2. Min({1} \cup Onward(F)) = 1
      BY <1>2, OneMore
    <2>3. {1} \cup Onward(F) # {}
      OBVIOUS
    <2> QED BY <1>3, <1>4, <2>1, <2>2, <2>3 DEF Via
  <1>5. CASE x[1] # "iret"
    <2>1. OpAt(Cons(x, v), "iret") = Onward(F)
      BY <1>1, <1>5, OpAtCons
    <2>2. CASE F = {}
      BY <1>1, <1>5, <2>1, <2>2 DEF Via, Onward
    <2>3. CASE F # {}
      <3>1. Min(Onward(F)) = Min(F) + 1 /\ Min(F) \in F /\ Onward(F) # {}
        BY <1>2, <2>3, OnwardMin
      <3>2. F \subseteq 1 .. Len(v)
        BY <1>1, <1>3 DEF OpAt
      <3>3. Cons(x, v)[Min(F) + 1] = v[Min(F)]
        BY <1>3, <3>1, <3>2
      <3> QED BY <1>1, <1>5, <2>1, <2>3, <3>1, <3>3 DEF Via
    <2> QED BY <2>2, <2>3
  <1> QED BY <1>4, <1>5

LEMMA MarksCons ==
  ASSUME NEW x \in Instr, NEW v \in Code
  PROVE  /\ \A op : Has1(Cons(x, v), op) <=> x[1] = op \/ Has1(v, op)
         /\ Sleeps(Cons(x, v)) <=> (x[1] = "sched" /\ x[2] = "SLEEPING") \/ Sleeps(v)
         /\ AllOn(Cons(x, v)) <=> (x[1] = "while" => ~Over(x[2])) /\ AllOn(v)
  <1>1. /\ Cons(x, v)[1] = x /\ \A i \in 1 .. Len(v) : Cons(x, v)[i + 1] = v[i]
        /\ DOMAIN v = 1 .. Len(v) /\ DOMAIN Cons(x, v) = 1 .. Len(v) + 1 /\ Len(v) \in Nat
    BY ConsView DEF Code
  <1>2. ASSUME NEW op PROVE Has1(Cons(x, v), op) <=> x[1] = op \/ Has1(v, op)
    <2>1. PICK F : F = OpAt(v, op)
      OBVIOUS
    <2>2. OpAt(Cons(x, v), op) = IF x[1] = op THEN {1} \cup Onward(F) ELSE Onward(F)
      BY <2>1, OpAtCons
    <2>3. Onward(F) = {} <=> F = {}
      BY DEF Onward
    <2> QED BY <2>1, <2>2, <2>3 DEF Has1
  <1>3. /\ 1 \in DOMAIN Cons(x, v) /\ \A j \in DOMAIN v : j + 1 \in DOMAIN Cons(x, v)
        /\ \A i \in DOMAIN Cons(x, v) : i = 1 \/ \E j \in DOMAIN v : i = j + 1
    <2>1. PICK n, D, R : n = Len(v) /\ D = DOMAIN v /\ R = DOMAIN Cons(x, v)
      OBVIOUS
    <2>2. n \in Nat /\ D = 1 .. n /\ R = 1 .. n + 1
      BY <1>1, <2>1
    <2>3. \A i \in 1 .. n + 1 : i = 1 \/ (i - 1 \in 1 .. n /\ i = (i - 1) + 1)
      BY <2>2
    <2>4. 1 \in 1 .. n + 1 /\ \A j \in 1 .. n : j + 1 \in 1 .. n + 1
      BY <2>2
    <2>5. \A i \in R : i = 1 \/ \E j \in D : i = j + 1
      <3>1. ASSUME NEW i \in R, i # 1 PROVE \E j \in D : i = j + 1
        <4>1. i - 1 \in D /\ i = (i - 1) + 1
          BY <2>2, <2>3, <3>1
        <4> QED BY <4>1
      <3> QED BY <3>1
    <2> QED BY <2>1, <2>2, <2>4, <2>5
  <1>4. Sleeps(Cons(x, v)) <=> (x[1] = "sched" /\ x[2] = "SLEEPING") \/ Sleeps(v)
    BY <1>1, <1>3 DEF Sleeps
  <1>5. AllOn(Cons(x, v)) <=> (x[1] = "while" => ~Over(x[2])) /\ AllOn(v)
    <2> DEFINE OK(y) == y[1] = "while" => ~Over(y[2])
    <2>1. AllOn(Cons(x, v)) <=> \A i \in DOMAIN Cons(x, v) : OK(Cons(x, v)[i])
      BY DEF AllOn
    <2>2. AllOn(v) <=> \A i \in DOMAIN v : OK(v[i])
      BY DEF AllOn
    <2> HIDE DEF OK
    <2>3. (\A i \in DOMAIN Cons(x, v) : OK(Cons(x, v)[i])) <=> OK(x) /\ \A i \in DOMAIN v : OK(v[i])
      BY <1>1, <1>3
    <2> QED BY <2>1, <2>2, <2>3 DEF OK
  <1> QED BY <1>2, <1>4, <1>5

LEMMA EmptyReads ==
  /\ Net(<< >>) = 0 /\ (\A lk : ~Ins(<< >>, lk)) /\ Via(<< >>) = "none"
  /\ (\A op : ~Has1(<< >>, op)) /\ ~Sleeps(<< >>) /\ AllOn(<< >>) /\ Loose(<< >>)
  /\ << >> \in Code
  <1>1. DOMAIN << >> = {}
    OBVIOUS
  <1>2. \A op : OpAt(<< >>, op) = {} /\ LockAt(<< >>, op) = {}
    BY <1>1 DEF OpAt, LockAt
  <1>3. Cardinality({}) = 0
    BY FS_EmptySet
  <1>4. Net(<< >>) = 0
    <2>1. OpAt(<< >>, "unlock") = {} /\ OpAt(<< >>, "pushcli") = {}
      BY <1>2
    <2>2. Cardinality(OpAt(<< >>, "unlock")) = 0 /\ Cardinality(OpAt(<< >>, "pushcli")) = 0
      BY <1>3, <2>1
    <2> QED BY <2>2 DEF Net
  <1>5. (\A lk : ~Ins(<< >>, lk)) /\ Via(<< >>) = "none" /\ \A op : ~Has1(<< >>, op)
    BY <1>2 DEF Ins, Via, Has1
  <1>6. ~Sleeps(<< >>) /\ AllOn(<< >>)
    BY <1>1 DEF Sleeps, AllOn
  <1> QED BY <1>4, <1>5, <1>6 DEF Loose, Code

\* The lists that are left later are those of the shorter list.
LEMMA SubSeqCons ==
  ASSUME NEW x \in Instr, NEW v \in Code, NEW i \in 1 .. Len(v) + 1
  PROVE  SubSeq(Cons(x, v), i + 1, Len(v) + 1) = SubSeq(v, i, Len(v))
  <1>1. PICK u, n : u = Cons(x, v) /\ n = Len(v)
    OBVIOUS
  <1>2. /\ u \in Seq(Instr) /\ v \in Seq(Instr) /\ n \in Nat /\ Len(u) = n + 1
        /\ \A k \in 1 .. n : u[k + 1] = v[k]
    <2>1. v \in Seq(Instr)
      BY DEF Code
    <2>2. /\ Cons(x, v) \in Seq(Instr) /\ Len(Cons(x, v)) = Len(v) + 1 /\ Len(v) \in Nat
          /\ \A k \in 1 .. Len(v) : Cons(x, v)[k + 1] = v[k]
      BY <2>1, ConsView
    <2> QED BY <1>1, <2>1, <2>2
  <1>3. i \in 1 .. n + 1 /\ i \in Int /\ i + 1 \in Int /\ n + 1 \in Int
    BY <1>1, <1>2
  <1>4. /\ SubSeq(u, i + 1, n + 1) \in Seq(Instr)
        /\ Len(SubSeq(u, i + 1, n + 1)) = IF i + 1 <= n + 1 THEN (n + 1) - (i + 1) + 1 ELSE 0
        /\ \A k \in 1 .. (n + 1) - (i + 1) + 1 : SubSeq(u, i + 1, n + 1)[k] = u[(i + 1) + k - 1]
    <2>1. \A k \in i + 1 .. n + 1 : u[k] \in Instr
      BY <1>2, <1>3, ElementOfSeq
    <2> QED BY <1>3, <2>1, SubSeqProperties
  <1>5. /\ SubSeq(v, i, n) \in Seq(Instr)
        /\ Len(SubSeq(v, i, n)) = IF i <= n THEN n - i + 1 ELSE 0
        /\ \A k \in 1 .. n - i + 1 : SubSeq(v, i, n)[k] = v[i + k - 1]
    <2>1. \A k \in i .. n : v[k] \in Instr
      BY <1>1, <1>2, <1>3, ElementOfSeq
    <2> QED BY <1>2, <1>3, <2>1, SubSeqProperties
  <1>6. Len(SubSeq(u, i + 1, n + 1)) = Len(SubSeq(v, i, n)) /\ Len(SubSeq(v, i, n)) <= n - i + 1
    BY <1>2, <1>3, <1>4, <1>5
  <1>7. ASSUME NEW k \in 1 .. n - i + 1
        PROVE  SubSeq(u, i + 1, n + 1)[k] = SubSeq(v, i, n)[k]
    <2>1. k \in 1 .. (n + 1) - (i + 1) + 1 /\ i + k - 1 \in 1 .. n /\ (i + 1) + k - 1 = (i + k - 1) + 1
      BY <1>2, <1>3
    <2>2. u[(i + 1) + k - 1] = v[i + k - 1]
      BY <1>2, <2>1
    <2> QED BY <1>4, <1>5, <2>1, <2>2
  <1>8. \A k \in 1 .. Len(SubSeq(v, i, n)) : k \in 1 .. n - i + 1
    BY <1>2, <1>3, <1>5, <1>6
  <1>9. SubSeq(u, i + 1, n + 1) = SubSeq(v, i, n)
    BY <1>4, <1>5, <1>6, <1>7, <1>8, SeqEqual
  <1> QED BY <1>1, <1>9

LEMMA SoundCons ==
  ASSUME NEW t, NEW x \in Instr, NEW v \in Code
  PROVE  Sound(t, Cons(x, v)) <=> Fine(t, x, v) /\ Whole(t, Cons(x, v)) /\ Sound(t, v)
  <1>1. PICK u, n : u = Cons(x, v) /\ n = Len(v)
    OBVIOUS
  <1>2. /\ u \in Code /\ u \in Seq(Instr) /\ v \in Seq(Instr) /\ n \in Nat /\ Len(u) = n + 1
        /\ u[1] = x /\ \A k \in 1 .. n : u[k + 1] = v[k]
    <2>1. v \in Seq(Instr)
      BY DEF Code
    <2>2. /\ Cons(x, v) \in Seq(Instr) /\ Len(Cons(x, v)) = Len(v) + 1 /\ Len(v) \in Nat
          /\ Cons(x, v)[1] = x /\ \A k \in 1 .. Len(v) : Cons(x, v)[k + 1] = v[k]
      BY <2>1, ConsView
    <2> QED BY <1>1, <2>1, <2>2 DEF Code
  <1>3. \A i \in 1 .. n + 1 : SubSeq(u, i + 1, n + 1) = SubSeq(v, i, n)
    BY <1>1, SubSeqCons
  <1>4. SubSeq(u, 1, n + 1) = u /\ SubSeq(u, 2, n + 1) = v
    <2>1. SubSeq(u, 1, Len(u)) = u
      BY <1>2, SubSeqFull
    <2>2. SubSeq(v, 1, Len(v)) = v
      BY <1>2, SubSeqFull
    <2>3. 1 \in 1 .. n + 1 /\ 1 + 1 = 2
      BY <1>2
    <2>4. SubSeq(u, 2, n + 1) = SubSeq(v, 1, n)
      BY <1>3, <2>3
    <2> QED BY <1>1, <1>2, <2>1, <2>2, <2>4
  <1> DEFINE P(s, m, i) == Fine(t, s[i], SubSeq(s, i + 1, m)) /\ Whole(t, SubSeq(s, i, m))
  <1>5. Sound(t, u) <=> \A i \in 1 .. n + 1 : P(u, n + 1, i)
    BY <1>2 DEF Sound
  <1>6. Sound(t, v) <=> \A i \in 1 .. n : P(v, n, i)
    BY <1>1 DEF Sound
  <1>7. P(u, n + 1, 1) <=> Fine(t, x, v) /\ Whole(t, u)
    <2>1. 1 + 1 = 2
      OBVIOUS
    <2> QED BY <1>2, <1>4, <2>1
  <1>8. ASSUME NEW i \in 1 .. n PROVE P(u, n + 1, i + 1) <=> P(v, n, i)
    <2>1. i + 1 \in 1 .. n + 1 /\ i \in 1 .. n + 1
      BY <1>2
    <2>2. u[i + 1] = v[i]
      BY <1>2
    <2>3. SubSeq(u, (i + 1) + 1, n + 1) = SubSeq(v, i + 1, n)
      BY <1>3, <2>1
    <2>4. SubSeq(u, i + 1, n + 1) = SubSeq(v, i, n)
      BY <1>3, <2>1
    <2> QED BY <2>2, <2>3, <2>4
  <1> HIDE DEF P
  <1>9. /\ 1 \in 1 .. n + 1 /\ \A i \in 1 .. n : i + 1 \in 1 .. n + 1
        /\ \A i \in 1 .. n + 1 : i = 1 \/ (i - 1 \in 1 .. n /\ (i - 1) + 1 = i)
    BY <1>2
  <1>10. (\A i \in 1 .. n + 1 : P(u, n + 1, i)) => P(u, n + 1, 1) /\ \A i \in 1 .. n : P(v, n, i)
    BY <1>8, <1>9
  <1>11. P(u, n + 1, 1) /\ (\A i \in 1 .. n : P(v, n, i)) => \A i \in 1 .. n + 1 : P(u, n + 1, i)
    <2> SUFFICES ASSUME P(u, n + 1, 1), \A i \in 1 .. n : P(v, n, i), NEW i \in 1 .. n + 1, i # 1
                 PROVE  P(u, n + 1, i)
      OBVIOUS
    <2>1. i - 1 \in 1 .. n /\ (i - 1) + 1 = i
      BY <1>9
    <2>2. P(u, n + 1, (i - 1) + 1) <=> P(v, n, i - 1)
      BY <1>8, <2>1
    <2> QED BY <2>1, <2>2
  <1> QED BY <1>1, <1>5, <1>6, <1>7, <1>10, <1>11

LEMMA SoundEmpty == \A t : Sound(t, << >>) /\ Whole(t, << >>)
  <1>1. \A t : Sound(t, << >>)
    <2>1. 1 .. Len(<< >>) = {}
      OBVIOUS
    <2> QED BY <2>1 DEF Sound
  <1>2. HeldBy(<< >>) = 0 /\ Between(<< >>) = 0
    BY EmptyReads DEF HeldBy, Between
  <1> QED BY <1>1, <1>2, EmptyReads DEF Whole

LEMMA SoundWhole ==
  ASSUME NEW t, NEW s \in Code, Sound(t, s)
  PROVE  Whole(t, s)
  <1>1. CASE s = << >>
    BY <1>1, SoundEmpty
  <1>2. CASE s # << >>
    <2>1. PICK x \in Instr, v \in Code : s = Cons(x, v)
      BY <1>2, ConsAgain DEF Code
    <2> QED BY <2>1, SoundCons
  <1> QED BY <1>1, <1>2

LEMMA CodeCons ==
  ASSUME NEW x \in Instr, NEW v \in Code
  PROVE  /\ Cons(x, v) \in Code /\ Cons(x, v) # << >>
         /\ Head(Cons(x, v)) = x /\ Tail(Cons(x, v)) = v
         /\ Loose(Cons(x, v)) <=> x[1] \notin {"xchg", "own", "unlock"}
         /\ Between(Cons(x, v)) = IF x[1] = "xchg" THEN 1 ELSE 0
  <1>1. v \in Seq(Instr)
    BY DEF Code
  <1>2. PICK u : u = Cons(x, v)
    OBVIOUS
  <1>3. u \in Seq(Instr) /\ u # << >> /\ Head(u) = x /\ Tail(u) = v
    <2>1. /\ Cons(x, v) \in Seq(Instr) /\ Cons(x, v) # << >>
          /\ Head(Cons(x, v)) = x /\ Tail(Cons(x, v)) = v
      BY <1>1, ConsView
    <2> QED BY <1>2, <2>1
  <1>4. u \in Code
    BY <1>3 DEF Code
  <1>5. (Loose(u) <=> x[1] \notin {"xchg", "own", "unlock"})
        /\ Between(u) = IF x[1] = "xchg" THEN 1 ELSE 0
    BY <1>3 DEF Loose, Between
  <1> QED BY <1>2, <1>3, <1>4, <1>5

\* What most instructions leave as it is.
Like(u, v) ==
  /\ Via(u) = Via(v) /\ (Sleeps(u) <=> Sleeps(v)) /\ (AllOn(u) <=> AllOn(v))
  /\ Has1(u, "wakeup1") <=> Has1(v, "wakeup1")
  /\ Has1(u, "ticks++") <=> Has1(v, "ticks++")
  /\ Has1(u, "while") <=> Has1(v, "while")

\* How one of lock's instructions, or another one, changes what a list says.
LEMMA LockCons ==
  ASSUME NEW op \in {"pushcli", "xchg", "own", "disown", "unlock"}, NEW lk \in Lock, NEW v \in Code
  PROVE  /\ << op, lk >> \in Instr /\ Like(Cons(<< op, lk >>, v), v)
         /\ Net(Cons(<< op, lk >>, v)) = IF op = "unlock" THEN Net(v) + 1
                                         ELSE IF op = "pushcli" THEN Net(v) - 1 ELSE Net(v)
         /\ Ins(Cons(<< op, lk >>, v), lk) <=> op = "unlock" \/ (op # "xchg" /\ Ins(v, lk))
         /\ \A m : m # lk => (Ins(Cons(<< op, lk >>, v), m) <=> Ins(v, m))
  <1>1. PICK x : x = << op, lk >>
    OBVIOUS
  <1>2. x \in Instr /\ x[1] = op /\ x[2] = lk
    <2>1. op \in Ops
      BY DEF Ops
    <2>2. lk \in Operand
      BY Zenon DEF Operand
    <2>3. << op, lk >> \in Ops \X Operand
      BY <2>1, <2>2
    <2>4. << op, lk >>[1] = op /\ << op, lk >>[2] = lk
      OBVIOUS
    <2> QED BY <1>1, <2>3, <2>4 DEF Instr
  <1>3. Like(Cons(x, v), v)
    <2>1. x[1] \notin {"iret", "sched", "while", "wakeup1", "ticks++"}
      BY <1>2
    <2>2. Via(Cons(x, v)) = Via(v)
      BY <1>2, <2>1, ViaCons
    <2> QED BY <1>2, <2>1, <2>2, MarksCons DEF Like
  <1>4. Net(Cons(x, v)) = IF op = "unlock" THEN Net(v) + 1
                         ELSE IF op = "pushcli" THEN Net(v) - 1 ELSE Net(v)
    BY <1>2, NetCons
  <1>5. Ins(Cons(x, v), lk) <=> op = "unlock" \/ (op # "xchg" /\ Ins(v, lk))
    <2>1. CASE op \in {"xchg", "unlock"}
      BY <1>2, <2>1, InsCons
    <2>2. CASE op \notin {"xchg", "unlock"}
      BY <1>2, <2>2, InsCons
    <2> QED BY <2>1, <2>2
  <1>6. \A m : m # lk => (Ins(Cons(x, v), m) <=> Ins(v, m))
    BY <1>2, InsCons
  <1> QED BY <1>1, <1>2, <1>3, <1>4, <1>5, <1>6

LEMMA OtherCons ==
  ASSUME NEW x \in Instr, NEW v \in Code,
         x[1] \notin {"pushcli", "xchg", "own", "disown", "unlock", "iret"}
  PROVE  /\ Net(Cons(x, v)) = Net(v) /\ Via(Cons(x, v)) = Via(v) /\ Between(Cons(x, v)) = 0
         /\ HeldBy(Cons(x, v)) = HeldBy(v)
         /\ \A lk : Ins(Cons(x, v), lk) <=> Ins(v, lk)
         /\ Loose(Cons(x, v))
  <1>1. Net(Cons(x, v)) = Net(v) /\ Via(Cons(x, v)) = Via(v)
    BY NetCons, ViaCons
  <1>2. \A lk : Ins(Cons(x, v), lk) <=> Ins(v, lk)
    BY InsCons
  <1>3. Loose(Cons(x, v)) /\ Between(Cons(x, v)) = 0
    BY CodeCons
  <1> QED BY <1>1, <1>2, <1>3 DEF HeldBy

LEMMA SoundHead ==
  ASSUME NEW t, NEW s \in Code, Sound(t, s), s # << >>
  PROVE  /\ Head(s) \in Instr /\ Tail(s) \in Code /\ s = Cons(Head(s), Tail(s))
         /\ Fine(t, Head(s), Tail(s)) /\ Sound(t, Tail(s)) /\ Whole(t, s) /\ Whole(t, Tail(s))
  <1>1. PICK x, v : x = Head(s) /\ v = Tail(s)
    OBVIOUS
  <1>2. x \in Instr /\ v \in Code /\ s = Cons(x, v)
    BY <1>1, ConsAgain DEF Code
  <1>3. Fine(t, x, v) /\ Whole(t, s) /\ Sound(t, v)
    BY <1>2, SoundCons
  <1>4. Whole(t, v)
    BY <1>2, <1>3, SoundWhole
  <1> QED BY <1>1, <1>2, <1>3, <1>4

\* One of lock's instructions is put before v.
LEMMA LockFine ==
  ASSUME NEW t, NEW op \in {"pushcli", "xchg", "own", "disown", "unlock"}, NEW lk \in Lock,
         NEW v \in Code, Sound(t, v), t \in Process => v # << >>, LocksFine(<< op, lk >>, v),
         Net(Cons(<< op, lk >>, v)) = HeldBy(Cons(<< op, lk >>, v)) + Between(Cons(<< op, lk >>, v)),
         Sleeps(v) => Ins(Cons(<< op, lk >>, v), "ptable") \/ Ins(Cons(<< op, lk >>, v), "tickslock"),
         Has1(v, "wakeup1") /\ ~Has1(v, "ticks++") => Ins(Cons(<< op, lk >>, v), "tickslock")
  PROVE  Sound(t, Cons(<< op, lk >>, v))
  <1>1. PICK x, u : x = << op, lk >> /\ u = Cons(x, v)
    OBVIOUS
  <1>2. x \in Instr /\ x[1] = op /\ x[2] = lk /\ Like(u, v)
    BY <1>1, LockCons
  <1>3. Fine(t, x, v)
    <2>1. SwitchFine(t, x, v)
      BY <1>2 DEF SwitchFine
    <2>2. CallsFine(x, v)
      BY <1>2 DEF CallsFine
    <2> QED BY <1>1, <2>1, <2>2 DEF Fine
  <1>4. Whole(t, u)
    <2>1. Whole(t, v)
      BY SoundWhole
    <2>2. t \in Process => Via(u) # "none"
      BY <1>2, <2>1 DEF Whole, Like
    <2>3. Sleeps(u) => Via(u) = "call" /\ (Ins(u, "ptable") \/ Ins(u, "tickslock"))
      BY <1>1, <1>2, <2>1 DEF Whole, Like
    <2>4. Has1(u, "wakeup1") \/ Has1(u, "ticks++") => Via(u) = "interrupt"
      BY <1>2, <2>1 DEF Whole, Like
    <2>5. Has1(u, "wakeup1") /\ ~Has1(u, "ticks++") => Ins(u, "tickslock")
      BY <1>1, <1>2 DEF Like
    <2> QED BY <1>1, <2>2, <2>3, <2>4, <2>5 DEF Whole
  <1> QED BY <1>1, <1>2, <1>3, <1>4, SoundCons

LEMMA TwoLocks ==
  /\ "ptable" \in Lock /\ "tickslock" \in Lock /\ "ptable" # "tickslock"
  /\ \A lk \in Lock : lk = "ptable" \/ lk = "tickslock"
  BY DEF Lock

LEMMA ReleaseCons ==
  ASSUME NEW lk \in Lock, NEW v \in Code
  PROVE  Release(lk) \o v = Cons(<< "disown", lk >>, Cons(<< "unlock", lk >>, v))
  <1>1. PICK x, y : x = << "disown", lk >> /\ y = << "unlock", lk >>
    OBVIOUS
  <1>2. x \in Instr /\ y \in Instr
    BY <1>1, LockCons
  <1>3. << y >> \in Seq(Instr) /\ v \in Seq(Instr)
    BY <1>2 DEF Code
  <1>4. Release(lk) = << x >> \o << y >>
    BY <1>1 DEF Release, DoWith
  <1>5. (<< x >> \o << y >>) \o v = Cons(x, << y >> \o v)
    <2>1. PICK q \in Seq(Instr) : q = << y >>
      BY <1>3
    <2>2. (<< x >> \o q) \o v = Cons(x, q \o v)
      BY <1>2, <1>3, ConsConcat
    <2> QED BY <2>1, <2>2
  <1> QED BY <1>1, <1>4, <1>5 DEF Cons

LEMMA AcquireCons ==
  ASSUME NEW lk \in Lock, NEW v \in Code
  PROVE  Acquire(lk) \o v = Cons(<< "pushcli", lk >>, Cons(<< "xchg", lk >>, Cons(<< "own", lk >>, v)))
  <1>1. PICK x, y, z : x = << "pushcli", lk >> /\ y = << "xchg", lk >> /\ z = << "own", lk >>
    OBVIOUS
  <1>2. x \in Instr /\ y \in Instr /\ z \in Instr
    BY <1>1, LockCons
  <1>3. << x >> \in Seq(Instr) /\ << y >> \in Seq(Instr) /\ << z >> \in Seq(Instr) /\ v \in Seq(Instr)
    BY <1>2 DEF Code
  <1>4. Acquire(lk) = (<< x >> \o << y >>) \o << z >>
    BY <1>1 DEF Acquire, DoWith
  <1>5. (<< x >> \o << y >>) \o << z >> = << x >> \o (<< y >> \o << z >>)
    BY <1>3, ConcatAssociative
  <1>6. << y >> \o << z >> \in Seq(Instr)
    BY <1>3, ConcatProperties
  <1>7. (<< x >> \o (<< y >> \o << z >>)) \o v = Cons(x, (<< y >> \o << z >>) \o v)
    <2>1. PICK q \in Seq(Instr) : q = << y >> \o << z >>
      BY <1>6
    <2>2. (<< x >> \o q) \o v = Cons(x, q \o v)
      BY <1>2, <1>3, ConsConcat
    <2> QED BY <2>1, <2>2
  <1>8. (<< y >> \o << z >>) \o v = Cons(y, << z >> \o v)
    <2>1. PICK q \in Seq(Instr) : q = << z >>
      BY <1>3
    <2>2. (<< y >> \o q) \o v = Cons(y, q \o v)
      BY <1>2, <1>3, ConsConcat
    <2> QED BY <2>1, <2>2
  <1> QED BY <1>1, <1>4, <1>5, <1>7, <1>8 DEF Cons

\* release is put before code that no longer has the lock.
LEMMA ReleaseFine ==
  ASSUME NEW t, NEW lk \in Lock, NEW v \in Code, Sound(t, v), Loose(v), ~Ins(v, lk),
         t \in Process => v # << >>
  PROVE  /\ Release(lk) \o v \in Code /\ Sound(t, Release(lk) \o v) /\ Like(Release(lk) \o v, v)
         /\ Ins(Release(lk) \o v, lk) /\ Loose(Release(lk) \o v)
         /\ \A m : m # lk => (Ins(Release(lk) \o v, m) <=> Ins(v, m))
         /\ Release(lk) \o v # << >> /\ Head(Release(lk) \o v) = << "disown", lk >>
  <1>1. PICK a, b, u, w : /\ a = << "unlock", lk >> /\ u = Cons(a, v)
                         /\ b = << "disown", lk >> /\ w = Cons(b, u)
    OBVIOUS
  <1>2. w = Release(lk) \o v
    BY <1>1, ReleaseCons
  <1>3. /\ a \in Instr /\ Like(u, v) /\ Net(u) = Net(v) + 1 /\ Ins(u, lk)
        /\ \A m : m # lk => (Ins(u, m) <=> Ins(v, m))
    BY <1>1, LockCons
  <1>4. /\ u \in Code /\ u # << >> /\ Head(u) = a /\ Between(u) = 0
    BY <1>1, <1>3, CodeCons
  <1>5. Whole(t, v) /\ Between(v) = 0
    BY SoundWhole DEF Loose, Between
  <1>6. Sound(t, u)
    <2>1. Net(u) = HeldBy(u) + Between(u)
      BY <1>3, <1>4, <1>5, TwoLocks DEF Whole, HeldBy
    <2>2. LocksFine(a, v)
      BY <1>1 DEF LocksFine
    <2>3. Sleeps(v) => Ins(u, "ptable") \/ Ins(u, "tickslock")
      BY <1>3, TwoLocks
    <2>4. Has1(v, "wakeup1") /\ ~Has1(v, "ticks++") => Ins(u, "tickslock")
      BY <1>3, <1>5, TwoLocks DEF Whole
    <2> QED BY <1>1, <2>1, <2>2, <2>3, <2>4, LockFine
  <1>7. /\ b \in Instr /\ Like(w, u) /\ Net(w) = Net(u)
        /\ \A m : Ins(w, m) <=> Ins(u, m)
    BY <1>1, <1>4, LockCons
  <1>8. w \in Code /\ w # << >> /\ Head(w) = b /\ Between(w) = 0 /\ Loose(w)
    BY <1>1, <1>4, <1>7, CodeCons
  <1>9. Sound(t, w)
    <2>0. Whole(t, u)
      BY <1>4, <1>6, SoundWhole
    <2>1. Net(w) = HeldBy(w) + Between(w)
      BY <1>4, <1>7, <1>8, <2>0 DEF Whole, HeldBy
    <2>2. LocksFine(b, u)
      BY <1>1, <1>4 DEF LocksFine
    <2>3. Sleeps(u) => Ins(w, "ptable") \/ Ins(w, "tickslock")
      BY <1>7, <2>0 DEF Whole
    <2>4. Has1(u, "wakeup1") /\ ~Has1(u, "ticks++") => Ins(w, "tickslock")
      BY <1>7, <2>0 DEF Whole
    <2> QED BY <1>1, <1>4, <1>6, <2>1, <2>2, <2>3, <2>4, LockFine
  <1>10. Like(w, v)
    BY <1>3, <1>7 DEF Like
  <1> QED BY <1>1, <1>2, <1>3, <1>7, <1>8, <1>9, <1>10

\* acquire is put before code that then has the lock.
LEMMA AcquireFine ==
  ASSUME NEW t, NEW lk \in Lock, NEW v \in Code, Sound(t, v), v # << >>, Loose(v), Ins(v, lk),
         lk = "tickslock" => ~Ins(v, "ptable") /\ ~Sleeps(v),
         Sleeps(v) => Ins(v, "tickslock"),
         Has1(v, "wakeup1") /\ ~Has1(v, "ticks++") => lk = "ptable"
  PROVE  /\ Acquire(lk) \o v \in Code /\ Sound(t, Acquire(lk) \o v) /\ Like(Acquire(lk) \o v, v)
         /\ ~Ins(Acquire(lk) \o v, lk) /\ Loose(Acquire(lk) \o v)
         /\ \A m : m # lk => (Ins(Acquire(lk) \o v, m) <=> Ins(v, m))
         /\ Acquire(lk) \o v # << >> /\ Head(Acquire(lk) \o v) = << "pushcli", lk >>
  <1>1. PICK a, b, c, u, w, z : /\ a = << "own", lk >> /\ u = Cons(a, v)
                               /\ b = << "xchg", lk >> /\ w = Cons(b, u)
                               /\ c = << "pushcli", lk >> /\ z = Cons(c, w)
    OBVIOUS
  <1>2. z = Acquire(lk) \o v
    BY <1>1, AcquireCons
  <1>3. Whole(t, v) /\ Between(v) = 0
    BY SoundWhole DEF Loose, Between
  <1>4. /\ a \in Instr /\ Like(u, v) /\ Net(u) = Net(v) /\ \A m : Ins(u, m) <=> Ins(v, m)
    BY <1>1, LockCons
  <1>5. u \in Code /\ u # << >> /\ Head(u) = a /\ Between(u) = 0
    BY <1>1, <1>4, CodeCons
  <1>6. Net(v) = HeldBy(v) /\ HeldBy(u) = HeldBy(v) /\ Net(v) \in Int
    <2>1. HeldBy(v) \in Int
      BY DEF HeldBy
    <2> QED BY <1>3, <1>4, <2>1 DEF Whole, HeldBy
  <1>7. Sound(t, u)
    <2>1. Net(u) = HeldBy(u) + Between(u)
      BY <1>4, <1>5, <1>6
    <2>2. LocksFine(a, v)
      BY <1>1 DEF LocksFine
    <2>3. Sleeps(v) => Ins(u, "ptable") \/ Ins(u, "tickslock")
      BY <1>3, <1>4 DEF Whole
    <2>4. Has1(v, "wakeup1") /\ ~Has1(v, "ticks++") => Ins(u, "tickslock")
      BY <1>3, <1>4 DEF Whole
    <2> QED BY <1>1, <2>1, <2>2, <2>3, <2>4, LockFine
  <1>8. /\ b \in Instr /\ Like(w, u) /\ Net(w) = Net(u) /\ ~Ins(w, lk)
        /\ \A m : m # lk => (Ins(w, m) <=> Ins(u, m))
    BY <1>1, <1>5, LockCons
  <1>9. w \in Code /\ w # << >> /\ Head(w) = b /\ Between(w) = 1
    BY <1>1, <1>5, <1>8, CodeCons
  <1>10. HeldBy(w) = HeldBy(v) - 1
    BY <1>4, <1>8, TwoLocks DEF HeldBy
  <1>11. Sound(t, w)
    <2>1. Net(w) = HeldBy(w) + Between(w)
      BY <1>4, <1>6, <1>8, <1>9, <1>10
    <2>2. LocksFine(b, u)
      BY <1>1, <1>4, <1>5 DEF LocksFine
    <2>3. Sleeps(u) => Ins(w, "ptable") \/ Ins(w, "tickslock")
      BY <1>4, <1>8, TwoLocks DEF Like
    <2>4. Has1(u, "wakeup1") /\ ~Has1(u, "ticks++") => Ins(w, "tickslock")
      BY <1>3, <1>4, <1>8, TwoLocks DEF Like, Whole
    <2> QED BY <1>1, <1>5, <1>7, <2>1, <2>2, <2>3, <2>4, LockFine
  <1>12. /\ c \in Instr /\ Like(z, w) /\ Net(z) = Net(w) - 1 /\ \A m : Ins(z, m) <=> Ins(w, m)
    BY <1>1, <1>9, LockCons
  <1>13. z \in Code /\ z # << >> /\ Head(z) = c /\ Between(z) = 0 /\ Loose(z)
    BY <1>1, <1>9, <1>12, CodeCons
  <1>14. Sound(t, z)
    <2>0. Whole(t, w)
      BY <1>9, <1>11, SoundWhole
    <2>1. Net(z) = HeldBy(z) + Between(z)
      <3>1. HeldBy(z) = HeldBy(w) /\ HeldBy(w) \in Int
        BY <1>12 DEF HeldBy
      <3>2. Net(w) = HeldBy(w) + 1
        BY <1>9, <2>0 DEF Whole
      <3> QED BY <1>12, <1>13, <3>1, <3>2
    <2>2. LocksFine(c, w)
      BY <1>1, <1>9 DEF LocksFine
    <2>3. Sleeps(w) => Ins(z, "ptable") \/ Ins(z, "tickslock")
      BY <1>12, <2>0 DEF Whole
    <2>4. Has1(w, "wakeup1") /\ ~Has1(w, "ticks++") => Ins(z, "tickslock")
      BY <1>12, <2>0 DEF Whole
    <2> QED BY <1>1, <1>9, <1>11, <2>1, <2>2, <2>3, <2>4, LockFine
  <1>15. Like(z, v)
    BY <1>4, <1>8, <1>12 DEF Like
  <1> QED BY <1>1, <1>2, <1>4, <1>8, <1>12, <1>13, <1>14, <1>15

\* Another instruction is put before v.
LEMMA OtherFine ==
  ASSUME NEW t, NEW x \in Instr, NEW v \in Code, Sound(t, v), v # << >>, Loose(v),
         x[1] \notin {"pushcli", "xchg", "own", "disown", "unlock", "iret"},
         SwitchFine(t, x, v), CallsFine(x, v),
         x[1] = "sched" /\ x[2] = "SLEEPING" => Via(v) = "call",
         x[1] \in {"wakeup1", "ticks++"} => Via(v) = "interrupt"
  PROVE  Sound(t, Cons(x, v)) /\ Cons(x, v) \in Code /\ Loose(Cons(x, v))
  <1>1. PICK u : u = Cons(x, v)
    OBVIOUS
  <1>2. /\ Net(u) = Net(v) /\ Via(u) = Via(v) /\ Between(u) = 0 /\ HeldBy(u) = HeldBy(v)
        /\ Loose(u) /\ \A lk : Ins(u, lk) <=> Ins(v, lk)
    BY <1>1, OtherCons
  <1>3. /\ \A op : Has1(u, op) <=> x[1] = op \/ Has1(v, op)
        /\ Sleeps(u) <=> (x[1] = "sched" /\ x[2] = "SLEEPING") \/ Sleeps(v)
    BY <1>1, MarksCons
  <1>4. Whole(t, v) /\ Between(v) = 0
    BY SoundWhole DEF Loose, Between
  <1>5. LocksFine(x, v)
    BY DEF LocksFine
  <1>6. Whole(t, u)
    <2>1. Net(u) = HeldBy(u) + Between(u)
      BY <1>2, <1>4 DEF Whole
    <2>2. Sleeps(u) => Via(u) = "call" /\ (Ins(u, "ptable") \/ Ins(u, "tickslock"))
      <3>1. Sleeps(v) => Via(u) = "call" /\ (Ins(u, "ptable") \/ Ins(u, "tickslock"))
        BY <1>2, <1>4 DEF Whole
      <3>2. x[1] = "sched" => Ins(u, "ptable")
        BY <1>2 DEF SwitchFine
      <3> QED BY <1>2, <1>3, <3>1, <3>2
    <2>3. Has1(u, "wakeup1") \/ Has1(u, "ticks++") => Via(u) = "interrupt"
      BY <1>2, <1>3, <1>4 DEF Whole
    <2>4. Has1(u, "wakeup1") /\ ~Has1(u, "ticks++") => Ins(u, "tickslock")
      <3>1. x[1] = "wakeup1" => Ins(u, "tickslock")
        BY <1>2 DEF CallsFine
      <3>2. Has1(v, "wakeup1") /\ ~Has1(v, "ticks++") => Ins(u, "tickslock")
        BY <1>2, <1>4 DEF Whole
      <3> QED BY <1>3, <3>1, <3>2
    <2>5. t \in Process => Via(u) # "none"
      BY <1>2, <1>4 DEF Whole
    <2> QED BY <2>1, <2>2, <2>3, <2>4, <2>5 DEF Whole
  <1>7. u \in Code
    BY <1>1, CodeCons
  <1> QED BY <1>1, <1>2, <1>5, <1>6, <1>7, SoundCons DEF Fine

LEMMA IretFine ==
  ASSUME NEW t, NEW k \in {"interrupt", "call", "fork"}, NEW v \in Code, Sound(t, v), Loose(v),
         << "iret", k >> \in Instr, CallsFine(<< "iret", k >>, v)
  PROVE  /\ Sound(t, Cons(<< "iret", k >>, v)) /\ Cons(<< "iret", k >>, v) \in Code
         /\ Via(Cons(<< "iret", k >>, v)) = k /\ Loose(Cons(<< "iret", k >>, v))
         /\ ~Ins(Cons(<< "iret", k >>, v), "ptable") /\ ~Ins(Cons(<< "iret", k >>, v), "tickslock")
         /\ ~Sleeps(Cons(<< "iret", k >>, v)) /\ ~Has1(Cons(<< "iret", k >>, v), "wakeup1")
         /\ ~Has1(Cons(<< "iret", k >>, v), "ticks++")
         /\ Has1(Cons(<< "iret", k >>, v), "while") <=> Has1(v, "while")
         /\ AllOn(Cons(<< "iret", k >>, v)) <=> AllOn(v)
         /\ Head(Cons(<< "iret", k >>, v)) = << "iret", k >> /\ Cons(<< "iret", k >>, v) # << >>
  <1>1. PICK x, u : x = << "iret", k >> /\ u = Cons(x, v)
    OBVIOUS
  <1>2. x \in Instr /\ x[1] = "iret" /\ x[2] = k
    BY <1>1
  <1>3. /\ u \in Code /\ Loose(u) /\ Between(u) = 0 /\ Head(u) = x /\ u # << >>
    BY <1>1, <1>2, CodeCons
  <1>4. Net(u) = Net(v) /\ Via(u) = k /\ \A lk : Ins(u, lk) <=> Ins(v, lk)
    BY <1>1, <1>2, NetCons, ViaCons, InsCons
  <1>5. /\ \A op : op # "iret" => (Has1(u, op) <=> Has1(v, op))
        /\ (Sleeps(u) <=> Sleeps(v)) /\ (AllOn(u) <=> AllOn(v))
    BY <1>1, <1>2, MarksCons
  <1>6. Whole(t, v) /\ Between(v) = 0
    BY SoundWhole DEF Loose, Between
  <1>7. ~Ins(v, "ptable") /\ ~Ins(v, "tickslock") /\ Via(v) # "interrupt"
    <2>1. CASE k = "interrupt"
      BY <1>1, <1>2, <2>1 DEF CallsFine
    <2>2. CASE k # "interrupt"
      <3>1. v = << >>
        BY <1>1, <1>2, <2>2 DEF CallsFine
      <3> QED BY <3>1, EmptyReads
    <2> QED BY <2>1, <2>2
  <1>8. ~Sleeps(v) /\ ~Has1(v, "wakeup1") /\ ~Has1(v, "ticks++")
    BY <1>6, <1>7 DEF Whole
  <1>9. Whole(t, u)
    <2>1. Net(u) = HeldBy(u) + Between(u)
      BY <1>3, <1>4, <1>6 DEF Whole, HeldBy
    <2> QED BY <1>4, <1>5, <1>8, <2>1 DEF Whole
  <1>10. Fine(t, x, v)
    <2>1. LocksFine(x, v)
      BY <1>2 DEF LocksFine
    <2>2. SwitchFine(t, x, v)
      BY <1>2 DEF SwitchFine
    <2> QED BY <1>1, <2>1, <2>2 DEF Fine
  <1>11. Sound(t, u)
    BY <1>1, <1>2, <1>9, <1>10, SoundCons
  <1> QED BY <1>1, <1>3, <1>4, <1>5, <1>7, <1>8, <1>11

LEMMA InstrIn ==
  ASSUME NEW op \in Ops, NEW x \in Operand
  PROVE  /\ << op, x >> \in Instr /\ << op, x >>[1] = op /\ << op, x >>[2] = x
         /\ DoWith(op, x) = << << op, x >> >> /\ DoWith(op, x) \in Code
         /\ \A v \in Code : DoWith(op, x) \o v = Cons(<< op, x >>, v)
  <1>1. PICK y : y = << op, x >>
    OBVIOUS
  <1>2. y \in Instr /\ y[1] = op /\ y[2] = x
    <2>1. << op, x >> \in Ops \X Operand
      OBVIOUS
    <2>2. << op, x >>[1] = op /\ << op, x >>[2] = x
      OBVIOUS
    <2> QED BY <1>1, <2>1, <2>2 DEF Instr
  <1>3. << y >> \in Code
    BY <1>2 DEF Code
  <1> QED BY <1>1, <1>2, <1>3 DEF DoWith, Cons

LEMMA OperandsIn ==
  /\ {"", "RUNNABLE", "SLEEPING", "interrupt", "call", "fork"} \subseteq Operand
  /\ BOOLEAN \subseteq Operand /\ Nat \subseteq Operand
  BY Zenon DEF Operand

LEMMA CodeConcat ==
  ASSUME NEW a \in Code, NEW b \in Code
  PROVE  /\ a \o b \in Code /\ a \o << >> = a /\ << >> \o a = a
         /\ \A v \in Code : (a \o b) \o v = a \o (b \o v)
  <1>1. a \in Seq(Instr) /\ b \in Seq(Instr)
    BY DEF Code
  <1>2. a \o b \in Seq(Instr)
    BY <1>1, ConcatProperties
  <1>3. ASSUME NEW v \in Code PROVE (a \o b) \o v = a \o (b \o v)
    <2>1. v \in Seq(Instr)
      BY DEF Code
    <2> QED BY <1>1, <2>1, ConcatAssociative
  <1>4. a \o << >> = a /\ << >> \o a = a
    BY <1>1, ConcatEmptySeq
  <1> QED BY <1>2, <1>3, <1>4 DEF Code

LEMMA LockCode ==
  ASSUME NEW lk \in Lock
  PROVE  Acquire(lk) \in Code /\ Release(lk) \in Code
  <1>1. /\ DoWith("pushcli", lk) \in Code /\ DoWith("xchg", lk) \in Code /\ DoWith("own", lk) \in Code
        /\ DoWith("disown", lk) \in Code /\ DoWith("unlock", lk) \in Code
    <2>1. lk \in Operand
      BY Zenon DEF Operand
    <2>2. {"pushcli", "xchg", "own", "disown", "unlock"} \subseteq Ops
      BY DEF Ops
    <2> QED BY <2>1, <2>2, InstrIn
  <1>2. DoWith("pushcli", lk) \o DoWith("xchg", lk) \in Code
    BY <1>1, CodeConcat
  <1>3. (DoWith("pushcli", lk) \o DoWith("xchg", lk)) \o DoWith("own", lk) \in Code
    BY <1>1, <1>2, CodeConcat
  <1>4. DoWith("disown", lk) \o DoWith("unlock", lk) \in Code
    BY <1>1, CodeConcat
  <1> QED BY <1>3, <1>4 DEF Acquire, Release

\* Concatenation, as a name.
Then(a, b) == a \o b

LEMMA Regroup ==
  ASSUME NEW a \in Code, NEW b \in Code, NEW v \in Code
  PROVE  Then(Then(a, b), v) = Then(a, Then(b, v))
  <1>1. a \in Seq(Instr) /\ b \in Seq(Instr) /\ v \in Seq(Instr)
    BY DEF Code
  <1>2. (a \o b) \o v = a \o (b \o v)
    BY <1>1, ConcatAssociative
  <1> QED BY <1>2 DEF Then

LEMMA Joined ==
  ASSUME NEW a \in Code, NEW b \in Code
  PROVE  Then(a, b) \in Code
  BY CodeConcat DEF Then

LEMMA DoThen ==
  ASSUME NEW op \in Ops, NEW y \in Operand, NEW v \in Code
  PROVE  Then(DoWith(op, y), v) = Cons(<< op, y >>, v)
  BY InstrIn DEF Then

LEMMA LockThen ==
  ASSUME NEW lk, NEW v
  PROVE  Then(Acquire(lk), v) = Acquire(lk) \o v /\ Then(Release(lk), v) = Release(lk) \o v
  BY DEF Then

\* ReleaseFine and AcquireFine, for Then.
LEMMA ReleaseThen ==
  ASSUME NEW t, NEW lk \in Lock, NEW v \in Code, Sound(t, v), Loose(v), ~Ins(v, lk),
         t \in Process => v # << >>, NEW w, w = Then(Release(lk), v)
  PROVE  /\ w \in Code /\ Sound(t, w) /\ Like(w, v) /\ Ins(w, lk) /\ Loose(w)
         /\ \A m : m # lk => (Ins(w, m) <=> Ins(v, m))
         /\ w # << >> /\ Head(w) = << "disown", lk >>
  <1>1. w = Release(lk) \o v
    BY DEF Then
  <1>2. /\ Release(lk) \o v \in Code /\ Sound(t, Release(lk) \o v) /\ Like(Release(lk) \o v, v)
        /\ Ins(Release(lk) \o v, lk) /\ Loose(Release(lk) \o v)
        /\ \A m : m # lk => (Ins(Release(lk) \o v, m) <=> Ins(v, m))
        /\ Release(lk) \o v # << >> /\ Head(Release(lk) \o v) = << "disown", lk >>
    BY ReleaseFine, Zenon
  <1> QED BY <1>1, <1>2, Zenon

LEMMA AcquireThen ==
  ASSUME NEW t, NEW lk \in Lock, NEW v \in Code, Sound(t, v), v # << >>, Loose(v), Ins(v, lk),
         lk = "tickslock" => ~Ins(v, "ptable") /\ ~Sleeps(v),
         Sleeps(v) => Ins(v, "tickslock"),
         Has1(v, "wakeup1") /\ ~Has1(v, "ticks++") => lk = "ptable",
         NEW w, w = Then(Acquire(lk), v)
  PROVE  /\ w \in Code /\ Sound(t, w) /\ Like(w, v) /\ ~Ins(w, lk) /\ Loose(w)
         /\ \A m : m # lk => (Ins(w, m) <=> Ins(v, m))
         /\ w # << >> /\ Head(w) = << "pushcli", lk >>
  <1>1. w = Acquire(lk) \o v
    BY DEF Then
  <1>2. /\ Acquire(lk) \o v \in Code /\ Sound(t, Acquire(lk) \o v) /\ Like(Acquire(lk) \o v, v)
        /\ ~Ins(Acquire(lk) \o v, lk) /\ Loose(Acquire(lk) \o v)
        /\ \A m : m # lk => (Ins(Acquire(lk) \o v, m) <=> Ins(v, m))
        /\ Acquire(lk) \o v # << >> /\ Head(Acquire(lk) \o v) = << "pushcli", lk >>
    BY AcquireFine, Zenon
  <1> QED BY <1>1, <1>2, Zenon

\* Instructions that have no operand.
NoOperand == ""

LEMMA Words ==
  /\ "sched" \in Ops /\ "intena" \in Ops /\ "slot" \in Ops /\ "wakeup1" \in Ops /\ "ticks++" \in Ops
  /\ "preempt" \in Ops /\ "iret" \in Ops /\ "ticks0" \in Ops /\ "while" \in Ops
  /\ NoOperand \in Operand /\ "RUNNABLE" \in Operand /\ "SLEEPING" \in Operand
  /\ "interrupt" \in Operand /\ "call" \in Operand /\ "fork" \in Operand
  /\ \A n \in Nat : n \in Operand
  /\ \A b \in BOOLEAN : b \in Operand
  <1>1. /\ "sched" \in Ops /\ "intena" \in Ops /\ "slot" \in Ops /\ "wakeup1" \in Ops
        /\ "ticks++" \in Ops /\ "preempt" \in Ops /\ "iret" \in Ops /\ "ticks0" \in Ops
        /\ "while" \in Ops
    BY DEF Ops
  <1>3. /\ NoOperand \in Operand /\ "RUNNABLE" \in Operand /\ "SLEEPING" \in Operand
        /\ "interrupt" \in Operand /\ "call" \in Operand /\ "fork" \in Operand
    BY OperandsIn, Zenon DEF NoOperand
  <1>4. (\A n \in Nat : n \in Operand) /\ \A b \in BOOLEAN : b \in Operand
    BY OperandsIn, Zenon
  <1> QED BY <1>1, <1>3, <1>4

\* The code that ends with iret k.
LEMMA LastFine ==
  ASSUME NEW t, NEW k \in {"call", "fork"}, NEW v, v = DoWith("iret", k)
  PROVE  /\ v \in Code /\ v \o << >> = v /\ Sound(t, v) /\ Via(v) = k /\ Loose(v) /\ ~Sleeps(v)
         /\ ~Ins(v, "ptable") /\ ~Ins(v, "tickslock") /\ v # << >>
         /\ ~Has1(v, "while") /\ ~Has1(v, "wakeup1")
  <1>1. "iret" \in Ops /\ k \in Operand
    BY Words
  <1>2. << "iret", k >> \in Instr /\ v \in Code /\ v \o << >> = Cons(<< "iret", k >>, << >>)
    BY <1>1, InstrIn, EmptyReads
  <1>3. v \o << >> = v
    BY <1>2, CodeConcat
  <1>4. v = Cons(<< "iret", k >>, << >>)
    BY <1>2, <1>3
  <1>5. CallsFine(<< "iret", k >>, << >>)
    BY EmptyReads DEF CallsFine
  <1>6. << >> \in Code /\ Sound(t, << >>) /\ Loose(<< >>) /\ ~Has1(<< >>, "while")
    BY EmptyReads, SoundEmpty
  <1>7. k \in {"interrupt", "call", "fork"}
    OBVIOUS
  <1>8. PICK e \in Code : e = << >>
    BY <1>6
  <1>9. PICK u : u = Cons(<< "iret", k >>, e)
    OBVIOUS
  <1>10. /\ Sound(t, u) /\ Via(u) = k /\ Loose(u) /\ ~Ins(u, "ptable") /\ ~Ins(u, "tickslock")
         /\ ~Sleeps(u) /\ ~Has1(u, "wakeup1") /\ (Has1(u, "while") <=> Has1(e, "while")) /\ u # << >>
    BY <1>2, <1>5, <1>6, <1>7, <1>8, <1>9, IretFine
  <1> QED BY <1>2, <1>3, <1>4, <1>6, <1>8, <1>9, <1>10

LEMMA DoCode ==
  ASSUME NEW op \in Ops, NEW y \in Operand
  PROVE  DoWith(op, y) \in Code
  BY InstrIn

\* Another instruction is put before v: what the list then says.
LEMMA OtherReads ==
  ASSUME NEW t, NEW i \in Instr, NEW v \in Code, Sound(t, v), v # << >>, Loose(v),
         i[1] \notin {"pushcli", "xchg", "own", "disown", "unlock", "iret"},
         SwitchFine(t, i, v), CallsFine(i, v),
         i[1] = "sched" /\ i[2] = "SLEEPING" => Via(v) = "call",
         i[1] \in {"wakeup1", "ticks++"} => Via(v) = "interrupt",
         NEW w, w = Cons(i, v)
  PROVE  /\ w \in Code /\ Sound(t, w) /\ Loose(w) /\ w # << >> /\ Head(w) = i
         /\ Via(w) = Via(v)
         /\ (Ins(w, "ptable") <=> Ins(v, "ptable")) /\ (Ins(w, "tickslock") <=> Ins(v, "tickslock"))
         /\ Has1(w, "wakeup1") <=> i[1] = "wakeup1" \/ Has1(v, "wakeup1")
         /\ Has1(w, "ticks++") <=> i[1] = "ticks++" \/ Has1(v, "ticks++")
         /\ Has1(w, "while") <=> i[1] = "while" \/ Has1(v, "while")
         /\ Sleeps(w) <=> (i[1] = "sched" /\ i[2] = "SLEEPING") \/ Sleeps(v)
         /\ AllOn(w) <=> (i[1] = "while" => ~Over(i[2])) /\ AllOn(v)
  <1>3. w \in Code /\ Sound(t, w) /\ Loose(w)
    BY OtherFine
  <1>4. w # << >> /\ Head(w) = i
    BY CodeCons
  <1>5. Via(w) = Via(v)
    BY OtherCons
  <1>6. (Ins(w, "ptable") <=> Ins(v, "ptable")) /\ (Ins(w, "tickslock") <=> Ins(v, "tickslock"))
    <2>1. \A lk : Ins(w, lk) <=> Ins(v, lk)
      BY OtherCons
    <2> QED BY <2>1
  <1>7. \A o : Has1(w, o) <=> i[1] = o \/ Has1(v, o)
    BY MarksCons
  <1>8. /\ Sleeps(w) <=> (i[1] = "sched" /\ i[2] = "SLEEPING") \/ Sleeps(v)
        /\ AllOn(w) <=> (i[1] = "while" => ~Over(i[2])) /\ AllOn(v)
    BY MarksCons
  <1> QED BY <1>3, <1>4, <1>5, <1>6, <1>7, <1>8

---------------------------------------------------------------------------
(* The lists that calls and interrupts begin with. *)

LEMMA ForkretFine ==
  ASSUME NEW t \in Process
  PROVE  /\ Forkret \in Code /\ Sound(t, Forkret) /\ Forkret # << >>
         /\ Head(Forkret) = << "disown", "ptable" >> /\ Via(Forkret) = "fork"
         /\ Ins(Forkret, "ptable") /\ ~Ins(Forkret, "tickslock") /\ ~Sleeps(Forkret)
  <1>1. PICK v : v = DoWith("iret", "fork")
    OBVIOUS
  <1>2. /\ v \in Code /\ Sound(t, v) /\ Via(v) = "fork" /\ Loose(v) /\ ~Sleeps(v)
        /\ ~Ins(v, "ptable") /\ ~Ins(v, "tickslock") /\ v # << >>
    BY <1>1, LastFine
  <1>3. Forkret = Release("ptable") \o v
    BY <1>1 DEF Forkret
  <1> QED BY <1>2, <1>3, ReleaseFine, TwoLocks DEF Like

LEMMA SchedulerFine ==
  ASSUME NEW t \in Cpu
  PROVE  /\ Scheduler \in Code /\ Sound(t, Scheduler) /\ Loose(Scheduler) /\ Scheduler # << >>
         /\ Via(Scheduler) = "none" /\ ~Sleeps(Scheduler)
         /\ ~Ins(Scheduler, "ptable") /\ ~Ins(Scheduler, "tickslock")
  <1>1. t \notin Process
    BY SpinAssumption
  <1>2. PICK y \in Operand, op \in Ops : op = "slot" /\ y = 0
    BY Words
  <1>3. PICK a \in Code, b \in Code, v \in Code :
          a = Acquire("ptable") /\ b = DoWith(op, y) /\ v = Release("ptable")
    BY DoCode, LockCode, TwoLocks
  <1>4. PICK e \in Code : e = << >>
    BY EmptyReads
  <1>5. v = Release("ptable") \o e
    BY <1>3, <1>4, CodeConcat
  <1>6. /\ Sound(t, v) /\ Ins(v, "ptable") /\ Loose(v) /\ v # << >> /\ ~Ins(v, "tickslock")
        /\ Via(v) = "none" /\ ~Sleeps(v) /\ ~Has1(v, "wakeup1")
    <2>1. /\ Sound(t, e) /\ Loose(e) /\ ~Ins(e, "ptable") /\ ~Ins(e, "tickslock")
          /\ Via(e) = "none" /\ ~Sleeps(e) /\ ~Has1(e, "wakeup1")
      BY <1>4, EmptyReads, SoundEmpty
    <2> QED BY <1>1, <1>5, <2>1, ReleaseFine, TwoLocks DEF Like
  <1>7. PICK w \in Code : w = Then(b, v)
    BY Joined
  <1>8. PICK i \in Instr : i = << op, y >> /\ i[1] = op /\ i[2] = y
    BY InstrIn
  <1>9. SwitchFine(t, i, v) /\ CallsFine(i, v)
    BY <1>2, <1>6, <1>8 DEF SwitchFine, CallsFine
  <1>10. i[1] \notin {"pushcli", "xchg", "own", "disown", "unlock", "iret", "sched", "wakeup1", "ticks++"}
    BY <1>2, <1>8
  <1>11. w = Cons(i, v)
    BY <1>3, <1>7, <1>8, DoThen
  <1>12. /\ Sound(t, w) /\ Loose(w) /\ w # << >>
         /\ Via(w) = "none" /\ ~Sleeps(w) /\ ~Has1(w, "wakeup1")
         /\ Ins(w, "ptable") /\ ~Ins(w, "tickslock")
    BY <1>6, <1>9, <1>10, <1>11, OtherReads
  <1>13. Then(Then(a, b), v) = Then(a, w)
    BY <1>7, Regroup
  <1>14. Scheduler = Then(Then(a, b), v)
    BY <1>2, <1>3 DEF Scheduler, Then
  <1>15. Scheduler = Acquire("ptable") \o w
    BY <1>3, <1>13, <1>14, LockThen
  <1> QED BY <1>12, <1>15, AcquireFine, TwoLocks DEF Like

LEMMA SysSleepFine ==
  ASSUME NEW t \in Process
  PROVE  /\ SysSleep \in Code /\ Sound(t, SysSleep) /\ Loose(SysSleep) /\ SysSleep # << >>
         /\ Via(SysSleep) = "call" /\ ~Sleeps(SysSleep)
         /\ ~Ins(SysSleep, "ptable") /\ ~Ins(SysSleep, "tickslock")
  <1>1. PICK y \in Operand, op \in Ops : op = "ticks0" /\ y = NoOperand
    BY Words
  <1>2. DoWith("iret", "call") \in Code
    BY LastFine
  <1>3. PICK a \in Code, b \in Code, r \in Code, v \in Code :
          /\ a = Acquire("tickslock") /\ b = DoWith(op, y)
          /\ r = Release("tickslock") /\ v = DoWith("iret", "call")
    BY <1>2, DoCode, LockCode, TwoLocks
  <1>4. /\ Sound(t, v) /\ Via(v) = "call" /\ Loose(v) /\ ~Sleeps(v)
        /\ ~Ins(v, "ptable") /\ ~Ins(v, "tickslock") /\ v # << >> /\ ~Has1(v, "while")
        /\ ~Has1(v, "wakeup1")
    BY <1>3, LastFine
  <1>5. PICK u \in Code : u = Then(r, v)
    BY Joined
  <1>6. /\ Sound(t, u) /\ Ins(u, "tickslock") /\ Loose(u) /\ u # << >> /\ ~Ins(u, "ptable")
        /\ Via(u) = "call" /\ ~Sleeps(u) /\ ~Has1(u, "wakeup1") /\ ~Has1(u, "while")
    <2>1. u = Release("tickslock") \o v
      BY <1>3, <1>5, LockThen
    <2> QED BY <1>4, <2>1, ReleaseFine, TwoLocks DEF Like
  <1>7. PICK w \in Code : w = Then(b, u)
    BY Joined
  <1>8. PICK i \in Instr : i = << op, y >> /\ i[1] = op /\ i[2] = y
    BY InstrIn
  <1>9. SwitchFine(t, i, u) /\ CallsFine(i, u)
    BY <1>1, <1>6, <1>8 DEF SwitchFine, CallsFine
  <1>10. i[1] \notin {"pushcli", "xchg", "own", "disown", "unlock", "iret", "sched", "wakeup1", "ticks++"}
    BY <1>1, <1>8
  <1>11. w = Cons(i, u)
    BY <1>3, <1>7, <1>8, DoThen
  <1>12. /\ Sound(t, w) /\ Loose(w) /\ w # << >>
         /\ Via(w) = "call" /\ ~Sleeps(w) /\ ~Has1(w, "wakeup1")
         /\ Ins(w, "tickslock") /\ ~Ins(w, "ptable")
    BY <1>6, <1>9, <1>10, <1>11, OtherReads
  <1>13. PICK c \in Code : c = Then(a, b)
    BY Joined
  <1>14. Then(Then(c, r), v) = Then(c, u)
    BY <1>5, Regroup
  <1>15. Then(c, u) = Then(a, w)
    BY <1>7, <1>13, Regroup
  <1>16. SysSleep = Then(Then(c, r), v)
    BY <1>1, <1>3, <1>13, Zenon DEF SysSleep, Do, DoWith, NoOperand, Then
  <1>17. SysSleep = Acquire("tickslock") \o w
    BY <1>3, <1>14, <1>15, <1>16, LockThen
  <1> QED BY <1>12, <1>17, AcquireFine, TwoLocks DEF Like

LEMMA YieldFine ==
  ASSUME NEW t \in Process, NEW v \in Code, Sound(t, v), v # << >>, Loose(v),
         ~Ins(v, "ptable"), ~Ins(v, "tickslock"), NEW w, w = Then(Yield, v)
  PROVE  /\ w \in Code /\ Sound(t, w) /\ Loose(w) /\ w # << >> /\ Via(w) = Via(v)
         /\ ~Ins(w, "ptable") /\ ~Ins(w, "tickslock")
  <1>1. PICK y \in Operand, op \in Ops : op = "sched" /\ y = "RUNNABLE"
    BY Words
  <1>2. PICK a \in Code, b \in Code, r \in Code :
          a = Acquire("ptable") /\ b = DoWith(op, y) /\ r = Release("ptable")
    BY DoCode, LockCode, TwoLocks
  <1>3. Whole(t, v)
    BY SoundWhole
  <1>4. ~Sleeps(v) /\ ~(Has1(v, "wakeup1") /\ ~Has1(v, "ticks++"))
    BY <1>3 DEF Whole
  <1>5. PICK u \in Code : u = Then(r, v)
    BY Joined
  <1>6. /\ Sound(t, u) /\ Ins(u, "ptable") /\ Loose(u) /\ u # << >> /\ ~Ins(u, "tickslock")
        /\ Via(u) = Via(v) /\ ~Sleeps(u) /\ ~(Has1(u, "wakeup1") /\ ~Has1(u, "ticks++"))
        /\ Head(u) = << "disown", "ptable" >>
    <2>1. u = Then(Release("ptable"), v)
      BY <1>2, <1>5
    <2> QED BY <1>4, <2>1, ReleaseThen, TwoLocks DEF Like
  <1>7. PICK z \in Code : z = Then(b, u)
    BY Joined
  <1>8. PICK i \in Instr : i = << op, y >> /\ i[1] = op /\ i[2] = y
    BY InstrIn
  <1>9. SwitchFine(t, i, u) /\ CallsFine(i, u)
    BY <1>1, <1>6, <1>8 DEF SwitchFine, CallsFine
  <1>10. /\ i[1] \notin {"pushcli", "xchg", "own", "disown", "unlock", "iret", "wakeup1", "ticks++"}
         /\ ~(i[1] = "sched" /\ i[2] = "SLEEPING")
    BY <1>1, <1>8
  <1>11. z = Cons(i, u)
    BY <1>2, <1>7, <1>8, DoThen
  <1>12. /\ Sound(t, z) /\ Loose(z) /\ z # << >>
         /\ Via(z) = Via(v) /\ ~Sleeps(z) /\ ~(Has1(z, "wakeup1") /\ ~Has1(z, "ticks++"))
         /\ Ins(z, "ptable") /\ ~Ins(z, "tickslock")
    BY <1>6, <1>9, <1>10, <1>11, OtherReads
  <1>13. PICK c \in Code : c = Then(a, b)
    BY Joined
  <1>14. Then(Then(c, r), v) = Then(c, u)
    BY <1>5, Regroup
  <1>15. Then(c, u) = Then(a, z)
    BY <1>7, <1>13, Regroup
  <1>16. w = Then(Then(c, r), v)
    BY <1>1, <1>2, <1>13, Zenon DEF Yield, Sched, Then
  <1>17. w = Then(Acquire("ptable"), z)
    BY <1>2, <1>14, <1>15, <1>16
  <1> QED BY <1>12, <1>17, AcquireThen, TwoLocks DEF Like

LEMMA NoneOver ==
  ASSUME NEW v, ~Has1(v, "while")
  PROVE  AllOn(v)
  BY DEF Has1, OpAt, AllOn

LEMMA SleepFine ==
  ASSUME NEW t \in Process, NEW n \in Nat, NEW v \in Code, Sound(t, v), v # << >>, Loose(v),
         CallsFine(<< "while", n >>, v), ~Over(n),
         NEW w, w = Then(Then(Sleep("tickslock"), DoWith("while", n)), v)
  PROVE  /\ w \in Code /\ Sound(t, w) /\ Loose(w) /\ w # << >> /\ Via(w) = "call"
         /\ ~Ins(w, "ptable") /\ Ins(w, "tickslock") /\ AllOn(w)
  <1>1. PICK y \in Operand, op \in Ops, z \in Operand, os \in Ops :
          op = "while" /\ y = n /\ os = "sched" /\ z = "SLEEPING"
    BY Words
  <1>2. PICK a \in Code, b \in Code, r \in Code, s \in Code, q \in Code, k \in Code :
          /\ a = Acquire("ptable") /\ r = Release("tickslock") /\ s = DoWith(os, z)
          /\ q = Release("ptable") /\ b = Acquire("tickslock") /\ k = DoWith(op, y)
    BY DoCode, LockCode, TwoLocks
  <1>3. /\ Ins(v, "tickslock") /\ ~Ins(v, "ptable") /\ ~Has1(v, "while") /\ ~Sleeps(v)
        /\ Via(v) = "call"
    <2>1. PICK i : i = << "while", n >>
      OBVIOUS
    <2> QED BY <2>1 DEF CallsFine
  <1>4. AllOn(v) /\ ~Has1(v, "wakeup1")
    BY <1>3, NoneOver, SoundWhole DEF Whole
  <1>5. PICK u1 \in Code : u1 = Then(k, v)
    BY Joined
  <1>6. /\ Sound(t, u1) /\ Loose(u1) /\ u1 # << >> /\ Via(u1) = "call" /\ ~Sleeps(u1)
        /\ ~Has1(u1, "wakeup1") /\ Ins(u1, "tickslock") /\ ~Ins(u1, "ptable") /\ AllOn(u1)
    <2>1. PICK i \in Instr : i = << op, y >> /\ i[1] = op /\ i[2] = y
      BY InstrIn
    <2>2. SwitchFine(t, i, v)
      BY <1>1, <2>1 DEF SwitchFine
    <2>3. CallsFine(i, v)
      BY <1>1, <2>1
    <2>4. i[1] \notin {"pushcli", "xchg", "own", "disown", "unlock", "iret", "sched", "wakeup1", "ticks++"}
      BY <1>1, <2>1
    <2>5. u1 = Cons(i, v)
      BY <1>2, <1>5, <2>1, DoThen
    <2>6. ~Over(i[2])
      BY <1>1, <2>1
    <2> QED BY <1>3, <1>4, <2>2, <2>3, <2>4, <2>5, <2>6, OtherReads
  <1>7. PICK u2 \in Code : u2 = Then(b, u1)
    BY Joined
  <1>8. /\ Sound(t, u2) /\ Loose(u2) /\ u2 # << >> /\ Via(u2) = "call" /\ ~Sleeps(u2)
        /\ ~Has1(u2, "wakeup1") /\ ~Ins(u2, "tickslock") /\ ~Ins(u2, "ptable") /\ AllOn(u2)
    <2>1. u2 = Then(Acquire("tickslock"), u1)
      BY <1>2, <1>7
    <2> QED BY <1>6, <2>1, AcquireThen, TwoLocks DEF Like
  <1>9. PICK u3 \in Code : u3 = Then(q, u2)
    BY Joined
  <1>10. /\ Sound(t, u3) /\ Loose(u3) /\ u3 # << >> /\ Via(u3) = "call" /\ ~Sleeps(u3)
         /\ ~Has1(u3, "wakeup1") /\ ~Ins(u3, "tickslock") /\ Ins(u3, "ptable") /\ AllOn(u3)
         /\ Head(u3) = << "disown", "ptable" >>
    <2>1. u3 = Then(Release("ptable"), u2)
      BY <1>2, <1>9
    <2> QED BY <1>8, <2>1, ReleaseThen, TwoLocks DEF Like
  <1>11. PICK u4 \in Code : u4 = Then(s, u3)
    BY Joined
  <1>12. /\ Sound(t, u4) /\ Loose(u4) /\ u4 # << >> /\ Via(u4) = "call"
         /\ ~Has1(u4, "wakeup1") /\ ~Ins(u4, "tickslock") /\ Ins(u4, "ptable") /\ AllOn(u4)
    <2>1. PICK i \in Instr : i = << os, z >> /\ i[1] = os /\ i[2] = z
      BY InstrIn
    <2>2. SwitchFine(t, i, u3) /\ CallsFine(i, u3)
      BY <1>1, <1>10, <2>1 DEF SwitchFine, CallsFine
    <2>3. i[1] \notin {"pushcli", "xchg", "own", "disown", "unlock", "iret", "while", "wakeup1", "ticks++"}
      BY <1>1, <2>1
    <2>4. u4 = Cons(i, u3)
      BY <1>2, <1>11, <2>1, DoThen
    <2> QED BY <1>10, <2>2, <2>3, <2>4, OtherReads
  <1>13. PICK u5 \in Code : u5 = Then(r, u4)
    BY Joined
  <1>14. /\ Sound(t, u5) /\ Loose(u5) /\ u5 # << >> /\ Via(u5) = "call"
         /\ ~Has1(u5, "wakeup1") /\ Ins(u5, "tickslock") /\ Ins(u5, "ptable") /\ AllOn(u5)
    <2>1. u5 = Then(Release("tickslock"), u4)
      BY <1>2, <1>13
    <2> QED BY <1>12, <2>1, ReleaseThen, TwoLocks DEF Like
  <1>15. Sleep("tickslock") = Then(Then(Then(Then(a, r), s), q), b)
    BY <1>1, <1>2, Zenon DEF Sleep, Handover, Sched, Then
  <1>16. PICK c1 \in Code, c2 \in Code, c3 \in Code, c4 \in Code :
           c1 = Then(a, r) /\ c2 = Then(c1, s) /\ c3 = Then(c2, q) /\ c4 = Then(c3, b)
    BY Joined
  <1>17. w = Then(Then(c4, k), v)
    BY <1>1, <1>2, <1>15, <1>16, Zenon DEF Then
  <1>18. Then(Then(c4, k), v) = Then(c4, u1)
    BY <1>5, Regroup
  <1>19. Then(c4, u1) = Then(c3, u2)
    BY <1>7, <1>16, Regroup
  <1>20. Then(c3, u2) = Then(c2, u3)
    BY <1>9, <1>16, Regroup
  <1>21. Then(c2, u3) = Then(c1, u4)
    BY <1>11, <1>16, Regroup
  <1>22. Then(c1, u4) = Then(a, u5)
    BY <1>13, <1>16, Regroup
  <1>23. w = Then(Acquire("ptable"), u5)
    BY <1>2, <1>17, <1>18, <1>19, <1>20, <1>21, <1>22
  <1> QED BY <1>14, <1>23, AcquireThen, TwoLocks DEF Like

\* The handler, before the code that it interrupts.
LEMMA PreemptFine ==
  ASSUME NEW t, NEW v \in Code, Sound(t, v), Loose(v),
         ~Ins(v, "ptable"), ~Ins(v, "tickslock"), Via(v) # "interrupt",
         NEW w, w = Then(Do("preempt"), Then(DoWith("iret", "interrupt"), v))
  PROVE  /\ w \in Code /\ Sound(t, w) /\ Loose(w) /\ w # << >> /\ Via(w) = "interrupt"
         /\ ~Ins(w, "ptable") /\ ~Ins(w, "tickslock") /\ ~Sleeps(w)
         /\ ~Has1(w, "wakeup1") /\ ~Has1(w, "ticks++")
  <1>1. PICK y \in Operand, op \in Ops, z \in Operand, ir \in Ops :
          op = "preempt" /\ y = NoOperand /\ ir = "iret" /\ z = "interrupt"
    BY Words
  <1>2. PICK u : u = Cons(<< "iret", "interrupt" >>, v)
    OBVIOUS
  <1>3. << "iret", "interrupt" >> \in Instr
    BY <1>1, InstrIn
  <1>4. CallsFine(<< "iret", "interrupt" >>, v)
    <2>1. PICK i : i = << "iret", "interrupt" >>
      OBVIOUS
    <2> QED BY <2>1 DEF CallsFine
  <1>5. /\ u \in Code /\ Sound(t, u) /\ Loose(u) /\ u # << >> /\ Via(u) = "interrupt"
        /\ ~Ins(u, "ptable") /\ ~Ins(u, "tickslock") /\ ~Sleeps(u)
        /\ ~Has1(u, "wakeup1") /\ ~Has1(u, "ticks++") /\ Head(u) = << "iret", "interrupt" >>
    <2>1. PICK k \in {"interrupt", "call", "fork"} : k = "interrupt"
      OBVIOUS
    <2> QED BY <1>2, <1>3, <1>4, <2>1, IretFine
  <1>6. Then(DoWith("iret", "interrupt"), v) = u
    BY <1>1, <1>2, DoThen
  <1>7. PICK i \in Instr : i = << op, y >> /\ i[1] = op /\ i[2] = y
    BY InstrIn
  <1>8. w = Cons(i, u)
    <2>1. Do("preempt") = DoWith(op, y)
      BY <1>1, Zenon DEF Do, DoWith, NoOperand
    <2>2. Then(DoWith(op, y), u) = Cons(<< op, y >>, u)
      BY <1>5, DoThen
    <2> QED BY <1>6, <1>7, <2>1, <2>2
  <1>9. SwitchFine(t, i, u) /\ CallsFine(i, u)
    BY <1>1, <1>5, <1>7 DEF SwitchFine, CallsFine
  <1>10. i[1] \notin {"pushcli", "xchg", "own", "disown", "unlock", "iret", "sched", "wakeup1", "ticks++"}
    BY <1>1, <1>7
  <1> QED BY <1>5, <1>8, <1>9, <1>10, OtherReads

\* wakeup, before the release of tickslock.
LEMMA TickFine ==
  ASSUME NEW t, NEW v \in Code, Sound(t, v), v # << >>, Loose(v), Via(v) = "interrupt",
         ~Ins(v, "ptable"), ~Ins(v, "tickslock"), ~Sleeps(v),
         ~Has1(v, "wakeup1"), ~Has1(v, "ticks++"),
         NEW w, w = Then(Acquire("tickslock") \o Do("ticks++") \o Wakeup \o Release("tickslock"), v)
  PROVE  /\ w \in Code /\ Sound(t, w) /\ Loose(w) /\ w # << >> /\ Via(w) = "interrupt"
         /\ ~Ins(w, "ptable") /\ ~Ins(w, "tickslock") /\ ~Sleeps(w)
         /\ ~(Has1(w, "wakeup1") /\ ~Has1(w, "ticks++"))
  <1>1. PICK z \in Operand, ot \in Ops, ow \in Ops : ot = "ticks++" /\ ow = "wakeup1" /\ z = NoOperand
    BY Words
  <1>2. PICK a \in Code, b \in Code, r \in Code, q \in Code, k \in Code, s \in Code :
          /\ a = Acquire("tickslock") /\ r = Release("tickslock") /\ k = DoWith(ot, z)
          /\ q = Release("ptable") /\ b = Acquire("ptable") /\ s = DoWith(ow, z)
    BY <1>1, DoCode, LockCode, TwoLocks
  <1>3. PICK i \in Instr : i = << ow, z >> /\ i[1] = ow /\ i[2] = z
    BY InstrIn
  <1>4. PICK j \in Instr : j = << ot, z >> /\ j[1] = ot /\ j[2] = z
    BY InstrIn
  <1>5. PICK u1 \in Code : u1 = Then(r, v)
    BY Joined
  <1>6. /\ Sound(t, u1) /\ Loose(u1) /\ u1 # << >> /\ Via(u1) = "interrupt" /\ ~Sleeps(u1)
        /\ ~Has1(u1, "wakeup1") /\ ~Has1(u1, "ticks++") /\ Ins(u1, "tickslock") /\ ~Ins(u1, "ptable")
    <2>1. u1 = Then(Release("tickslock"), v)
      BY <1>2, <1>5
    <2> QED BY <2>1, ReleaseThen, TwoLocks DEF Like
  <1>7. PICK u2 \in Code : u2 = Then(q, u1)
    BY Joined
  <1>8. /\ Sound(t, u2) /\ Loose(u2) /\ u2 # << >> /\ Via(u2) = "interrupt" /\ ~Sleeps(u2)
        /\ ~Has1(u2, "wakeup1") /\ ~Has1(u2, "ticks++") /\ Ins(u2, "tickslock") /\ Ins(u2, "ptable")
    <2>1. u2 = Then(Release("ptable"), u1)
      BY <1>2, <1>7
    <2> QED BY <1>6, <2>1, ReleaseThen, TwoLocks DEF Like
  <1>9. PICK u3 \in Code : u3 = Then(s, u2)
    BY Joined
  <1>10. /\ Sound(t, u3) /\ Loose(u3) /\ u3 # << >> /\ Via(u3) = "interrupt" /\ ~Sleeps(u3)
         /\ Has1(u3, "wakeup1") /\ ~Has1(u3, "ticks++") /\ Ins(u3, "tickslock") /\ Ins(u3, "ptable")
    <2>1. SwitchFine(t, i, u2) /\ CallsFine(i, u2)
      BY <1>1, <1>3, <1>8 DEF SwitchFine, CallsFine
    <2>2. /\ i[1] \notin {"pushcli", "xchg", "own", "disown", "unlock", "iret", "while", "sched", "ticks++"}
          /\ i[1] = "wakeup1"
      BY <1>1, <1>3
    <2>3. u3 = Cons(i, u2)
      BY <1>2, <1>3, <1>9, DoThen
    <2> QED BY <1>8, <2>1, <2>2, <2>3, OtherReads
  <1>11. PICK u4 \in Code : u4 = Then(b, u3)
    BY Joined
  <1>12. /\ Sound(t, u4) /\ Loose(u4) /\ u4 # << >> /\ Via(u4) = "interrupt" /\ ~Sleeps(u4)
         /\ Has1(u4, "wakeup1") /\ ~Has1(u4, "ticks++") /\ Ins(u4, "tickslock") /\ ~Ins(u4, "ptable")
    <2>1. u4 = Then(Acquire("ptable"), u3)
      BY <1>2, <1>11
    <2> QED BY <1>10, <2>1, AcquireThen, TwoLocks DEF Like
  <1>13. PICK u5 \in Code : u5 = Then(k, u4)
    BY Joined
  <1>14. /\ Sound(t, u5) /\ Loose(u5) /\ u5 # << >> /\ Via(u5) = "interrupt" /\ ~Sleeps(u5)
         /\ Has1(u5, "ticks++") /\ Ins(u5, "tickslock") /\ ~Ins(u5, "ptable")
    <2>1. SwitchFine(t, j, u4) /\ CallsFine(j, u4)
      BY <1>1, <1>4, <1>12 DEF SwitchFine, CallsFine
    <2>2. /\ j[1] \notin {"pushcli", "xchg", "own", "disown", "unlock", "iret", "while", "sched", "wakeup1"}
          /\ j[1] = "ticks++"
      BY <1>1, <1>4
    <2>3. u5 = Cons(j, u4)
      BY <1>2, <1>4, <1>13, DoThen
    <2> QED BY <1>12, <2>1, <2>2, <2>3, OtherReads
  <1>15. PICK c1 \in Code, c2 \in Code, c3 \in Code, c4 \in Code :
           c1 = Then(a, k) /\ c2 = Then(b, s) /\ c3 = Then(c2, q) /\ c4 = Then(c1, c3)
    BY Joined
  <1>16. PICK c5 \in Code : c5 = Then(c4, r)
    BY Joined
  <1>17. w = Then(c5, v)
    <2>1. Wakeup = c3
      BY <1>1, <1>2, <1>15, Zenon DEF Wakeup, Do, DoWith, NoOperand, Then
    <2>2. Acquire("tickslock") \o Do("ticks++") = c1
      BY <1>1, <1>2, <1>15, Zenon DEF Do, DoWith, NoOperand, Then
    <2> QED BY <1>2, <1>15, <1>16, <2>1, <2>2, Zenon DEF Then
  <1>18. Then(c5, v) = Then(c4, u1)
    BY <1>5, <1>16, Regroup
  <1>19. Then(c4, u1) = Then(c1, Then(c3, u1))
    BY <1>15, Regroup
  <1>20. Then(c3, u1) = Then(c2, u2)
    BY <1>7, <1>15, Regroup
  <1>21. Then(c2, u2) = u4
    BY <1>9, <1>11, <1>15, Regroup
  <1>22. Then(c1, u4) = Then(a, u5)
    BY <1>13, <1>15, Regroup
  <1>23. w = Then(Acquire("tickslock"), u5)
    BY <1>2, <1>17, <1>18, <1>19, <1>20, <1>21, <1>22
  <1> QED BY <1>14, <1>23, AcquireThen, TwoLocks DEF Like

LEMMA TimerFine ==
  ASSUME NEW c, NEW t, NEW v \in Code, Sound(t, v), Loose(v),
         ~Ins(v, "ptable"), ~Ins(v, "tickslock"), Via(v) # "interrupt",
         NEW w, w = Then(Timer(c), v)
  PROVE  /\ w \in Code /\ Sound(t, w) /\ Loose(w) /\ w # << >> /\ Via(w) = "interrupt"
         /\ ~Ins(w, "ptable") /\ ~Ins(w, "tickslock") /\ ~Sleeps(w)
         /\ ~(Has1(w, "wakeup1") /\ ~Has1(w, "ticks++"))
  <1>1. Do("preempt") \in Code /\ DoWith("iret", "interrupt") \in Code
    <2>1. PICK y \in Operand, op \in Ops, z \in Operand, ir \in Ops :
            op = "preempt" /\ y = NoOperand /\ ir = "iret" /\ z = "interrupt"
      BY Words
    <2>2. DoWith(op, y) \in Code /\ DoWith(ir, z) \in Code
      BY DoCode
    <2>3. Do("preempt") = DoWith(op, y)
      BY <2>1, Zenon DEF Do, DoWith, NoOperand
    <2> QED BY <2>1, <2>2, <2>3
  <1>2. PICK p \in Code, k \in Code : p = Do("preempt") /\ k = DoWith("iret", "interrupt")
    BY <1>1
  <1>3. PICK g : g = IF c = Boot
                     THEN Acquire("tickslock") \o Do("ticks++") \o Wakeup \o Release("tickslock")
                     ELSE << >>
    OBVIOUS
  <1>4. w = Then(Then(Then(g, p), k), v)
    BY <1>2, <1>3, Zenon DEF Timer, Then
  <1>5. PICK u : u = Then(p, Then(k, v))
    OBVIOUS
  <1>6. /\ u \in Code /\ Sound(t, u) /\ Loose(u) /\ u # << >> /\ Via(u) = "interrupt"
        /\ ~Ins(u, "ptable") /\ ~Ins(u, "tickslock") /\ ~Sleeps(u)
        /\ ~Has1(u, "wakeup1") /\ ~Has1(u, "ticks++")
    BY <1>2, <1>5, PreemptFine
  <1>7. ASSUME g \in Code PROVE w = Then(g, u)
    <2>1. PICK h \in Code : h = g
      BY <1>7
    <2>2. PICK c1 \in Code, kv \in Code : c1 = Then(h, p) /\ kv = Then(k, v)
      BY Joined
    <2>3. Then(Then(c1, k), v) = Then(c1, kv)
      BY <2>2, Regroup
    <2>4. Then(c1, kv) = Then(h, Then(p, kv))
      BY <2>2, Regroup
    <2> QED BY <1>4, <1>5, <2>1, <2>2, <2>3, <2>4
  <1>8. CASE c = Boot
    <2>1. g = Acquire("tickslock") \o Do("ticks++") \o Wakeup \o Release("tickslock")
      BY <1>3, <1>8
    <2>2. g \in Code
      <3>1. PICK z \in Operand, ot \in Ops, ow \in Ops : ot = "ticks++" /\ ow = "wakeup1" /\ z = NoOperand
        BY Words
      <3>2. PICK a \in Code, b \in Code, r \in Code, q \in Code, k1 \in Code, s \in Code :
              /\ a = Acquire("tickslock") /\ r = Release("tickslock") /\ k1 = DoWith(ot, z)
              /\ q = Release("ptable") /\ b = Acquire("ptable") /\ s = DoWith(ow, z)
        BY <3>1, DoCode, LockCode, TwoLocks
      <3>3. PICK c1 \in Code, c2 \in Code, c3 \in Code, c4 \in Code, c5 \in Code :
              /\ c1 = Then(a, k1) /\ c2 = Then(b, s) /\ c3 = Then(c2, q) /\ c4 = Then(c1, c3)
              /\ c5 = Then(c4, r)
        BY Joined
      <3>4. Wakeup = c3
        BY <3>1, <3>2, <3>3, Zenon DEF Wakeup, Do, DoWith, NoOperand, Then
      <3>5. Acquire("tickslock") \o Do("ticks++") = c1
        BY <3>1, <3>2, <3>3, Zenon DEF Do, DoWith, NoOperand, Then
      <3>6. g = c5
        BY <2>1, <3>2, <3>3, <3>4, <3>5, Zenon DEF Then
      <3> QED BY <3>6
    <2>3. w = Then(g, u)
      BY <1>7, <2>2
    <2>4. w = Then(Acquire("tickslock") \o Do("ticks++") \o Wakeup \o Release("tickslock"), u)
      BY <2>1, <2>3
    <2> QED BY <1>6, <2>4, TickFine, Zenon
  <1>9. CASE c # Boot
    <2>1. g = << >>
      BY <1>3, <1>9
    <2>2. w = Then(g, u)
      BY <1>7, <2>1, EmptyReads
    <2>3. w = u
      BY <1>6, <2>1, <2>2, CodeConcat DEF Then
    <2> QED BY <1>6, <2>3
  <1> QED BY <1>8, <1>9

---------------------------------------------------------------------------
(* One step of a processor. *)

\* The parts of SpinInv, as seen from processor c.
LEMMA SpinView ==
  ASSUME SpinInv, NEW c \in Cpu
  PROVE  /\ runs[c] \in Process \cup {c} /\ runs[c] \in Cpu \cup Process
         /\ Left(c) = todo[runs[c]] /\ Left(c) \in Code /\ Sound(runs[c], Left(c))
         /\ Whole(runs[c], Left(c))
         /\ RunsOk(runs[c], Left(c), ncli[c], ints[c], intena[c])
         /\ \A lk \in Lock : HoldsOk(c, Left(c), lk, locked[lk], holder[lk])
         /\ ncli[c] \in Int /\ ints[c] \in BOOLEAN /\ intena[c] \in BOOLEAN
         /\ \A d \in Cpu : d # c => runs[d] # runs[c]
         /\ \A lk \in Lock : Ins(Left(c), lk) => locked[lk] /\ \A d \in Cpu : Ins(Left(d), lk) => d = c
  <1>1. runs[c] \in Process \cup {c} /\ runs[c] \in Cpu \cup Process
    BY DEF SpinInv, RunsOnce
  <1>2. Left(c) = todo[runs[c]] /\ Left(c) \in Code
    BY <1>1 DEF SpinInv, SpinTyped, Left
  <1>3. Sound(runs[c], Left(c))
    BY <1>1, <1>2 DEF SpinInv
  <1>4. Whole(runs[c], Left(c))
    BY <1>2, <1>3, SoundWhole
  <1>5. RunsRight(c) /\ HoldsRight(c)
    BY DEF SpinInv
  <1>6. RunsOk(runs[c], Left(c), ncli[c], ints[c], intena[c])
    BY <1>5 DEF RunsRight
  <1>7. \A lk \in Lock : HoldsOk(c, Left(c), lk, locked[lk], holder[lk])
    BY <1>5 DEF HoldsRight
  <1>8. ncli[c] \in Int /\ ints[c] \in BOOLEAN /\ intena[c] \in BOOLEAN
    BY DEF SpinInv, SpinTyped
  <1>9. \A d \in Cpu : d # c => runs[d] # runs[c]
    BY DEF SpinInv, RunsOnce
  <1>10. \A lk \in Lock : Ins(Left(c), lk) => locked[lk] /\ \A d \in Cpu : Ins(Left(d), lk) => d = c
    <2>1. \A lk \in Lock : Ins(Left(c), lk) => locked[lk]
      BY <1>7 DEF HoldsOk
    <2>2. \A lk \in Lock : \A d \in Cpu : Ins(Left(c), lk) /\ Ins(Left(d), lk) => c = d
      BY DEF SpinInv, LocksRight
    <2> QED BY <2>1, <2>2
  <1> QED BY <1>1, <1>2, <1>3, <1>4, <1>6, <1>7, <1>8, <1>9, <1>10

\* Processor c does something: its thread then has w left.
LEMMA LocalStep ==
  ASSUME SpinInv, NEW c \in Cpu, NEW w \in Code, Sound(runs[c], w),
         runs' = runs, ~panicked', todo' = [todo EXCEPT ![runs[c]] = w],
         pstate' \in [Process -> {"RUNNABLE", "RUNNING", "SLEEPING"}], ticks' \in Nat,
         \A p \in Process : pstate'[p] = "RUNNING" <=> pstate[p] = "RUNNING",
         locked' \in [Lock -> BOOLEAN], holder' \in [Lock -> Cpu \cup {NoCpu}],
         ncli' \in [Cpu -> Int], intena' \in [Cpu -> BOOLEAN], ints' \in [Cpu -> BOOLEAN],
         \A d \in Cpu : d # c => ncli'[d] = ncli[d] /\ intena'[d] = intena[d] /\ ints'[d] = ints[d],
         RunsOk(runs[c], w, ncli'[c], ints'[c], intena'[c]),
         \A lk \in Lock : HoldsOk(c, w, lk, locked'[lk], holder'[lk]),
         \A lk \in Lock : \A d \in Cpu \ {c} : HoldsOk(d, Left(d), lk, locked'[lk], holder'[lk]),
         \A lk \in Lock : \A d \in Cpu \ {c} : ~(Ins(w, lk) /\ Ins(Left(d), lk)),
         \A lk \in Lock : locked'[lk] => Ins(w, lk) \/ \E d \in Cpu \ {c} : Ins(Left(d), lk),
         \A p \in Process : Timely(p)'
  PROVE  SpinInv'
  <1>1. runs[c] \in Cpu \cup Process /\ \A d \in Cpu : d # c => runs[d] # runs[c]
    BY SpinView
  <1>2. todo \in [Cpu \cup Process -> Code]
    BY DEF SpinInv, SpinTyped
  <1>3. todo' \in [Cpu \cup Process -> Code]
    BY <1>1, <1>2
  <1>4. \A t \in Cpu \cup Process : todo'[t] = IF t = runs[c] THEN w ELSE todo[t]
    BY <1>1, <1>2
  <1>5. todo'[runs[c]] = w /\ Left(c)' = w
    BY <1>1, <1>4 DEF Left
  <1>6. \A d \in Cpu : d # c => Left(d)' = Left(d)
    <2> SUFFICES ASSUME NEW d \in Cpu, d # c PROVE Left(d)' = Left(d)
      OBVIOUS
    <2>1. runs[d] \in Cpu \cup Process /\ runs[d] # runs[c]
      BY <1>1, SpinView
    <2> QED BY <1>4, <2>1 DEF Left
  <1>7. SpinTyped'
    <2>1. runs' \in [Cpu -> Cpu \cup Process]
      BY DEF SpinInv, SpinTyped
    <2> QED BY <1>3, <2>1 DEF SpinTyped
  <1>8. RunsOnce'
    BY DEF SpinInv, RunsOnce
  <1>9. LocksRight'
    <2>1. ASSUME NEW lk \in Lock, locked'[lk] PROVE \E d \in Cpu : Ins(Left(d)', lk)
      <3>1. CASE Ins(w, lk)
        BY <1>5, <3>1
      <3>2. CASE ~Ins(w, lk)
        <4>1. PICK d \in Cpu \ {c} : Ins(Left(d), lk)
          BY <2>1, <3>2
        <4> QED BY <1>6, <4>1
      <3> QED BY <3>1, <3>2
    <2>2. ASSUME NEW lk \in Lock, NEW d \in Cpu, NEW e \in Cpu, Ins(Left(d)', lk), Ins(Left(e)', lk)
          PROVE  d = e
      <3>1. CASE d # c /\ e # c
        <4>1. Ins(Left(d), lk) /\ Ins(Left(e), lk)
          BY <1>6, <2>2, <3>1
        <4> QED BY <4>1 DEF SpinInv, LocksRight
      <3>2. CASE d = c /\ e # c
        BY <1>5, <1>6, <2>2, <3>2
      <3>3. CASE d # c /\ e = c
        BY <1>5, <1>6, <2>2, <3>3
      <3> QED BY <3>1, <3>2, <3>3
    <2> QED BY <2>1, <2>2 DEF LocksRight
  <1>10. \A t \in Cpu \cup Process : Sound(t, todo'[t])
    <2>1. \A t \in Cpu \cup Process : Sound(t, todo[t])
      BY DEF SpinInv
    <2> QED BY <1>4, <2>1
  <1>11. ASSUME NEW d \in Cpu PROVE RunsRight(d)' /\ HoldsRight(d)'
    <2>1. CASE d = c
      <3>1. RunsRight(c)'
        BY <1>5 DEF RunsRight
      <3>2. HoldsRight(c)'
        BY <1>5 DEF HoldsRight
      <3> QED BY <2>1, <3>1, <3>2
    <2>2. CASE d # c
      <3>1. RunsRight(d)'
        <4>1. RunsOk(runs[d], Left(d), ncli[d], ints[d], intena[d])
          BY SpinView
        <4> QED BY <1>6, <2>2, <4>1 DEF RunsRight
      <3>2. HoldsRight(d)'
        BY <1>6, <2>2 DEF HoldsRight
      <3> QED BY <3>1, <3>2
    <2> QED BY <2>1, <2>2
  <1>12. ASSUME NEW t \in Cpu \cup Process, \A d \in Cpu : runs'[d] # t PROVE Parked(t)'
    <2>1. Parked(t)
      BY <1>12 DEF SpinInv
    <2>2. todo'[t] = todo[t]
      BY <1>4, <1>12
    <2> QED BY <2>1, <2>2 DEF Parked
  <1> QED BY <1>7, <1>8, <1>9, <1>10, <1>11, <1>12 DEF SpinInv

\* Who waits for wakeup1 still does, or will be woken up.
LEMMA TimelyStep ==
  ASSUME SpinInv, NEW c \in Cpu, NEW w \in Code,
         runs' = runs, todo' = [todo EXCEPT ![runs[c]] = w], pstate' = pstate, ticks' = ticks,
         Has1(Left(c), "wakeup1") /\ ~Has1(Left(c), "ticks++") => Has1(w, "wakeup1") /\ ~Has1(w, "ticks++"),
         Sleeps(w) => AllOn(w) \/ (Sleeps(Left(c)) /\ (AllOn(Left(c)) => AllOn(w)))
  PROVE  \A p \in Process : Timely(p)'
  <1>1. runs[c] \in Cpu \cup Process /\ \A d \in Cpu : d # c => runs[d] # runs[c]
    BY SpinView
  <1>2. todo \in [Cpu \cup Process -> Code]
    BY DEF SpinInv, SpinTyped
  <1>3. \A t \in Cpu \cup Process : todo'[t] = IF t = runs[c] THEN w ELSE todo[t]
    BY <1>1, <1>2
  <1>4. Left(c)' = w
    BY <1>1, <1>3 DEF Left
  <1>5. \A d \in Cpu : d # c => Left(d)' = Left(d)
    <2> SUFFICES ASSUME NEW d \in Cpu, d # c PROVE Left(d)' = Left(d)
      OBVIOUS
    <2>1. runs[d] \in Cpu \cup Process /\ runs[d] # runs[c]
      BY <1>1, SpinView
    <2> QED BY <1>3, <2>1 DEF Left
  <1>6. Pending => Pending'
    <2> SUFFICES ASSUME Pending PROVE Pending'
      OBVIOUS
    <2>1. PICK d \in Cpu : Has1(Left(d), "wakeup1") /\ ~Has1(Left(d), "ticks++")
      BY DEF Pending
    <2>2. Has1(Left(d)', "wakeup1") /\ ~Has1(Left(d)', "ticks++")
      BY <1>4, <1>5, <2>1
    <2> QED BY <2>2 DEF Pending
  <1>7. \A n : Over(n)' <=> Over(n)
    BY DEF Over
  <1>8. ASSUME NEW p \in Process PROVE Timely(p)'
    <2>1. CASE p = runs[c]
      <3>1. pstate[p] = "RUNNING"
        BY <2>1 DEF SpinInv, RunsOnce
      <3>2. todo'[p] = w
        BY <1>3, <2>1
      <3>3. AllOn(w) => AllOn(todo[p])'
        BY <1>7, <3>2 DEF AllOn
      <3>4. Sleeps(w) => AllOn(w) \/ Pending
        <4>1. Timely(p) /\ Left(c) = todo[p]
          BY <2>1 DEF SpinInv, Left
        <4> QED BY <4>1 DEF Timely
      <3> QED BY <1>6, <3>1, <3>2, <3>3, <3>4 DEF Timely
    <2>2. CASE p # runs[c]
      <3>1. todo'[p] = todo[p]
        BY <1>3, <2>2
      <3>2. AllOn(todo[p]) => AllOn(todo[p])'
        BY <1>7, <3>1 DEF AllOn
      <3>3. Timely(p)
        BY DEF SpinInv
      <3> QED BY <1>6, <3>1, <3>2, <3>3 DEF Timely
    <2> QED BY <2>1, <2>2
  <1> QED BY <1>8

\* A step that takes and gives back nothing: what it leaves of the locks.
LEMMA SameLocks ==
  ASSUME SpinInv, NEW c \in Cpu, NEW w \in Code, locked' = locked, holder' = holder,
         Loose(w), Left(c) = << >> \/ Head(Left(c))[1] \notin {"own", "unlock"},
         Ins(w, "ptable") <=> Ins(Left(c), "ptable"), Ins(w, "tickslock") <=> Ins(Left(c), "tickslock")
  PROVE  /\ \A lk \in Lock : HoldsOk(c, w, lk, locked'[lk], holder'[lk])
         /\ \A lk \in Lock : \A d \in Cpu \ {c} : HoldsOk(d, Left(d), lk, locked'[lk], holder'[lk])
         /\ \A lk \in Lock : \A d \in Cpu \ {c} : ~(Ins(w, lk) /\ Ins(Left(d), lk))
         /\ \A lk \in Lock : locked'[lk] => Ins(w, lk) \/ \E d \in Cpu \ {c} : Ins(Left(d), lk)
         /\ locked' \in [Lock -> BOOLEAN] /\ holder' \in [Lock -> Cpu \cup {NoCpu}]
  <1>2. \A lk \in Lock : Ins(w, lk) <=> Ins(Left(c), lk)
    BY TwoLocks
  <1>3. ASSUME NEW lk \in Lock PROVE HoldsOk(c, w, lk, locked'[lk], holder'[lk])
    <2>1. HoldsOk(c, Left(c), lk, locked[lk], holder[lk])
      BY SpinView
    <2>2. Ins(Left(c), lk) => Head(Left(c)) \notin {<< "own", lk >>, << "unlock", lk >>}
      <3>1. CASE Left(c) = << >>
        BY <3>1, EmptyReads
      <3>2. CASE Head(Left(c))[1] \notin {"own", "unlock"}
        BY <3>2
      <3> QED BY <3>1, <3>2
    <2>3. Ins(w, lk) => Head(w) # << "unlock", lk >>
      <3>1. CASE w = << >>
        BY <3>1, EmptyReads
      <3>2. CASE Head(w)[1] # "unlock"
        BY <3>2
      <3> QED BY <3>1, <3>2 DEF Loose
    <2> QED BY <1>2, <2>1, <2>2, <2>3 DEF HoldsOk
  <1>4. \A lk \in Lock : \A d \in Cpu \ {c} : HoldsOk(d, Left(d), lk, locked'[lk], holder'[lk])
    BY SpinView
  <1>5. \A lk \in Lock : \A d \in Cpu \ {c} : ~(Ins(w, lk) /\ Ins(Left(d), lk))
    BY <1>2, SpinView
  <1>6. ASSUME NEW lk \in Lock, locked'[lk] PROVE Ins(w, lk) \/ \E d \in Cpu \ {c} : Ins(Left(d), lk)
    <2>1. PICK d \in Cpu : Ins(Left(d), lk)
      BY <1>6 DEF SpinInv, LocksRight
    <2> QED BY <1>2, <2>1
  <1>7. locked' \in [Lock -> BOOLEAN] /\ holder' \in [Lock -> Cpu \cup {NoCpu}]
    BY DEF SpinInv, SpinTyped
  <1> QED BY <1>3, <1>4, <1>5, <1>6, <1>7

LEMMA StillStep ==
  ASSUME SpinInv, NEW c \in Cpu, NEW w \in Code, Sound(runs[c], w),
         runs' = runs, panicked' = panicked, todo' = [todo EXCEPT ![runs[c]] = w],
         pstate' = pstate, ticks' = ticks, locked' = locked, holder' = holder,
         ncli' = ncli, intena' \in [Cpu -> BOOLEAN], ints' \in [Cpu -> BOOLEAN],
         \A d \in Cpu : d # c => intena'[d] = intena[d] /\ ints'[d] = ints[d],
         RunsOk(runs[c], w, ncli'[c], ints'[c], intena'[c]),
         Loose(w), Left(c) = << >> \/ Head(Left(c))[1] \notin {"own", "unlock"},
         Ins(w, "ptable") <=> Ins(Left(c), "ptable"), Ins(w, "tickslock") <=> Ins(Left(c), "tickslock"),
         Has1(Left(c), "wakeup1") /\ ~Has1(Left(c), "ticks++") => Has1(w, "wakeup1") /\ ~Has1(w, "ticks++"),
         Sleeps(w) => AllOn(w)
  PROVE  SpinInv'
  <1>1. \A p \in Process : Timely(p)'
    BY TimelyStep
  <1>2. /\ \A lk \in Lock : HoldsOk(c, w, lk, locked'[lk], holder'[lk])
        /\ \A lk \in Lock : \A d \in Cpu \ {c} : HoldsOk(d, Left(d), lk, locked'[lk], holder'[lk])
        /\ \A lk \in Lock : \A d \in Cpu \ {c} : ~(Ins(w, lk) /\ Ins(Left(d), lk))
        /\ \A lk \in Lock : locked'[lk] => Ins(w, lk) \/ \E d \in Cpu \ {c} : Ins(Left(d), lk)
        /\ locked' \in [Lock -> BOOLEAN] /\ holder' \in [Lock -> Cpu \cup {NoCpu}]
    BY SameLocks
  <1>3. /\ ncli' \in [Cpu -> Int] /\ ~panicked' /\ ticks' \in Nat
        /\ pstate' \in [Process -> {"RUNNABLE", "RUNNING", "SLEEPING"}]
    BY DEF SpinInv, SpinTyped
  <1>4. \A d \in Cpu : d # c => ncli'[d] = ncli[d] /\ intena'[d] = intena[d] /\ ints'[d] = ints[d]
    OBVIOUS
  <1>5. \A p \in Process : pstate'[p] = "RUNNING" <=> pstate[p] = "RUNNING"
    OBVIOUS
  <1> QED BY <1>1, <1>2, <1>3, <1>4, <1>5, LocalStep

\* What processor c does first, and what follows it.
LEMMA HeadView ==
  ASSUME SpinInv, NEW c \in Cpu, NEW op, At(c, op)
  PROVE  \E x \in Instr, v \in Code :
           /\ Left(c) = Cons(x, v) /\ Left(c) # << >> /\ Head(Left(c)) = x /\ Tail(Left(c)) = v
           /\ x[1] = op /\ Arg(c) = x[2]
           /\ Fine(runs[c], x, v) /\ Sound(runs[c], v) /\ Whole(runs[c], v)
  <1>1. Left(c) # << >> /\ Left(c) \in Code /\ Sound(runs[c], Left(c))
    BY SpinView DEF At
  <1>2. PICK x, v : x = Head(Left(c)) /\ v = Tail(Left(c))
    OBVIOUS
  <1>3. /\ x \in Instr /\ v \in Code /\ Left(c) = Cons(x, v)
        /\ Fine(runs[c], x, v) /\ Sound(runs[c], v) /\ Whole(runs[c], v)
    BY <1>1, <1>2, SoundHead
  <1>4. x[1] = op /\ Arg(c) = x[2]
    BY <1>2 DEF At, Arg
  <1> QED BY <1>1, <1>2, <1>3, <1>4

LEMMA GoesOn ==
  ASSUME NEW c \in Cpu, NEW calls, Goes(c, calls)
  PROVE  /\ todo' = [todo EXCEPT ![runs[c]] = Then(calls, Tail(Left(c)))] /\ panicked' = panicked
         /\ calls = << >> /\ Tail(Left(c)) \in Code => todo' = [todo EXCEPT ![runs[c]] = Tail(Left(c))]
  <1>1. todo' = [todo EXCEPT ![runs[c]] = Then(calls, Tail(Left(c)))] /\ panicked' = panicked
    BY DEF Goes, Then, Left
  <1>2. ASSUME calls = << >>, Tail(Left(c)) \in Code PROVE Then(calls, Tail(Left(c))) = Tail(Left(c))
    BY <1>2, CodeConcat DEF Then
  <1> QED BY <1>1, <1>2

LEMMA PutOne ==
  ASSUME NEW S, NEW T, NEW f \in [S -> T], NEW c \in S, NEW y \in T, NEW g, g = [f EXCEPT ![c] = y]
  PROVE  g \in [S -> T] /\ g[c] = y /\ \A d \in S : d # c => g[d] = f[d]
  OBVIOUS

\* Code without a lock is not in pushcli either.
LEMMA NetFree ==
  ASSUME NEW t, NEW s \in Code, Whole(t, s), Loose(s), ~Ins(s, "ptable"), ~Ins(s, "tickslock")
  PROVE  Net(s) = 0 /\ ~Sleeps(s) /\ ~(Has1(s, "wakeup1") /\ ~Has1(s, "ticks++"))
  BY DEF Whole, HeldBy, Between, Loose

LEMMA NetHeld ==
  ASSUME NEW t, NEW s \in Code, Whole(t, s)
  PROVE  /\ Net(s) \in Nat
         /\ Net(s) = 0 => ~Ins(s, "ptable") /\ ~Ins(s, "tickslock") /\ (s = << >> \/ Head(s)[1] # "xchg")
         /\ (\E lk \in Lock : Ins(s, lk)) => Net(s) > 0
         /\ s # << >> /\ Head(s)[1] = "xchg" => Net(s) > 0
         /\ Loose(s) /\ Ins(s, "ptable") /\ ~Ins(s, "tickslock") => Net(s) = 1
  <1>1. Net(s) = HeldBy(s) + Between(s)
    BY DEF Whole
  <1>2. HeldBy(s) \in 0 .. 2 /\ Between(s) \in 0 .. 1
    BY DEF HeldBy, Between
  <1>3. (\E lk \in Lock : Ins(s, lk)) => HeldBy(s) > 0
    BY TwoLocks DEF HeldBy
  <1>4. HeldBy(s) = 0 => ~Ins(s, "ptable") /\ ~Ins(s, "tickslock")
    BY DEF HeldBy
  <1>5. Between(s) = 0 <=> ~(s # << >> /\ Head(s)[1] = "xchg")
    BY DEF Between
  <1>6. Loose(s) => Between(s) = 0
    BY DEF Between, Loose
  <1>7. Ins(s, "ptable") /\ ~Ins(s, "tickslock") => HeldBy(s) = 1
    BY DEF HeldBy
  <1>8. PICK n \in 0 .. 2, m \in 0 .. 1 : n = HeldBy(s) /\ m = Between(s)
    BY <1>2
  <1>9. Net(s) \in Nat /\ (Net(s) = 0 => n = 0 /\ m = 0) /\ (n > 0 => Net(s) > 0) /\ (m # 0 => Net(s) > 0)
        /\ (n = 1 /\ m = 0 => Net(s) = 1)
    BY <1>1, <1>8
  <1>10. Net(s) = 0 => ~Ins(s, "ptable") /\ ~Ins(s, "tickslock") /\ (s = << >> \/ Head(s)[1] # "xchg")
    BY <1>4, <1>5, <1>8, <1>9
  <1>11. (\E lk \in Lock : Ins(s, lk)) => Net(s) > 0
    BY <1>3, <1>8, <1>9
  <1>12. s # << >> /\ Head(s)[1] = "xchg" => Net(s) > 0
    BY <1>5, <1>8, <1>9
  <1>13. Loose(s) /\ Ins(s, "ptable") /\ ~Ins(s, "tickslock") => Net(s) = 1
    BY <1>6, <1>7, <1>8, <1>9
  <1> QED BY <1>9, <1>10, <1>11, <1>12, <1>13

---------------------------------------------------------------------------
(* The actions that change no lock and stay with their thread. *)

LEMMA LoopStep ==
  ASSUME SpinInv, NEW c \in Cpu, Loop(c)
  PROVE  SpinInv'
  <1>1. PICK w \in Code : w = Scheduler
    BY SchedulerFine
  <1>2. runs[c] = c /\ Left(c) = << >> /\ c \notin Process
    BY SpinAssumption DEF Loop
  <1>3. /\ Sound(runs[c], w) /\ Loose(w) /\ Via(w) = "none" /\ ~Sleeps(w)
        /\ ~Ins(w, "ptable") /\ ~Ins(w, "tickslock")
    BY <1>1, <1>2, SchedulerFine
  <1>4. Net(w) = 0 /\ ncli[c] = 0
    <2>1. Whole(runs[c], w)
      BY <1>3, SoundWhole
    <2>2. Net(w) = 0
      BY <1>3, <2>1, NetFree
    <2>3. ncli[c] = Net(Left(c))
      BY SpinView DEF RunsOk
    <2> QED BY <1>2, <2>2, <2>3, EmptyReads
  <1>5. /\ ints' = [ints EXCEPT ![c] = TRUE] /\ ints \in [Cpu -> BOOLEAN]
        /\ todo' = [todo EXCEPT ![runs[c]] = w]
    BY <1>1, <1>2 DEF Loop, SpinInv, SpinTyped
  <1>6. ints' \in [Cpu -> BOOLEAN] /\ ints'[c] = TRUE /\ \A d \in Cpu : d # c => ints'[d] = ints[d]
    BY <1>5, PutOne
  <1>7. /\ runs' = runs /\ panicked' = panicked /\ pstate' = pstate /\ ticks' = ticks
        /\ locked' = locked /\ holder' = holder /\ ncli' = ncli /\ intena' = intena
    BY DEF Loop, lockvars, procvars
  <1>8. intena' \in [Cpu -> BOOLEAN]
    BY <1>7 DEF SpinInv, SpinTyped
  <1>9. RunsOk(runs[c], w, ncli'[c], ints'[c], intena'[c])
    BY <1>3, <1>4, <1>6, <1>7 DEF RunsOk
  <1>10. /\ Ins(w, "ptable") <=> Ins(Left(c), "ptable")
         /\ Ins(w, "tickslock") <=> Ins(Left(c), "tickslock")
         /\ ~(Has1(Left(c), "wakeup1") /\ ~Has1(Left(c), "ticks++"))
    BY <1>2, <1>3, EmptyReads
  <1> QED BY <1>2, <1>3, <1>5, <1>6, <1>7, <1>8, <1>9, <1>10, StillStep

LEMMA CallStep ==
  ASSUME SpinInv, NEW c \in Cpu, CallSleep(c)
  PROVE  SpinInv'
  <1>2. runs[c] \in Process /\ Left(c) = << >>
    BY DEF CallSleep
  <1>1. PICK w \in Code : w = SysSleep
    BY <1>2, SysSleepFine
  <1>3. /\ Sound(runs[c], w) /\ Loose(w) /\ Via(w) = "call" /\ ~Sleeps(w)
        /\ ~Ins(w, "ptable") /\ ~Ins(w, "tickslock")
    BY <1>1, <1>2, SysSleepFine
  <1>4. Net(w) = 0 /\ ncli[c] = 0 /\ ints[c]
    <2>1. Whole(runs[c], w)
      BY <1>3, SoundWhole
    <2>2. Net(w) = 0
      BY <1>3, <2>1, NetFree
    <2>3. ncli[c] = Net(Left(c)) /\ (ncli[c] = 0 /\ Via(Left(c)) = "none" => ints[c])
      BY <1>2, SpinView DEF RunsOk
    <2> QED BY <1>2, <2>2, <2>3, EmptyReads
  <1>5. /\ runs' = runs /\ panicked' = panicked /\ pstate' = pstate /\ ticks' = ticks
        /\ locked' = locked /\ holder' = holder /\ ncli' = ncli /\ intena' = intena /\ ints' = ints
        /\ todo' = [todo EXCEPT ![runs[c]] = w]
    BY <1>1 DEF CallSleep, lockvars, procvars, cpuvars
  <1>6. intena' \in [Cpu -> BOOLEAN] /\ ints' \in [Cpu -> BOOLEAN]
    BY <1>5 DEF SpinInv, SpinTyped
  <1>7. RunsOk(runs[c], w, ncli'[c], ints'[c], intena'[c])
    BY <1>3, <1>4, <1>5 DEF RunsOk
  <1>8. /\ Ins(w, "ptable") <=> Ins(Left(c), "ptable")
        /\ Ins(w, "tickslock") <=> Ins(Left(c), "tickslock")
        /\ ~(Has1(Left(c), "wakeup1") /\ ~Has1(Left(c), "ticks++"))
    BY <1>2, <1>3, EmptyReads
  <1> QED BY <1>2, <1>3, <1>5, <1>6, <1>7, <1>8, StillStep

LEMMA TimerStep ==
  ASSUME SpinInv, NEW c \in Cpu, TimerInterrupts(c)
  PROVE  SpinInv'
  <1>1. PICK s \in Code : s = Left(c)
    BY SpinView
  <1>2. /\ Sound(runs[c], s) /\ Whole(runs[c], s) /\ Net(s) = 0 /\ Via(s) # "interrupt" /\ ncli[c] = 0
    <2>1. ints[c] /\ ncli[c] = Net(s) /\ (ncli[c] > 0 \/ Via(s) = "interrupt" => ~ints[c])
      BY <1>1, SpinView DEF TimerInterrupts, RunsOk
    <2>2. Whole(runs[c], s) /\ Sound(runs[c], s)
      BY <1>1, SpinView
    <2>3. Net(s) \in Nat
      BY <2>2, NetHeld
    <2> QED BY <2>1, <2>2, <2>3
  <1>3. ~Ins(s, "ptable") /\ ~Ins(s, "tickslock") /\ (s = << >> \/ Head(s)[1] # "xchg")
    BY <1>2, NetHeld
  <1>4. Loose(s) /\ (s = << >> \/ Head(s)[1] \notin {"own", "unlock"})
    <2>1. CASE s = << >>
      BY <2>1 DEF Loose
    <2>2. CASE s # << >>
      <3>1. PICK x \in Instr, v \in Code : /\ x = Head(s) /\ s = Cons(x, v) /\ Fine(runs[c], x, v)
        BY <1>2, <2>2, SoundHead
      <3>2. x[1] = "own" => x[2] \in Lock /\ Ins(v, x[2])
        BY <3>1 DEF Fine, LocksFine
      <3>3. x[1] = "unlock" => x[2] \in Lock
        BY <3>1 DEF Fine, LocksFine
      <3>4. \A lk \in Lock : ~Ins(s, lk)
        BY <1>3, TwoLocks
      <3>5. x[1] # "own"
        <4>1. x[1] = "own" => (Ins(s, x[2]) <=> Ins(v, x[2]))
          BY <3>1, InsCons
        <4> QED BY <3>2, <3>4, <4>1
      <3>6. x[1] # "unlock"
        <4>1. x[1] = "unlock" => Ins(s, x[2])
          BY <3>1, InsCons
        <4> QED BY <3>3, <3>4, <4>1
      <3> QED BY <1>3, <2>2, <3>1, <3>5, <3>6 DEF Loose
    <2> QED BY <2>1, <2>2
  <1>5. PICK w : w = Then(Timer(c), s)
    OBVIOUS
  <1>6. /\ w \in Code /\ Sound(runs[c], w) /\ Loose(w) /\ Via(w) = "interrupt"
        /\ ~Ins(w, "ptable") /\ ~Ins(w, "tickslock") /\ ~Sleeps(w)
    BY <1>2, <1>3, <1>4, <1>5, TimerFine
  <1>7. Net(w) = 0 /\ ~(Has1(s, "wakeup1") /\ ~Has1(s, "ticks++"))
    <2>1. Whole(runs[c], w)
      BY <1>6, SoundWhole
    <2> QED BY <1>2, <1>3, <1>4, <1>6, <2>1, NetFree
  <1>8. /\ runs' = runs /\ panicked' = panicked /\ pstate' = pstate /\ ticks' = ticks
        /\ locked' = locked /\ holder' = holder /\ ncli' = ncli /\ intena' = intena
        /\ ints' = [ints EXCEPT ![c] = FALSE] /\ ints \in [Cpu -> BOOLEAN]
    BY DEF TimerInterrupts, lockvars, procvars, SpinInv, SpinTyped
  <1>9. todo' = [todo EXCEPT ![runs[c]] = w]
    BY <1>1, <1>5 DEF TimerInterrupts, Left, Then
  <1>10. ints' \in [Cpu -> BOOLEAN] /\ ints'[c] = FALSE /\ \A d \in Cpu : d # c => ints'[d] = ints[d]
    BY <1>8, PutOne
  <1>11. intena' \in [Cpu -> BOOLEAN]
    BY <1>8 DEF SpinInv, SpinTyped
  <1>12. RunsOk(runs[c], w, ncli'[c], ints'[c], intena'[c])
    BY <1>2, <1>6, <1>7, <1>8, <1>10 DEF RunsOk
  <1> QED BY <1>1, <1>3, <1>4, <1>6, <1>7, <1>8, <1>9, <1>10, <1>11, <1>12, StillStep

\* The next instruction is not one of lock's, nor iret.
LEMMA OtherView ==
  ASSUME SpinInv, NEW c \in Cpu, NEW op, At(c, op),
         op \notin {"pushcli", "xchg", "own", "disown", "unlock", "iret"}
  PROVE  \E x \in Instr, v \in Code :
           /\ Left(c) = Cons(x, v) /\ Left(c) # << >> /\ Head(Left(c)) = x /\ Tail(Left(c)) = v
           /\ x[1] = op /\ Arg(c) = x[2]
           /\ LocksFine(x, v) /\ SwitchFine(runs[c], x, v) /\ CallsFine(x, v) /\ Loose(v)
           /\ Sound(runs[c], v) /\ Whole(runs[c], v)
           /\ Net(Left(c)) = Net(v) /\ Via(Left(c)) = Via(v)
           /\ (Ins(Left(c), "ptable") <=> Ins(v, "ptable"))
           /\ (Ins(Left(c), "tickslock") <=> Ins(v, "tickslock"))
           /\ (\A o : Has1(Left(c), o) <=> op = o \/ Has1(v, o))
           /\ (Sleeps(Left(c)) <=> (op = "sched" /\ x[2] = "SLEEPING") \/ Sleeps(v))
           /\ (AllOn(Left(c)) <=> (op = "while" => ~Over(x[2])) /\ AllOn(v))
  <1>1. PICK x \in Instr, v \in Code :
           /\ Left(c) = Cons(x, v) /\ Left(c) # << >> /\ Head(Left(c)) = x /\ Tail(Left(c)) = v
           /\ x[1] = op /\ Arg(c) = x[2]
           /\ Fine(runs[c], x, v) /\ Sound(runs[c], v) /\ Whole(runs[c], v)
    BY HeadView
  <1>2. LocksFine(x, v) /\ SwitchFine(runs[c], x, v) /\ CallsFine(x, v)
    BY <1>1 DEF Fine
  <1>3. Loose(v)
    BY <1>1, <1>2 DEF LocksFine
  <1>4. PICK s : s = Left(c)
    OBVIOUS
  <1>5. Net(s) = Net(v) /\ Via(s) = Via(v)
    BY <1>1, <1>4, OtherCons
  <1>6. (Ins(s, "ptable") <=> Ins(v, "ptable")) /\ (Ins(s, "tickslock") <=> Ins(v, "tickslock"))
    <2>1. \A lk : Ins(s, lk) <=> Ins(v, lk)
      BY <1>1, <1>4, OtherCons
    <2> QED BY <2>1
  <1>7. /\ \A o : Has1(s, o) <=> op = o \/ Has1(v, o)
        /\ Sleeps(s) <=> (op = "sched" /\ x[2] = "SLEEPING") \/ Sleeps(v)
        /\ AllOn(s) <=> (op = "while" => ~Over(x[2])) /\ AllOn(v)
    BY <1>1, <1>4, MarksCons
  <1> QED BY <1>1, <1>2, <1>3, <1>4, <1>5, <1>6, <1>7

LEMMA ComesBackStep ==
  ASSUME SpinInv, NEW c \in Cpu, ComesBack(c)
  PROVE  SpinInv'
  <1>1. At(c, "intena")
    BY DEF ComesBack
  <1>2. PICK x \in Instr, v \in Code :
           /\ Left(c) # << >> /\ Head(Left(c)) = x /\ Tail(Left(c)) = v
           /\ x[1] = "intena" /\ Arg(c) = x[2]
           /\ SwitchFine(runs[c], x, v) /\ Loose(v) /\ Sound(runs[c], v)
           /\ Net(Left(c)) = Net(v) /\ Via(Left(c)) = Via(v)
           /\ (Ins(Left(c), "ptable") <=> Ins(v, "ptable"))
           /\ (Ins(Left(c), "tickslock") <=> Ins(v, "tickslock"))
           /\ (\A o : Has1(Left(c), o) <=> "intena" = o \/ Has1(v, o))
    BY <1>1, OtherView
  <1>3. /\ x[2] \in BOOLEAN /\ ~Sleeps(v)
        /\ Via(v) = "interrupt" => ~x[2]
        /\ Via(v) = "call" => x[2]
    BY <1>2 DEF SwitchFine
  <1>4. /\ runs' = runs /\ pstate' = pstate /\ ticks' = ticks
        /\ locked' = locked /\ holder' = holder /\ ncli' = ncli /\ ints' = ints
        /\ intena' = [intena EXCEPT ![c] = x[2]] /\ intena \in [Cpu -> BOOLEAN]
    BY <1>2 DEF ComesBack, lockvars, procvars, SpinInv, SpinTyped
  <1>5. panicked' = panicked /\ todo' = [todo EXCEPT ![runs[c]] = v]
    BY <1>2, GoesOn DEF ComesBack
  <1>6. intena' \in [Cpu -> BOOLEAN] /\ intena'[c] = x[2] /\ \A d \in Cpu : d # c => intena'[d] = intena[d]
    BY <1>3, <1>4, PutOne
  <1>7. ints' \in [Cpu -> BOOLEAN]
    BY <1>4 DEF SpinInv, SpinTyped
  <1>8. RunsOk(runs[c], v, ncli'[c], ints'[c], intena'[c])
    <2>1. RunsOk(runs[c], Left(c), ncli[c], ints[c], intena[c])
      BY SpinView
    <2> QED BY <1>2, <1>3, <1>4, <1>6, <2>1 DEF RunsOk
  <1>9. Left(c) = << >> \/ Head(Left(c))[1] \notin {"own", "unlock"}
    BY <1>2
  <1>10. Has1(Left(c), "wakeup1") /\ ~Has1(Left(c), "ticks++") => Has1(v, "wakeup1") /\ ~Has1(v, "ticks++")
    BY <1>2
  <1> QED BY <1>2, <1>3, <1>4, <1>5, <1>6, <1>7, <1>8, <1>9, <1>10, StillStep

\* The rest of a list v becomes w, and nothing else changes.
LEMMA OnlyTodo ==
  ASSUME SpinInv, NEW c \in Cpu, NEW op, At(c, op), op \notin {"own", "unlock", "intena", "xchg"},
         NEW w \in Code, Sound(runs[c], w), Loose(w), Via(w) = Via(Left(c)),
         UNCHANGED << lockvars, cpuvars, procvars, panicked >>, todo' = [todo EXCEPT ![runs[c]] = w],
         Ins(w, "ptable") <=> Ins(Left(c), "ptable"), Ins(w, "tickslock") <=> Ins(Left(c), "tickslock"),
         Has1(Left(c), "wakeup1") /\ ~Has1(Left(c), "ticks++") => Has1(w, "wakeup1") /\ ~Has1(w, "ticks++"),
         Sleeps(w) => AllOn(w)
  PROVE  SpinInv'
  <1>1. /\ runs' = runs /\ pstate' = pstate /\ ticks' = ticks /\ panicked' = panicked
        /\ locked' = locked /\ holder' = holder /\ ncli' = ncli /\ ints' = ints /\ intena' = intena
    BY DEF lockvars, cpuvars, procvars
  <1>2. intena' \in [Cpu -> BOOLEAN] /\ ints' \in [Cpu -> BOOLEAN]
    BY <1>1 DEF SpinInv, SpinTyped
  <1>3. Left(c) # << >> /\ Head(Left(c))[1] = op
    BY DEF At
  <1>4. Net(w) = Net(Left(c))
    <2>1. Whole(runs[c], w) /\ Whole(runs[c], Left(c))
      BY SoundWhole, SpinView
    <2>2. HeldBy(w) = HeldBy(Left(c)) /\ Between(w) = 0 /\ Between(Left(c)) = 0
      BY <1>3 DEF HeldBy, Between, Loose
    <2> QED BY <2>1, <2>2 DEF Whole
  <1>5. RunsOk(runs[c], w, ncli'[c], ints'[c], intena'[c])
    <2>1. RunsOk(runs[c], Left(c), ncli[c], ints[c], intena[c])
      BY SpinView
    <2> QED BY <1>1, <1>3, <1>4, <2>1 DEF RunsOk
  <1>6. Left(c) = << >> \/ Head(Left(c))[1] \notin {"own", "unlock"}
    BY <1>3
  <1> QED BY <1>1, <1>2, <1>5, <1>6, StillStep

LEMMA PreemptStep ==
  ASSUME SpinInv, NEW c \in Cpu, Preempt(c)
  PROVE  SpinInv'
  <1>1. At(c, "preempt")
    BY DEF Preempt
  <1>2. PICK x \in Instr, v \in Code :
           /\ Head(Left(c)) = x /\ Tail(Left(c)) = v /\ x[1] = "preempt"
           /\ CallsFine(x, v) /\ Loose(v) /\ Sound(runs[c], v) /\ Whole(runs[c], v)
           /\ Via(Left(c)) = Via(v)
           /\ (Ins(Left(c), "ptable") <=> Ins(v, "ptable"))
           /\ (Ins(Left(c), "tickslock") <=> Ins(v, "tickslock"))
           /\ (\A o : Has1(Left(c), o) <=> "preempt" = o \/ Has1(v, o))
    BY <1>1, OtherView
  <1>3. v # << >> /\ Head(v) = << "iret", "interrupt" >>
    BY <1>2 DEF CallsFine
  <1>4. ~Ins(v, "ptable") /\ ~Ins(v, "tickslock")
    <2>1. PICK y \in Instr, u \in Code : y = Head(v) /\ v = Cons(y, u) /\ Fine(runs[c], y, u)
      BY <1>2, <1>3, SoundHead
    <2>2. y[1] = "iret" /\ y[2] = "interrupt"
      BY <1>3, <2>1
    <2>3. ~Ins(u, "ptable") /\ ~Ins(u, "tickslock")
      BY <2>1, <2>2 DEF Fine, CallsFine
    <2> QED BY <2>1, <2>2, <2>3, InsCons
  <1>5. ~Sleeps(v) /\ ~(Has1(v, "wakeup1") /\ ~Has1(v, "ticks++"))
    BY <1>2, <1>4, NetFree
  <1>6. UNCHANGED << lockvars, cpuvars, procvars >>
    BY DEF Preempt
  <1>7. ~(Has1(Left(c), "wakeup1") /\ ~Has1(Left(c), "ticks++"))
    BY <1>2, <1>5
  <1>8. CASE runs[c] \in Process
    <2>1. panicked' = panicked /\ todo' = [todo EXCEPT ![runs[c]] = Then(Yield, v)]
      BY <1>2, <1>8, GoesOn DEF Preempt
    <2>2. PICK w : w = Then(Yield, v)
      OBVIOUS
    <2>3. /\ w \in Code /\ Sound(runs[c], w) /\ Loose(w) /\ w # << >> /\ Via(w) = Via(v)
          /\ ~Ins(w, "ptable") /\ ~Ins(w, "tickslock")
      BY <1>2, <1>3, <1>4, <1>8, <2>2, YieldFine
    <2>4. ~Sleeps(w)
      BY <2>3, NetFree, SoundWhole
    <2>5. UNCHANGED << lockvars, cpuvars, procvars, panicked >> /\ todo' = [todo EXCEPT ![runs[c]] = w]
      BY <1>6, <2>1, <2>2
    <2> QED BY <1>1, <1>2, <1>4, <1>7, <2>3, <2>4, <2>5, OnlyTodo
  <1>9. CASE runs[c] \notin Process
    <2>1. panicked' = panicked /\ todo' = [todo EXCEPT ![runs[c]] = v]
      BY <1>2, <1>9, GoesOn DEF Preempt
    <2>2. UNCHANGED << lockvars, cpuvars, procvars, panicked >>
      BY <1>6, <2>1
    <2> QED BY <1>1, <1>2, <1>5, <1>7, <2>1, <2>2, OnlyTodo
  <1> QED BY <1>8, <1>9

LEMMA Ticks0Step ==
  ASSUME SpinInv, NEW c \in Cpu, Ticks0(c)
  PROVE  SpinInv'
  <1>1. At(c, "ticks0")
    BY DEF Ticks0
  <1>2. PICK x \in Instr, v \in Code :
           /\ Head(Left(c)) = x /\ Tail(Left(c)) = v /\ x[1] = "ticks0"
           /\ SwitchFine(runs[c], x, v) /\ CallsFine(x, v) /\ Loose(v) /\ Sound(runs[c], v)
           /\ Via(Left(c)) = Via(v)
           /\ (Ins(Left(c), "ptable") <=> Ins(v, "ptable"))
           /\ (Ins(Left(c), "tickslock") <=> Ins(v, "tickslock"))
           /\ (\A o : Has1(Left(c), o) <=> "ticks0" = o \/ Has1(v, o))
    BY <1>1, OtherView
  <1>3. /\ Ins(v, "tickslock") /\ ~Ins(v, "ptable") /\ ~Has1(v, "while") /\ ~Sleeps(v) /\ Via(v) = "call"
        /\ v # << >>
    BY <1>2, EmptyReads DEF CallsFine
  <1>4. PICK y \in Operand, op \in Ops : op = "while" /\ y = ticks /\ y \in Nat
    BY Words DEF SpinInv, SpinTyped
  <1>5. PICK i \in Instr : i = << op, y >> /\ i[1] = op /\ i[2] = y
    BY InstrIn
  <1>6. PICK w : w = Cons(i, v)
    OBVIOUS
  <1>7. UNCHANGED << lockvars, cpuvars, procvars, panicked >> /\ todo' = [todo EXCEPT ![runs[c]] = w]
    <2>1. todo' = [todo EXCEPT ![runs[c]] = Then(DoWith(op, y), v)] /\ panicked' = panicked
      BY <1>2, <1>4, GoesOn DEF Ticks0
    <2>2. Then(DoWith(op, y), v) = w
      BY <1>5, <1>6, DoThen
    <2>3. UNCHANGED << lockvars, cpuvars, procvars >>
      BY DEF Ticks0
    <2> QED BY <2>1, <2>2, <2>3
  <1>8. SwitchFine(runs[c], i, v) /\ CallsFine(i, v)
    <2>1. runs[c] \in Process
      BY <1>2 DEF SwitchFine
    <2> QED BY <1>3, <1>4, <1>5, <2>1 DEF SwitchFine, CallsFine
  <1>9. i[1] \notin {"pushcli", "xchg", "own", "disown", "unlock", "iret", "sched", "wakeup1", "ticks++"}
    BY <1>4, <1>5
  <1>10. /\ w \in Code /\ Sound(runs[c], w) /\ Loose(w) /\ Via(w) = Via(v)
         /\ (Ins(w, "ptable") <=> Ins(v, "ptable")) /\ (Ins(w, "tickslock") <=> Ins(v, "tickslock"))
         /\ (Has1(w, "wakeup1") <=> Has1(v, "wakeup1")) /\ (Has1(w, "ticks++") <=> Has1(v, "ticks++"))
         /\ ~Sleeps(w)
    BY <1>2, <1>3, <1>6, <1>8, <1>9, OtherReads
  <1>11. Has1(Left(c), "wakeup1") /\ ~Has1(Left(c), "ticks++") => Has1(w, "wakeup1") /\ ~Has1(w, "ticks++")
    BY <1>2, <1>10
  <1> QED BY <1>1, <1>2, <1>7, <1>10, <1>11, OnlyTodo

LEMMA WhileStep ==
  ASSUME SpinInv, NEW c \in Cpu, While(c)
  PROVE  SpinInv'
  <1>1. At(c, "while")
    BY DEF While
  <1>2. PICK x \in Instr, v \in Code :
           /\ Head(Left(c)) = x /\ Tail(Left(c)) = v /\ x[1] = "while" /\ Arg(c) = x[2]
           /\ SwitchFine(runs[c], x, v) /\ CallsFine(x, v) /\ Loose(v) /\ Sound(runs[c], v)
           /\ Whole(runs[c], v)
           /\ Via(Left(c)) = Via(v)
           /\ (Ins(Left(c), "ptable") <=> Ins(v, "ptable"))
           /\ (Ins(Left(c), "tickslock") <=> Ins(v, "tickslock"))
           /\ (\A o : Has1(Left(c), o) <=> "while" = o \/ Has1(v, o))
    BY <1>1, OtherView
  <1>3. /\ Ins(v, "tickslock") /\ ~Ins(v, "ptable") /\ ~Has1(v, "while") /\ ~Sleeps(v) /\ Via(v) = "call"
        /\ v # << >> /\ x[2] \in Nat
    BY <1>2, EmptyReads DEF CallsFine
  <1>4. ~Has1(v, "wakeup1") /\ ~Has1(Left(c), "wakeup1")
    BY <1>2, <1>3 DEF Whole
  <1>5. UNCHANGED << lockvars, cpuvars, procvars >>
    BY DEF While
  <1>6. CASE Over(x[2])
    <2>1. panicked' = panicked /\ todo' = [todo EXCEPT ![runs[c]] = v]
      BY <1>2, <1>6, GoesOn DEF While
    <2>2. UNCHANGED << lockvars, cpuvars, procvars, panicked >>
      BY <1>5, <2>1
    <2> QED BY <1>1, <1>2, <1>3, <1>4, <2>1, <2>2, OnlyTodo
  <1>7. CASE ~Over(x[2])
    <2>1. PICK n \in Nat : n = x[2]
      BY <1>3
    <2>2. PICK w : w = Then(Then(Sleep("tickslock"), DoWith("while", n)), v)
      OBVIOUS
    <2>3. UNCHANGED << lockvars, cpuvars, procvars, panicked >> /\ todo' = [todo EXCEPT ![runs[c]] = w]
      <3>1. Goes(c, Then(Sleep("tickslock"), DoWith("while", n)))
        BY <1>2, <1>7, <2>1, Zenon DEF While, Then
      <3> QED BY <1>2, <1>5, <2>2, <3>1, GoesOn
    <2>4. runs[c] \in Process
      BY <1>2 DEF SwitchFine
    <2>5. CallsFine(<< "while", n >>, v)
      <3>1. PICK i : i = << "while", n >>
        OBVIOUS
      <3>2. i[1] = "while" /\ i[2] = n
        BY <3>1
      <3>3. CallsFine(i, v)
        BY <1>3, <2>1, <3>2 DEF CallsFine
      <3> QED BY <3>1, <3>3
    <2>6. /\ w \in Code /\ Sound(runs[c], w) /\ Loose(w) /\ Via(w) = "call"
          /\ ~Ins(w, "ptable") /\ Ins(w, "tickslock") /\ AllOn(w)
      BY <1>2, <1>3, <1>7, <2>1, <2>2, <2>4, <2>5, SleepFine
    <2> QED BY <1>1, <1>2, <1>3, <1>4, <2>3, <2>6, OnlyTodo
  <1> QED BY <1>6, <1>7

---------------------------------------------------------------------------
(* acquire and release. *)

\* The next instruction is one of lock's.
LEMMA LockView ==
  ASSUME SpinInv, NEW c \in Cpu, NEW op \in {"pushcli", "xchg", "own", "disown", "unlock"}, At(c, op)
  PROVE  \E lk \in Lock, v \in Code :
           /\ Left(c) # << >> /\ Head(Left(c)) = << op, lk >> /\ Tail(Left(c)) = v /\ Arg(c) = lk
           /\ Sound(runs[c], v) /\ Whole(runs[c], v) /\ Like(Left(c), v)
           /\ Net(Left(c)) = (IF op = "unlock" THEN Net(v) + 1
                              ELSE IF op = "pushcli" THEN Net(v) - 1 ELSE Net(v))
           /\ (Ins(Left(c), lk) <=> op = "unlock" \/ (op # "xchg" /\ Ins(v, lk)))
           /\ (\A m : m # lk => (Ins(Left(c), m) <=> Ins(v, m)))
           /\ (op = "pushcli" => v # << >> /\ Head(v) = << "xchg", lk >>)
           /\ (op = "xchg" => /\ v # << >> /\ Head(v) = << "own", lk >> /\ Ins(v, lk)
                              /\ lk = "tickslock" => ~Ins(v, "ptable"))
           /\ (op = "own" => Ins(v, lk) /\ Loose(v))
           /\ (op = "disown" => v # << >> /\ Head(v) = << "unlock", lk >>)
           /\ (op = "unlock" => ~Ins(v, lk) /\ Loose(v))
  <1>1. PICK x \in Instr, v \in Code :
           /\ Left(c) = Cons(x, v) /\ Left(c) # << >> /\ Head(Left(c)) = x /\ Tail(Left(c)) = v
           /\ x[1] = op /\ Arg(c) = x[2]
           /\ Fine(runs[c], x, v) /\ Sound(runs[c], v) /\ Whole(runs[c], v)
    BY HeadView
  <1>2. LocksFine(x, v)
    BY <1>1 DEF Fine
  <1>3. x[2] \in Lock
    BY <1>1, <1>2 DEF LocksFine
  <1>4. PICK lk \in Lock : lk = x[2]
    BY <1>3
  <1>5. x = << op, lk >>
    BY <1>1, <1>4 DEF Instr
  <1>6. /\ op = "pushcli" => v # << >> /\ Head(v) = << "xchg", lk >>
        /\ op = "xchg" => /\ v # << >> /\ Head(v) = << "own", lk >> /\ Ins(v, lk)
                          /\ lk = "tickslock" => ~Ins(v, "ptable")
        /\ op = "own" => Ins(v, lk) /\ Loose(v)
        /\ op = "disown" => v # << >> /\ Head(v) = << "unlock", lk >>
        /\ op = "unlock" => ~Ins(v, lk) /\ Loose(v)
    BY <1>1, <1>2, <1>4 DEF LocksFine
  <1>7. PICK s : s = Left(c)
    OBVIOUS
  <1>8. s = Cons(<< op, lk >>, v)
    BY <1>1, <1>5, <1>7
  <1>9. /\ Like(s, v)
        /\ Net(s) = (IF op = "unlock" THEN Net(v) + 1
                     ELSE IF op = "pushcli" THEN Net(v) - 1 ELSE Net(v))
        /\ Ins(s, lk) <=> op = "unlock" \/ (op # "xchg" /\ Ins(v, lk))
        /\ \A m : m # lk => (Ins(s, m) <=> Ins(v, m))
    BY <1>8, LockCons
  <1>10. Head(s) = << op, lk >> /\ Tail(s) = v /\ Arg(c) = lk /\ s # << >>
    BY <1>1, <1>4, <1>5, <1>7
  <1> QED BY <1>1, <1>4, <1>6, <1>7, <1>9, <1>10

\* A step of processor c in acquire or release of lk.
LEMMA LockStep ==
  ASSUME SpinInv, NEW c \in Cpu, NEW op, NEW lk \in Lock, NEW v \in Code,
         Left(c) # << >>, Head(Left(c)) = << op, lk >>, Sound(runs[c], v), Like(Left(c), v),
         \A m : m # lk => (Ins(Left(c), m) <=> Ins(v, m)),
         \A m \in Lock \ {lk} : Ins(v, m) => Head(v) # << "unlock", m >>,
         runs' = runs, panicked' = panicked, pstate' = pstate, ticks' = ticks,
         todo' = [todo EXCEPT ![runs[c]] = v],
         locked' \in [Lock -> BOOLEAN], holder' \in [Lock -> Cpu \cup {NoCpu}],
         ncli' \in [Cpu -> Int], intena' \in [Cpu -> BOOLEAN], ints' \in [Cpu -> BOOLEAN],
         \A d \in Cpu : d # c => ncli'[d] = ncli[d] /\ intena'[d] = intena[d] /\ ints'[d] = ints[d],
         \A m \in Lock : m # lk => locked'[m] = locked[m] /\ holder'[m] = holder[m],
         RunsOk(runs[c], v, ncli'[c], ints'[c], intena'[c]),
         HoldsOk(c, v, lk, locked'[lk], holder'[lk]),
         \A d \in Cpu \ {c} : HoldsOk(d, Left(d), lk, locked'[lk], holder'[lk]),
         \A d \in Cpu \ {c} : ~(Ins(v, lk) /\ Ins(Left(d), lk)),
         locked'[lk] => Ins(v, lk) \/ \E d \in Cpu \ {c} : Ins(Left(d), lk)
  PROVE  SpinInv'
  <1>1. \A p \in Process : Timely(p)'
    <2>1. Has1(Left(c), "wakeup1") /\ ~Has1(Left(c), "ticks++") => Has1(v, "wakeup1") /\ ~Has1(v, "ticks++")
      BY DEF Like
    <2>2. Sleeps(v) => AllOn(v) \/ (Sleeps(Left(c)) /\ (AllOn(Left(c)) => AllOn(v)))
      BY DEF Like
    <2> QED BY <2>1, <2>2, TimelyStep
  <1>2. ASSUME NEW m \in Lock PROVE HoldsOk(c, v, m, locked'[m], holder'[m])
    <2>1. CASE m = lk
      BY <2>1
    <2>2. CASE m # lk
      <3>1. HoldsOk(c, Left(c), m, locked[m], holder[m])
        BY SpinView
      <3>2. Head(Left(c)) \notin {<< "own", m >>, << "unlock", m >>}
        BY <2>2
      <3>3. Ins(v, m) <=> Ins(Left(c), m)
        BY <2>2
      <3>4. Ins(v, m) => Head(v) # << "unlock", m >>
        BY <2>2
      <3> QED BY <2>2, <3>1, <3>2, <3>3, <3>4 DEF HoldsOk
    <2> QED BY <2>1, <2>2
  <1>3. ASSUME NEW m \in Lock, NEW d \in Cpu \ {c} PROVE HoldsOk(d, Left(d), m, locked'[m], holder'[m])
    <2>1. CASE m = lk
      BY <2>1
    <2>2. CASE m # lk
      <3>1. HoldsOk(d, Left(d), m, locked[m], holder[m])
        BY SpinView
      <3> QED BY <2>2, <3>1
    <2> QED BY <2>1, <2>2
  <1>4. ASSUME NEW m \in Lock, NEW d \in Cpu \ {c} PROVE ~(Ins(v, m) /\ Ins(Left(d), m))
    <2>1. CASE m = lk
      BY <2>1
    <2>2. CASE m # lk
      <3>1. Ins(v, m) => Ins(Left(c), m)
        BY <2>2
      <3> QED BY <3>1, SpinView
    <2> QED BY <2>1, <2>2
  <1>5. ASSUME NEW m \in Lock, locked'[m] PROVE Ins(v, m) \/ \E d \in Cpu \ {c} : Ins(Left(d), m)
    <2>1. CASE m = lk
      BY <1>5, <2>1
    <2>2. CASE m # lk
      <3>1. locked[m]
        BY <1>5, <2>2
      <3>2. PICK d \in Cpu : Ins(Left(d), m)
        BY <3>1 DEF SpinInv, LocksRight
      <3>3. Ins(Left(c), m) => Ins(v, m)
        BY <2>2
      <3> QED BY <3>2, <3>3
    <2> QED BY <2>1, <2>2
  <1>6. /\ ~panicked' /\ ticks' \in Nat
        /\ pstate' \in [Process -> {"RUNNABLE", "RUNNING", "SLEEPING"}]
    BY DEF SpinInv, SpinTyped
  <1>7. \A p \in Process : pstate'[p] = "RUNNING" <=> pstate[p] = "RUNNING"
    OBVIOUS
  <1> QED BY <1>1, <1>2, <1>3, <1>4, <1>5, <1>6, <1>7, LocalStep

LEMMA PushcliStep ==
  ASSUME SpinInv, NEW c \in Cpu, Pushcli(c)
  PROVE  SpinInv'
  <1>1. At(c, "pushcli")
    BY DEF Pushcli
  <1>2. PICK lk \in Lock, v \in Code :
           /\ Left(c) # << >> /\ Head(Left(c)) = << "pushcli", lk >> /\ Tail(Left(c)) = v /\ Arg(c) = lk
           /\ Sound(runs[c], v) /\ Whole(runs[c], v) /\ Like(Left(c), v)
           /\ Net(Left(c)) = Net(v) - 1
           /\ (Ins(Left(c), lk) <=> Ins(v, lk))
           /\ (\A m : m # lk => (Ins(Left(c), m) <=> Ins(v, m)))
           /\ v # << >> /\ Head(v) = << "xchg", lk >>
    <2>1. PICK op \in {"pushcli", "xchg", "own", "disown", "unlock"} : op = "pushcli"
      OBVIOUS
    <2>2. op # "unlock" /\ op # "xchg" /\ At(c, op)
      BY <1>1, <2>1
    <2>3. PICK lk \in Lock, v \in Code :
           /\ Left(c) # << >> /\ Head(Left(c)) = << op, lk >> /\ Tail(Left(c)) = v /\ Arg(c) = lk
           /\ Sound(runs[c], v) /\ Whole(runs[c], v) /\ Like(Left(c), v)
           /\ Net(Left(c)) = (IF op = "unlock" THEN Net(v) + 1
                              ELSE IF op = "pushcli" THEN Net(v) - 1 ELSE Net(v))
           /\ (Ins(Left(c), lk) <=> op = "unlock" \/ (op # "xchg" /\ Ins(v, lk)))
           /\ (\A m : m # lk => (Ins(Left(c), m) <=> Ins(v, m)))
           /\ (op = "pushcli" => v # << >> /\ Head(v) = << "xchg", lk >>)
           /\ (op = "xchg" => /\ v # << >> /\ Head(v) = << "own", lk >> /\ Ins(v, lk)
                              /\ lk = "tickslock" => ~Ins(v, "ptable"))
           /\ (op = "own" => Ins(v, lk) /\ Loose(v))
           /\ (op = "disown" => v # << >> /\ Head(v) = << "unlock", lk >>)
           /\ (op = "unlock" => ~Ins(v, lk) /\ Loose(v))
      BY <2>2, LockView, Zenon
    <2>4. Net(Left(c)) = Net(v) - 1
      BY <2>1, <2>2, <2>3
    <2>5. Head(Left(c)) = << "pushcli", lk >> /\ v # << >> /\ Head(v) = << "xchg", lk >>
      BY <2>1, <2>3
    <2>6. Ins(Left(c), lk) <=> Ins(v, lk)
      BY <2>2, <2>3
    <2> QED BY <2>3, <2>4, <2>5, <2>6
  <1>3. ~Ins(v, lk) /\ Net(v) > 0
    <2>1. PICK y \in Instr, u \in Code : y = Head(v) /\ v = Cons(y, u)
      BY <1>2, SoundHead
    <2>2. y[1] = "xchg" /\ y[2] = lk
      BY <1>2, <2>1
    <2>3. ~Ins(v, lk)
      BY <2>1, <2>2, InsCons
    <2> QED BY <1>2, <2>1, <2>2, <2>3, NetHeld
  <1>4. ~Has(c, lk) /\ holder[lk] # c
    <2>1. HoldsOk(c, Left(c), lk, locked[lk], holder[lk])
      BY SpinView
    <2> QED BY <1>2, <1>3, <2>1 DEF HoldsOk, Has
  <1>5. /\ Goes(c, << >>)
        /\ ints' = [ints EXCEPT ![c] = FALSE]
        /\ ncli' = [ncli EXCEPT ![c] = ncli[c] + 1]
        /\ intena' = [intena EXCEPT ![c] = IF ncli[c] = 0 THEN ints[c] ELSE intena[c]]
        /\ locked' = locked /\ holder' = holder /\ runs' = runs /\ pstate' = pstate /\ ticks' = ticks
    BY <1>2, <1>4 DEF Pushcli, lockvars, procvars
  <1>6. panicked' = panicked /\ todo' = [todo EXCEPT ![runs[c]] = v]
    BY <1>2, <1>5, GoesOn
  <1>7. /\ ints \in [Cpu -> BOOLEAN] /\ ncli \in [Cpu -> Int] /\ intena \in [Cpu -> BOOLEAN]
        /\ ncli[c] + 1 \in Int /\ (IF ncli[c] = 0 THEN ints[c] ELSE intena[c]) \in BOOLEAN
        /\ locked' \in [Lock -> BOOLEAN] /\ holder' \in [Lock -> Cpu \cup {NoCpu}]
    BY <1>5 DEF SpinInv, SpinTyped
  <1>8. ints' \in [Cpu -> BOOLEAN] /\ ints'[c] = FALSE /\ \A d \in Cpu : d # c => ints'[d] = ints[d]
    BY <1>5, <1>7, PutOne
  <1>9. ncli' \in [Cpu -> Int] /\ ncli'[c] = ncli[c] + 1 /\ \A d \in Cpu : d # c => ncli'[d] = ncli[d]
    BY <1>5, <1>7, PutOne
  <1>10. /\ intena' \in [Cpu -> BOOLEAN]
         /\ intena'[c] = (IF ncli[c] = 0 THEN ints[c] ELSE intena[c])
         /\ \A d \in Cpu : d # c => intena'[d] = intena[d]
    BY <1>5, <1>7, PutOne
  <1>11. RunsOk(runs[c], v, ncli'[c], ints'[c], intena'[c])
    <2>1. RunsOk(runs[c], Left(c), ncli[c], ints[c], intena[c])
      BY SpinView
    <2>2. PICK n \in Int, i \in BOOLEAN, e \in BOOLEAN : n = ncli[c] /\ i = ints[c] /\ e = intena[c]
      BY SpinView
    <2>3. /\ n = Net(Left(c)) /\ (Via(v) = "interrupt" => ~i) /\ (n = 0 /\ Via(v) = "call" => i)
          /\ n > 0 => (Via(v) = "interrupt" => ~e) /\ (Via(v) = "call" => e)
      BY <1>2, <2>1, <2>2 DEF RunsOk, Like
    <2>4. Net(Left(c)) \in Nat
      BY NetHeld, SpinView
    <2>5. n + 1 = Net(v) /\ n + 1 > 0 /\ (n = 0 \/ n > 0)
      <3>1. Net(v) \in Nat
        BY <1>2, NetHeld
      <3> QED BY <1>2, <2>3, <2>4, <3>1
    <2>6. (Via(v) = "interrupt" => ~intena'[c]) /\ (Via(v) = "call" => intena'[c])
      BY <1>10, <2>2, <2>3, <2>5
    <2> QED BY <1>8, <1>9, <2>2, <2>5, <2>6 DEF RunsOk
  <1>12. HoldsOk(c, v, lk, locked'[lk], holder'[lk])
    BY <1>3, <1>4, <1>5 DEF HoldsOk
  <1>13. \A d \in Cpu \ {c} : HoldsOk(d, Left(d), lk, locked'[lk], holder'[lk])
    BY <1>5, SpinView
  <1>14. \A m \in Lock \ {lk} : Ins(v, m) => Head(v) # << "unlock", m >>
    BY <1>2
  <1>15. locked'[lk] => Ins(v, lk) \/ \E d \in Cpu \ {c} : Ins(Left(d), lk)
    BY <1>2, <1>3, <1>5 DEF SpinInv, LocksRight
  <1>16. \A m \in Lock : m # lk => locked'[m] = locked[m] /\ holder'[m] = holder[m]
    BY <1>5
  <1>17. \A d \in Cpu : d # c => ncli'[d] = ncli[d] /\ intena'[d] = intena[d] /\ ints'[d] = ints[d]
    BY <1>8, <1>9, <1>10
  <1>18. \A d \in Cpu \ {c} : ~(Ins(v, lk) /\ Ins(Left(d), lk))
    BY <1>3
  <1>19. /\ runs' = runs /\ pstate' = pstate /\ ticks' = ticks
         /\ locked' \in [Lock -> BOOLEAN] /\ holder' \in [Lock -> Cpu \cup {NoCpu}]
         /\ ncli' \in [Cpu -> Int] /\ intena' \in [Cpu -> BOOLEAN] /\ ints' \in [Cpu -> BOOLEAN]
    BY <1>5, <1>7, <1>8, <1>9, <1>10
  <1> QED BY <1>2, <1>6, <1>11, <1>12, <1>13, <1>14, <1>15, <1>16, <1>17, <1>18, <1>19, LockStep

LEMMA XchgStep ==
  ASSUME SpinInv, NEW c \in Cpu, Xchg(c)
  PROVE  SpinInv'
  <1>1. At(c, "xchg")
    BY DEF Xchg
  <1>2. PICK lk \in Lock, v \in Code :
           /\ Left(c) # << >> /\ Head(Left(c)) = << "xchg", lk >> /\ Tail(Left(c)) = v /\ Arg(c) = lk
           /\ Sound(runs[c], v) /\ Like(Left(c), v)
           /\ Net(Left(c)) = Net(v)
           /\ ~Ins(Left(c), lk)
           /\ (\A m : m # lk => (Ins(Left(c), m) <=> Ins(v, m)))
           /\ v # << >> /\ Head(v) = << "own", lk >> /\ Ins(v, lk)
    BY <1>1, LockView
  <1>3. /\ ~locked[lk] /\ locked' = [locked EXCEPT ![lk] = TRUE] /\ Goes(c, << >>)
        /\ holder' = holder /\ runs' = runs /\ pstate' = pstate /\ ticks' = ticks
        /\ ncli' = ncli /\ ints' = ints /\ intena' = intena
    BY <1>2 DEF Xchg, cpuvars, procvars
  <1>4. panicked' = panicked /\ todo' = [todo EXCEPT ![runs[c]] = v]
    BY <1>2, <1>3, GoesOn
  <1>5. /\ ints' \in [Cpu -> BOOLEAN] /\ ncli' \in [Cpu -> Int] /\ intena' \in [Cpu -> BOOLEAN]
        /\ locked \in [Lock -> BOOLEAN] /\ holder' \in [Lock -> Cpu \cup {NoCpu}]
    BY <1>3 DEF SpinInv, SpinTyped
  <1>6. locked' \in [Lock -> BOOLEAN] /\ locked'[lk] = TRUE /\ \A m \in Lock : m # lk => locked'[m] = locked[m]
    BY <1>3, <1>5, PutOne
  <1>7. \A d \in Cpu : ~Ins(Left(d), lk)
    BY <1>3, SpinView
  <1>8. RunsOk(runs[c], v, ncli'[c], ints'[c], intena'[c])
    <2>1. RunsOk(runs[c], Left(c), ncli[c], ints[c], intena[c])
      BY SpinView
    <2>2. Head(Left(c))[1] # "intena"
      BY <1>2
    <2> QED BY <1>2, <1>3, <2>1, <2>2 DEF RunsOk, Like
  <1>9. HoldsOk(c, v, lk, locked'[lk], holder'[lk])
    <2>1. HoldsOk(c, Left(c), lk, locked[lk], holder[lk])
      BY SpinView
    <2>2. holder[lk] # c
      BY <1>2, <2>1 DEF HoldsOk
    <2> QED BY <1>2, <1>3, <1>6, <2>2 DEF HoldsOk
  <1>10. ASSUME NEW d \in Cpu \ {c} PROVE HoldsOk(d, Left(d), lk, locked'[lk], holder'[lk])
    <2>1. HoldsOk(d, Left(d), lk, locked[lk], holder[lk])
      BY SpinView
    <2> QED BY <1>3, <1>7, <2>1 DEF HoldsOk
  <1>11. \A m \in Lock \ {lk} : Ins(v, m) => Head(v) # << "unlock", m >>
    BY <1>2
  <1>12. \A m \in Lock : m # lk => locked'[m] = locked[m] /\ holder'[m] = holder[m]
    BY <1>3, <1>6
  <1>13. \A d \in Cpu : d # c => ncli'[d] = ncli[d] /\ intena'[d] = intena[d] /\ ints'[d] = ints[d]
    BY <1>3
  <1>14. \A d \in Cpu \ {c} : ~(Ins(v, lk) /\ Ins(Left(d), lk))
    BY <1>7
  <1>15. /\ runs' = runs /\ pstate' = pstate /\ ticks' = ticks
         /\ locked' \in [Lock -> BOOLEAN] /\ holder' \in [Lock -> Cpu \cup {NoCpu}]
         /\ ncli' \in [Cpu -> Int] /\ intena' \in [Cpu -> BOOLEAN] /\ ints' \in [Cpu -> BOOLEAN]
    BY <1>3, <1>5, <1>6
  <1>16. locked'[lk] => Ins(v, lk) \/ \E d \in Cpu \ {c} : Ins(Left(d), lk)
    BY <1>2
  <1> QED BY <1>2, <1>4, <1>8, <1>9, <1>10, <1>11, <1>12, <1>13, <1>14, <1>15, <1>16, LockStep

LEMMA OwnStep ==
  ASSUME SpinInv, NEW c \in Cpu, Own(c)
  PROVE  SpinInv'
  <1>1. At(c, "own")
    BY DEF Own
  <1>2. PICK lk \in Lock, v \in Code :
           /\ Left(c) # << >> /\ Head(Left(c)) = << "own", lk >> /\ Tail(Left(c)) = v /\ Arg(c) = lk
           /\ Sound(runs[c], v) /\ Like(Left(c), v)
           /\ Net(Left(c)) = Net(v)
           /\ Ins(Left(c), lk) /\ Ins(v, lk)
           /\ (\A m : m # lk => (Ins(Left(c), m) <=> Ins(v, m)))
           /\ Loose(v)
    BY <1>1, LockView
  <1>3. /\ holder' = [holder EXCEPT ![lk] = c] /\ Goes(c, << >>)
        /\ locked' = locked /\ runs' = runs /\ pstate' = pstate /\ ticks' = ticks
        /\ ncli' = ncli /\ ints' = ints /\ intena' = intena
    BY <1>2 DEF Own, cpuvars, procvars
  <1>4. panicked' = panicked /\ todo' = [todo EXCEPT ![runs[c]] = v]
    BY <1>2, <1>3, GoesOn
  <1>5. /\ ints' \in [Cpu -> BOOLEAN] /\ ncli' \in [Cpu -> Int] /\ intena' \in [Cpu -> BOOLEAN]
        /\ locked' \in [Lock -> BOOLEAN] /\ holder \in [Lock -> Cpu \cup {NoCpu}]
    BY <1>3 DEF SpinInv, SpinTyped
  <1>6. /\ holder' \in [Lock -> Cpu \cup {NoCpu}] /\ holder'[lk] = c
        /\ \A m \in Lock : m # lk => holder'[m] = holder[m]
    BY <1>3, <1>5, PutOne
  <1>7. locked[lk] /\ \A d \in Cpu : d # c => ~Ins(Left(d), lk)
    BY <1>2, SpinView
  <1>8. RunsOk(runs[c], v, ncli'[c], ints'[c], intena'[c])
    <2>1. RunsOk(runs[c], Left(c), ncli[c], ints[c], intena[c])
      BY SpinView
    <2>2. Head(Left(c))[1] # "intena"
      BY <1>2
    <2> QED BY <1>2, <1>3, <2>1, <2>2 DEF RunsOk, Like
  <1>9. \A m \in Lock : Ins(v, m) => Head(v) # << "unlock", m >>
    <2>1. ASSUME NEW m \in Lock, Ins(v, m) PROVE Head(v)[1] # "unlock"
      BY <1>2, <2>1, EmptyReads DEF Loose
    <2> QED BY <2>1
  <1>10. HoldsOk(c, v, lk, locked'[lk], holder'[lk])
    BY <1>2, <1>3, <1>6, <1>7, <1>9 DEF HoldsOk
  <1>11. ASSUME NEW d \in Cpu \ {c} PROVE HoldsOk(d, Left(d), lk, locked'[lk], holder'[lk])
    BY <1>6, <1>7 DEF HoldsOk
  <1>12. \A m \in Lock : m # lk => locked'[m] = locked[m] /\ holder'[m] = holder[m]
    BY <1>3, <1>6
  <1>13. \A d \in Cpu : d # c => ncli'[d] = ncli[d] /\ intena'[d] = intena[d] /\ ints'[d] = ints[d]
    BY <1>3
  <1>14. \A m \in Lock \ {lk} : Ins(v, m) => Head(v) # << "unlock", m >>
    BY <1>9
  <1>15. \A d \in Cpu \ {c} : ~(Ins(v, lk) /\ Ins(Left(d), lk))
    BY <1>7
  <1> QED BY <1>2, <1>3, <1>4, <1>5, <1>6, <1>8, <1>10, <1>11, <1>12, <1>13, <1>14, <1>15, LockStep

LEMMA DisownStep ==
  ASSUME SpinInv, NEW c \in Cpu, Disown(c)
  PROVE  SpinInv'
  <1>1. At(c, "disown")
    BY DEF Disown
  <1>2. PICK lk \in Lock, v \in Code :
           /\ Left(c) # << >> /\ Head(Left(c)) = << "disown", lk >> /\ Tail(Left(c)) = v /\ Arg(c) = lk
           /\ Sound(runs[c], v) /\ Like(Left(c), v)
           /\ Net(Left(c)) = Net(v)
           /\ (Ins(Left(c), lk) <=> Ins(v, lk))
           /\ (\A m : m # lk => (Ins(Left(c), m) <=> Ins(v, m)))
           /\ v # << >> /\ Head(v) = << "unlock", lk >>
    BY <1>1, LockView
  <1>3. Ins(v, lk)
    <2>1. PICK y \in Instr, u \in Code : y = Head(v) /\ v = Cons(y, u)
      BY <1>2, SoundHead
    <2>2. y[1] = "unlock" /\ y[2] = lk
      BY <1>2, <2>1
    <2> QED BY <2>1, <2>2, InsCons
  <1>4. locked[lk] /\ holder[lk] = c /\ \A d \in Cpu : d # c => ~Ins(Left(d), lk)
    <2>1. HoldsOk(c, Left(c), lk, locked[lk], holder[lk])
      BY SpinView
    <2>2. Head(Left(c)) \notin {<< "own", lk >>, << "unlock", lk >>}
      BY <1>2
    <2> QED BY <1>2, <1>3, <2>1, <2>2, SpinView DEF HoldsOk
  <1>5. /\ holder' = [holder EXCEPT ![lk] = NoCpu] /\ Goes(c, << >>)
        /\ locked' = locked /\ runs' = runs /\ pstate' = pstate /\ ticks' = ticks
        /\ ncli' = ncli /\ ints' = ints /\ intena' = intena
    BY <1>2, <1>4 DEF Disown, NameLeft, Has, cpuvars, procvars
  <1>6. panicked' = panicked /\ todo' = [todo EXCEPT ![runs[c]] = v]
    BY <1>2, <1>5, GoesOn
  <1>7. /\ ints' \in [Cpu -> BOOLEAN] /\ ncli' \in [Cpu -> Int] /\ intena' \in [Cpu -> BOOLEAN]
        /\ locked' \in [Lock -> BOOLEAN] /\ holder \in [Lock -> Cpu \cup {NoCpu}]
    BY <1>5 DEF SpinInv, SpinTyped
  <1>8. /\ holder' \in [Lock -> Cpu \cup {NoCpu}] /\ holder'[lk] = NoCpu
        /\ \A m \in Lock : m # lk => holder'[m] = holder[m]
    BY <1>5, <1>7, PutOne
  <1>9. NoCpu \notin Cpu
    BY SpinAssumption DEF NoCpu
  <1>10. RunsOk(runs[c], v, ncli'[c], ints'[c], intena'[c])
    <2>1. RunsOk(runs[c], Left(c), ncli[c], ints[c], intena[c])
      BY SpinView
    <2>2. Head(Left(c))[1] # "intena"
      BY <1>2
    <2> QED BY <1>2, <1>5, <2>1, <2>2 DEF RunsOk, Like
  <1>11. HoldsOk(c, v, lk, locked'[lk], holder'[lk])
    BY <1>2, <1>3, <1>4, <1>5, <1>8, <1>9 DEF HoldsOk
  <1>12. ASSUME NEW d \in Cpu \ {c} PROVE HoldsOk(d, Left(d), lk, locked'[lk], holder'[lk])
    BY <1>4, <1>8, <1>9 DEF HoldsOk
  <1>13. \A m \in Lock : m # lk => locked'[m] = locked[m] /\ holder'[m] = holder[m]
    BY <1>5, <1>8
  <1>14. \A d \in Cpu : d # c => ncli'[d] = ncli[d] /\ intena'[d] = intena[d] /\ ints'[d] = ints[d]
    BY <1>5
  <1>15. \A m \in Lock \ {lk} : Ins(v, m) => Head(v) # << "unlock", m >>
    BY <1>2
  <1>16. \A d \in Cpu \ {c} : ~(Ins(v, lk) /\ Ins(Left(d), lk))
    BY <1>4
  <1> QED BY <1>2, <1>3, <1>5, <1>6, <1>7, <1>8, <1>10, <1>11, <1>12, <1>13, <1>14, <1>15, <1>16, LockStep

LEMMA UnlockStep ==
  ASSUME SpinInv, NEW c \in Cpu, Unlock(c)
  PROVE  SpinInv'
  <1>1. At(c, "unlock")
    BY DEF Unlock
  <1>2. PICK lk \in Lock, v \in Code :
           /\ Left(c) # << >> /\ Head(Left(c)) = << "unlock", lk >> /\ Tail(Left(c)) = v /\ Arg(c) = lk
           /\ Sound(runs[c], v) /\ Whole(runs[c], v) /\ Like(Left(c), v)
           /\ Net(Left(c)) = Net(v) + 1
           /\ Ins(Left(c), lk) /\ ~Ins(v, lk)
           /\ (\A m : m # lk => (Ins(Left(c), m) <=> Ins(v, m)))
           /\ Loose(v)
    BY <1>1, LockView
  <1>3. PICK n \in Int, i \in BOOLEAN, e \in BOOLEAN : n = ncli[c] /\ i = ints[c] /\ e = intena[c]
    BY SpinView
  <1>4. RunsOk(runs[c], Left(c), n, i, e)
    BY <1>3, SpinView
  <1>5. Net(v) \in Nat /\ n = Net(v) + 1
    BY <1>2, <1>4, NetHeld DEF RunsOk
  <1>6. ~i /\ n > 0
    BY <1>4, <1>5 DEF RunsOk
  <1>7. (Via(v) = "interrupt" => ~e) /\ (Via(v) = "call" => e)
    <2>1. Head(Left(c))[1] # "intena"
      BY <1>2
    <2> QED BY <1>2, <1>4, <1>6, <2>1 DEF RunsOk, Like
  <1>8. /\ locked' = [locked EXCEPT ![lk] = FALSE] /\ Goes(c, << >>)
        /\ ncli' = [ncli EXCEPT ![c] = n - 1] /\ ints' = [ints EXCEPT ![c] = n = 1 /\ e]
        /\ holder' = holder /\ intena' = intena /\ runs' = runs /\ pstate' = pstate /\ ticks' = ticks
    <2>1. ~ints[c] /\ ncli[c] # 0
      BY <1>3, <1>6
    <2>2. /\ locked' = [locked EXCEPT ![lk] = FALSE] /\ Goes(c, << >>)
          /\ ncli' = [ncli EXCEPT ![c] = ncli[c] - 1]
          /\ ints' = [ints EXCEPT ![c] = ncli[c] = 1 /\ intena[c]]
          /\ holder' = holder /\ intena' = intena /\ runs' = runs /\ pstate' = pstate /\ ticks' = ticks
      BY <1>2, <2>1 DEF Unlock, procvars
    <2> QED BY <1>3, <2>2
  <1>9. panicked' = panicked /\ todo' = [todo EXCEPT ![runs[c]] = v]
    BY <1>2, <1>8, GoesOn
  <1>10. /\ ints \in [Cpu -> BOOLEAN] /\ ncli \in [Cpu -> Int] /\ intena' \in [Cpu -> BOOLEAN]
         /\ locked \in [Lock -> BOOLEAN] /\ holder' \in [Lock -> Cpu \cup {NoCpu}]
         /\ n - 1 \in Int /\ (n = 1 /\ e) \in BOOLEAN
    BY <1>8 DEF SpinInv, SpinTyped
  <1>11. locked' \in [Lock -> BOOLEAN] /\ locked'[lk] = FALSE /\ \A m \in Lock : m # lk => locked'[m] = locked[m]
    BY <1>8, <1>10, PutOne
  <1>12. ncli' \in [Cpu -> Int] /\ ncli'[c] = n - 1 /\ \A d \in Cpu : d # c => ncli'[d] = ncli[d]
    BY <1>8, <1>10, PutOne
  <1>13. ints' \in [Cpu -> BOOLEAN] /\ ints'[c] = (n = 1 /\ e) /\ \A d \in Cpu : d # c => ints'[d] = ints[d]
    BY <1>8, <1>10, PutOne
  <1>14. RunsOk(runs[c], v, ncli'[c], ints'[c], intena'[c])
    <2>1. n - 1 = Net(v)
      BY <1>5
    <2>2. n - 1 > 0 => n # 1
      OBVIOUS
    <2>3. n - 1 = 0 => n = 1
      OBVIOUS
    <2>4. runs[c] \in Process => Via(v) # "none"
      <3>1. runs[c] \in Process => Via(Left(c)) # "none"
        BY <1>2, SpinView DEF Whole
      <3> QED BY <1>2, <3>1 DEF Like
    <2>5. intena'[c] = e
      BY <1>3, <1>8
    <2> QED BY <1>7, <1>12, <1>13, <2>1, <2>2, <2>3, <2>4, <2>5 DEF RunsOk
  <1>15. \A d \in Cpu : d # c => ~Ins(Left(d), lk)
    BY <1>2, SpinView
  <1>16. HoldsOk(c, v, lk, locked'[lk], holder'[lk])
    <2>1. HoldsOk(c, Left(c), lk, locked[lk], holder[lk])
      BY SpinView
    <2>2. holder[lk] # c
      BY <1>2, <2>1 DEF HoldsOk
    <2> QED BY <1>2, <1>8, <2>2 DEF HoldsOk
  <1>17. ASSUME NEW d \in Cpu \ {c} PROVE HoldsOk(d, Left(d), lk, locked'[lk], holder'[lk])
    <2>1. HoldsOk(d, Left(d), lk, locked[lk], holder[lk])
      BY SpinView
    <2> QED BY <1>8, <1>15, <2>1 DEF HoldsOk
  <1>18. \A m \in Lock : m # lk => locked'[m] = locked[m] /\ holder'[m] = holder[m]
    BY <1>8, <1>11
  <1>19. \A d \in Cpu : d # c => ncli'[d] = ncli[d] /\ intena'[d] = intena[d] /\ ints'[d] = ints[d]
    BY <1>8, <1>12, <1>13
  <1>20. \A m \in Lock \ {lk} : Ins(v, m) => Head(v) # << "unlock", m >>
    <2>1. ASSUME NEW m \in Lock, Ins(v, m) PROVE Head(v)[1] # "unlock"
      BY <1>2, <2>1, EmptyReads DEF Loose
    <2> QED BY <2>1
  <1>21. ~locked'[lk]
    BY <1>11
  <1>22. \A d \in Cpu \ {c} : ~(Ins(v, lk) /\ Ins(Left(d), lk))
    BY <1>2
  <1>23. /\ runs' = runs /\ pstate' = pstate /\ ticks' = ticks
         /\ locked' \in [Lock -> BOOLEAN] /\ holder' \in [Lock -> Cpu \cup {NoCpu}]
         /\ ncli' \in [Cpu -> Int] /\ intena' \in [Cpu -> BOOLEAN] /\ ints' \in [Cpu -> BOOLEAN]
    BY <1>8, <1>10, <1>11, <1>12, <1>13
  <1>24. locked'[lk] => Ins(v, lk) \/ \E d \in Cpu \ {c} : Ins(Left(d), lk)
    BY <1>21
  <1> QED BY <1>2, <1>9, <1>14, <1>16, <1>17, <1>18, <1>19, <1>20, <1>22, <1>23, <1>24, LockStep

LEMMA IretStep ==
  ASSUME SpinInv, NEW c \in Cpu, Iret(c)
  PROVE  SpinInv'
  <1>1. At(c, "iret")
    BY DEF Iret
  <1>2. PICK x \in Instr, v \in Code :
           /\ Left(c) = Cons(x, v) /\ Left(c) # << >> /\ Head(Left(c)) = x /\ Tail(Left(c)) = v
           /\ x[1] = "iret" /\ Fine(runs[c], x, v) /\ Sound(runs[c], v) /\ Whole(runs[c], v)
    BY <1>1, HeadView
  <1>3. Loose(v) /\ ~Ins(v, "ptable") /\ ~Ins(v, "tickslock") /\ Via(v) # "interrupt"
    <2>1. Loose(v) /\ (v = << >> \/ (~Ins(v, "ptable") /\ ~Ins(v, "tickslock") /\ Via(v) # "interrupt"))
      BY <1>2 DEF Fine, LocksFine, CallsFine
    <2> QED BY <2>1, EmptyReads
  <1>4. Net(v) = 0 /\ ~Sleeps(v) /\ ~(Has1(v, "wakeup1") /\ ~Has1(v, "ticks++"))
    BY <1>2, <1>3, NetFree
  <1>5. PICK s : s = Left(c)
    OBVIOUS
  <1>6. /\ Net(s) = Net(v) /\ ~Ins(s, "ptable") /\ ~Ins(s, "tickslock")
        /\ ~(Has1(s, "wakeup1") /\ ~Has1(s, "ticks++"))
    <2>1. Net(s) = Net(v)
      BY <1>2, <1>5, NetCons
    <2>2. ~Ins(s, "ptable") /\ ~Ins(s, "tickslock")
      BY <1>2, <1>3, <1>5, InsCons
    <2>3. \A op : Has1(s, op) <=> "iret" = op \/ Has1(v, op)
      BY <1>2, <1>5, MarksCons
    <2> QED BY <1>4, <2>1, <2>2, <2>3
  <1>7. ncli[c] = 0
    BY <1>4, <1>5, <1>6, SpinView DEF RunsOk
  <1>8. /\ runs' = runs /\ pstate' = pstate /\ ticks' = ticks
        /\ locked' = locked /\ holder' = holder /\ ncli' = ncli /\ intena' = intena
        /\ ints' = [ints EXCEPT ![c] = TRUE] /\ ints \in [Cpu -> BOOLEAN]
        /\ intena' \in [Cpu -> BOOLEAN]
    BY DEF Iret, lockvars, procvars, SpinInv, SpinTyped
  <1>9. panicked' = panicked /\ todo' = [todo EXCEPT ![runs[c]] = v]
    BY <1>2, GoesOn DEF Iret
  <1>10. ints' \in [Cpu -> BOOLEAN] /\ ints'[c] = TRUE /\ \A d \in Cpu : d # c => ints'[d] = ints[d]
    BY <1>8, PutOne
  <1>11. RunsOk(runs[c], v, ncli'[c], ints'[c], intena'[c])
    <2>1. ncli'[c] = 0 /\ ncli'[c] = Net(v) /\ ~(ncli'[c] > 0)
      BY <1>4, <1>7, <1>8
    <2> QED BY <1>3, <1>10, <2>1 DEF RunsOk
  <1>12. Left(c) = << >> \/ Head(Left(c))[1] \notin {"own", "unlock"}
    BY <1>2
  <1>13. Ins(v, "ptable") <=> Ins(Left(c), "ptable")
    BY <1>3, <1>5, <1>6
  <1>14. Ins(v, "tickslock") <=> Ins(Left(c), "tickslock")
    BY <1>3, <1>5, <1>6
  <1>15. ~(Has1(Left(c), "wakeup1") /\ ~Has1(Left(c), "ticks++"))
    BY <1>5, <1>6
  <1> QED BY <1>2, <1>3, <1>4, <1>8, <1>9, <1>10, <1>11, <1>12, <1>13, <1>14, <1>15, StillStep

\* The list of the thread that c runs is replaced.
LEMMA NewLists ==
  ASSUME SpinInv, NEW c \in Cpu, NEW w \in Code,
         runs' = runs, todo' = [todo EXCEPT ![runs[c]] = w]
  PROVE  /\ \A t \in Cpu \cup Process : todo'[t] = IF t = runs[c] THEN w ELSE todo[t]
         /\ Left(c)' = w
  <1>1. runs[c] \in Cpu \cup Process /\ todo \in [Cpu \cup Process -> Code]
    BY SpinView DEF SpinInv, SpinTyped
  <1>2. \A t \in Cpu \cup Process : todo'[t] = IF t = runs[c] THEN w ELSE todo[t]
    BY <1>1
  <1> QED BY <1>1, <1>2 DEF Left

LEMMA TickStep ==
  ASSUME SpinInv, NEW c \in Cpu, Tick(c)
  PROVE  SpinInv'
  <1>1. At(c, "ticks++")
    BY DEF Tick
  <1>2. PICK x \in Instr, v \in Code :
           /\ Left(c) # << >> /\ Head(Left(c)) = x /\ Tail(Left(c)) = v /\ x[1] = "ticks++"
           /\ CallsFine(x, v) /\ Loose(v) /\ Sound(runs[c], v)
           /\ Net(Left(c)) = Net(v) /\ Via(Left(c)) = Via(v)
           /\ (Ins(Left(c), "ptable") <=> Ins(v, "ptable"))
           /\ (Ins(Left(c), "tickslock") <=> Ins(v, "tickslock"))
    BY <1>1, OtherView
  <1>3. Has1(v, "wakeup1") /\ ~Has1(v, "ticks++")
    BY <1>2 DEF CallsFine
  <1>4. /\ runs' = runs /\ pstate' = pstate /\ locked' = locked /\ holder' = holder
        /\ ncli' = ncli /\ intena' = intena /\ ints' = ints /\ ticks' = (ticks + 1) % TickWrap
    BY DEF Tick, lockvars, cpuvars
  <1>5. panicked' = panicked /\ todo' = [todo EXCEPT ![runs[c]] = v]
    BY <1>2, GoesOn DEF Tick
  <1>6. Pending'
    BY <1>3, <1>4, <1>5, NewLists DEF Pending
  <1>7. \A p \in Process : Timely(p)'
    BY <1>6 DEF Timely
  <1>8. ticks' \in Nat
    <2>1. ticks \in Nat /\ TickWrap \in Nat /\ TickWrap > 0
      BY SpinAssumption DEF SpinInv, SpinTyped
    <2> QED BY <1>4, <2>1
  <1>9. /\ pstate' \in [Process -> {"RUNNABLE", "RUNNING", "SLEEPING"}] /\ ~panicked'
        /\ ncli' \in [Cpu -> Int] /\ intena' \in [Cpu -> BOOLEAN] /\ ints' \in [Cpu -> BOOLEAN]
    BY <1>4, <1>5 DEF SpinInv, SpinTyped
  <1>10. RunsOk(runs[c], v, ncli'[c], ints'[c], intena'[c])
    <2>1. RunsOk(runs[c], Left(c), ncli[c], ints[c], intena[c])
      BY SpinView
    <2>2. Head(Left(c))[1] # "intena"
      BY <1>2
    <2> QED BY <1>2, <1>4, <2>1, <2>2 DEF RunsOk
  <1>11. Left(c) = << >> \/ Head(Left(c))[1] \notin {"own", "unlock"}
    BY <1>2
  <1>12. /\ \A lk \in Lock : HoldsOk(c, v, lk, locked'[lk], holder'[lk])
         /\ \A lk \in Lock : \A d \in Cpu \ {c} : HoldsOk(d, Left(d), lk, locked'[lk], holder'[lk])
         /\ \A lk \in Lock : \A d \in Cpu \ {c} : ~(Ins(v, lk) /\ Ins(Left(d), lk))
         /\ \A lk \in Lock : locked'[lk] => Ins(v, lk) \/ \E d \in Cpu \ {c} : Ins(Left(d), lk)
         /\ locked' \in [Lock -> BOOLEAN] /\ holder' \in [Lock -> Cpu \cup {NoCpu}]
    BY <1>2, <1>4, <1>11, SameLocks
  <1>13. \A d \in Cpu : d # c => ncli'[d] = ncli[d] /\ intena'[d] = intena[d] /\ ints'[d] = ints[d]
    BY <1>4
  <1>14. runs' = runs /\ \A p \in Process : pstate'[p] = "RUNNING" <=> pstate[p] = "RUNNING"
    BY <1>4
  <1> QED BY <1>2, <1>5, <1>7, <1>8, <1>9, <1>10, <1>12, <1>13, <1>14, LocalStep

LEMMA Wakeup1Step ==
  ASSUME SpinInv, NEW c \in Cpu, Wakeup1(c)
  PROVE  SpinInv'
  <1>1. At(c, "wakeup1")
    BY DEF Wakeup1
  <1>2. PICK x \in Instr, v \in Code :
           /\ Left(c) # << >> /\ Head(Left(c)) = x /\ Tail(Left(c)) = v /\ x[1] = "wakeup1"
           /\ CallsFine(x, v) /\ Loose(v) /\ Sound(runs[c], v) /\ Whole(runs[c], v)
           /\ Net(Left(c)) = Net(v) /\ Via(Left(c)) = Via(v)
           /\ (Ins(Left(c), "ptable") <=> Ins(v, "ptable"))
           /\ (Ins(Left(c), "tickslock") <=> Ins(v, "tickslock"))
           /\ (\A o : Has1(Left(c), o) <=> "wakeup1" = o \/ Has1(v, o))
    BY <1>1, OtherView
  <1>3. Ins(Left(c), "ptable") /\ Ins(Left(c), "tickslock")
    BY <1>2 DEF CallsFine
  <1>4. ~Sleeps(v)
    <2>1. Via(Left(c)) = "interrupt"
      BY <1>2, SpinView DEF Whole
    <2> QED BY <1>2, <2>1 DEF Whole
  <1>5. /\ runs' = runs /\ ticks' = ticks /\ locked' = locked /\ holder' = holder
        /\ ncli' = ncli /\ intena' = intena /\ ints' = ints
        /\ pstate' = [p \in Process |-> IF pstate[p] = "SLEEPING" THEN "RUNNABLE" ELSE pstate[p]]
    BY DEF Wakeup1, lockvars, cpuvars
  <1>6. panicked' = panicked /\ todo' = [todo EXCEPT ![runs[c]] = v]
    BY <1>2, GoesOn DEF Wakeup1
  <1>7. \A t \in Cpu \cup Process : todo'[t] = IF t = runs[c] THEN v ELSE todo[t]
    BY <1>5, <1>6, NewLists
  <1>8. /\ pstate' \in [Process -> {"RUNNABLE", "RUNNING", "SLEEPING"}]
        /\ \A p \in Process : pstate'[p] # "SLEEPING" /\ (pstate'[p] = "RUNNING" <=> pstate[p] = "RUNNING")
    <2>1. pstate \in [Process -> {"RUNNABLE", "RUNNING", "SLEEPING"}]
      BY DEF SpinInv, SpinTyped
    <2> QED BY <1>5, <2>1
  <1>9. ASSUME NEW p \in Process PROVE Timely(p)'
    <2>1. CASE p = runs[c]
      <3>1. todo'[p] = v
        BY <1>7, <2>1
      <3>2. ~Sleeps(todo'[p])
        BY <1>4, <3>1
      <3>3. ~Sleeps(todo[p])'
        BY <3>2 DEF Sleeps
      <3> QED BY <1>8, <3>3 DEF Timely
    <2>2. CASE p # runs[c]
      <3>1. todo'[p] = todo[p]
        BY <1>7, <2>2
      <3>2. ~Sleeps(todo[p])
        <4>1. CASE \E d \in Cpu : runs[d] = p
          <5>1. PICK d \in Cpu : runs[d] = p /\ d # c
            BY <2>2, <4>1
          <5>2. Left(d) = todo[p] /\ Whole(p, todo[p])
            BY <5>1, SpinView
          <5>3. ~Ins(Left(d), "ptable") /\ ~Ins(Left(d), "tickslock")
            BY <1>3, <5>1, TwoLocks, SpinView
          <5> QED BY <5>2, <5>3 DEF Whole
        <4>2. CASE \A d \in Cpu : runs[d] # p
          BY <4>2 DEF SpinInv, Parked, ParkedOk
        <4> QED BY <4>1, <4>2
      <3>3. ~Sleeps(todo[p])'
        BY <3>1, <3>2 DEF Sleeps
      <3> QED BY <1>8, <3>3 DEF Timely
    <2> QED BY <2>1, <2>2
  <1>10. /\ ticks' \in Nat /\ ~panicked'
         /\ ncli' \in [Cpu -> Int] /\ intena' \in [Cpu -> BOOLEAN] /\ ints' \in [Cpu -> BOOLEAN]
    BY <1>5, <1>6 DEF SpinInv, SpinTyped
  <1>11. RunsOk(runs[c], v, ncli'[c], ints'[c], intena'[c])
    <2>1. RunsOk(runs[c], Left(c), ncli[c], ints[c], intena[c])
      BY SpinView
    <2>2. Head(Left(c))[1] # "intena"
      BY <1>2
    <2> QED BY <1>2, <1>5, <2>1, <2>2 DEF RunsOk
  <1>12. Left(c) = << >> \/ Head(Left(c))[1] \notin {"own", "unlock"}
    BY <1>2
  <1>13. /\ \A lk \in Lock : HoldsOk(c, v, lk, locked'[lk], holder'[lk])
         /\ \A lk \in Lock : \A d \in Cpu \ {c} : HoldsOk(d, Left(d), lk, locked'[lk], holder'[lk])
         /\ \A lk \in Lock : \A d \in Cpu \ {c} : ~(Ins(v, lk) /\ Ins(Left(d), lk))
         /\ \A lk \in Lock : locked'[lk] => Ins(v, lk) \/ \E d \in Cpu \ {c} : Ins(Left(d), lk)
         /\ locked' \in [Lock -> BOOLEAN] /\ holder' \in [Lock -> Cpu \cup {NoCpu}]
    BY <1>2, <1>5, <1>12, SameLocks
  <1>14. \A d \in Cpu : d # c => ncli'[d] = ncli[d] /\ intena'[d] = intena[d] /\ ints'[d] = ints[d]
    BY <1>5
  <1>15. runs' = runs /\ \A p \in Process : pstate'[p] = "RUNNING" <=> pstate[p] = "RUNNING"
    BY <1>5, <1>8
  <1> QED BY <1>2, <1>6, <1>8, <1>9, <1>10, <1>11, <1>13, <1>14, <1>15, LocalStep

---------------------------------------------------------------------------
(* Switches between threads. *)

\* Processor c leaves the thread it runs with w left, and goes on with u.
LEMMA SwitchStep ==
  ASSUME SpinInv, NEW c \in Cpu, NEW u \in Process \cup {c}, \A d \in Cpu : runs[d] # u,
         NEW w \in Code, Sound(runs[c], w), ParkedOk(runs[c], w),
         runs[c] \in Process \/ u \in Process, ~panicked',
         todo' = [todo EXCEPT ![runs[c]] = w], runs' = [runs EXCEPT ![c] = u],
         locked' = locked, holder' = holder, ncli' = ncli, intena' = intena, ints' = ints,
         ticks' = ticks, pstate' \in [Process -> {"RUNNABLE", "RUNNING", "SLEEPING"}],
         \A p \in Process : pstate'[p] = "RUNNING" <=> p = u \/ (p # runs[c] /\ pstate[p] = "RUNNING"),
         \A p \in Process : p # runs[c] /\ pstate'[p] = "SLEEPING" => pstate[p] = "SLEEPING",
         runs[c] \in Process /\ pstate'[runs[c]] = "SLEEPING" =>
           Sleeps(Left(c)) /\ (AllOn(Left(c)) => AllOn(w)),
         Ins(Left(c), "ptable"), ~Ins(Left(c), "tickslock"),
         holder["ptable"] = c, ncli[c] = 1, ~ints[c],
         Via(todo[u]) \notin {"interrupt", "call"} \/ Head(todo[u])[1] = "intena"
  PROVE  SpinInv'
  <1> DEFINE t == runs[c]
             s == todo[u]
  <1>1. /\ t \in Process \cup {c} /\ t \in Cpu \cup Process /\ u \in Cpu \cup Process /\ u # t
        /\ Left(c) = todo[t]
    BY SpinView
  <1>2. /\ todo \in [Cpu \cup Process -> Code] /\ runs \in [Cpu -> Cpu \cup Process]
        /\ locked \in [Lock -> BOOLEAN] /\ holder \in [Lock -> Cpu \cup {NoCpu}]
        /\ ncli \in [Cpu -> Int] /\ intena \in [Cpu -> BOOLEAN] /\ ints \in [Cpu -> BOOLEAN]
        /\ ticks \in Nat
    BY DEF SpinInv, SpinTyped
  <1>3. \A r \in Cpu \cup Process : todo'[r] = IF r = t THEN w ELSE todo[r]
    BY <1>1, <1>2
  <1>4. runs' \in [Cpu -> Cpu \cup Process] /\ runs'[c] = u /\ \A d \in Cpu : d # c => runs'[d] = runs[d]
    BY <1>1, <1>2, PutOne
  <1>5. Left(c)' = s
    BY <1>1, <1>3, <1>4 DEF Left
  <1>6. ASSUME NEW d \in Cpu, d # c PROVE Left(d)' = Left(d) /\ runs[d] # t /\ runs[d] \in Cpu \cup Process
    <2>1. runs[d] # t /\ runs[d] \in Cpu \cup Process
      BY <1>6, SpinView
    <2>2. todo'[runs[d]] = todo[runs[d]]
      BY <1>3, <2>1
    <2> QED BY <1>4, <1>6, <2>1, <2>2 DEF Left
  <1>7. s \in Code /\ Sound(u, s) /\ Whole(u, s) /\ ParkedOk(u, s)
    <2>1. s \in Code
      BY <1>1, <1>2
    <2>2. Sound(u, s) /\ Parked(u)
      BY <1>1 DEF SpinInv
    <2> QED BY <2>1, <2>2, SoundWhole DEF Parked
  <1> HIDE DEF t, s
  <1>8. /\ s # << >> /\ Ins(s, "ptable") /\ ~Ins(s, "tickslock") /\ Head(s)[1] \in {"slot", "intena", "disown"}
    <2>1. CASE u \in Cpu
      BY <1>7, <2>1 DEF ParkedOk
    <2>2. CASE u \in Process
      BY <1>7, <2>2 DEF ParkedOk
    <2> QED BY <1>1, <1>7, <2>1, <2>2 DEF ParkedOk
  <1>9. Loose(s) /\ Net(s) = 1
    <2>1. Loose(s)
      BY <1>8 DEF Loose
    <2> QED BY <1>7, <1>8, <2>1, NetHeld
  <1>10. \A lk \in Lock : Ins(Left(c)', lk) <=> Ins(Left(c), lk)
    BY <1>5, <1>8, TwoLocks
  <1>11. SpinTyped'
    <2>1. todo' \in [Cpu \cup Process -> Code]
      BY <1>1, <1>2
    <2> QED BY <1>2, <1>4, <2>1 DEF SpinTyped
  <1>12. RunsOnce'
    <2>1. \A d \in Cpu : runs'[d] \in Process \cup {d}
      <3> SUFFICES ASSUME NEW d \in Cpu PROVE runs'[d] \in Process \cup {d}
        OBVIOUS
      <3>1. d # c => runs'[d] = runs[d] /\ runs[d] \in Process \cup {d}
        BY <1>4, SpinView
      <3> QED BY <1>4, <3>1
    <2>2. ASSUME NEW d \in Cpu, NEW e \in Cpu, runs'[d] = runs'[e] PROVE d = e
      <3>1. CASE d # c /\ e # c
        <4>1. runs[d] = runs[e]
          BY <1>4, <2>2, <3>1
        <4> QED BY <4>1 DEF SpinInv, RunsOnce
      <3>2. CASE d = c \/ e = c
        BY <1>4, <2>2, <3>2
      <3> QED BY <3>1, <3>2
    <2>3. ASSUME NEW p \in Process PROVE pstate'[p] = "RUNNING" <=> \E d \in Cpu : runs'[d] = p
      <3>1. pstate[p] = "RUNNING" <=> \E d \in Cpu : runs[d] = p
        BY DEF SpinInv, RunsOnce
      <3>2. pstate'[p] = "RUNNING" <=> p = u \/ (p # t /\ pstate[p] = "RUNNING")
        BY DEF t
      <3>3. CASE p = u
        BY <1>4, <3>2, <3>3
      <3>4. CASE p # u
        <4>1. ASSUME NEW d \in Cpu, runs'[d] = p PROVE p # t /\ runs[d] = p
          BY <1>4, <1>6, <3>4, <4>1
        <4>2. ASSUME NEW d \in Cpu, runs[d] = p, p # t PROVE runs'[d] = p
          BY <1>4, <4>2 DEF t
        <4>3. pstate'[p] = "RUNNING" => \E d \in Cpu : runs'[d] = p
          BY <3>1, <3>2, <3>4, <4>2
        <4>4. (\E d \in Cpu : runs'[d] = p) => pstate'[p] = "RUNNING"
          BY <3>1, <3>2, <4>1
        <4> QED BY <4>3, <4>4
      <3> QED BY <3>3, <3>4
    <2> QED BY <2>1, <2>2, <2>3 DEF RunsOnce
  <1>13. LocksRight'
    <2>1. \A d \in Cpu : \A lk \in Lock : Ins(Left(d)', lk) <=> Ins(Left(d), lk)
      BY <1>6, <1>10
    <2>2. ASSUME NEW lk \in Lock, locked'[lk] PROVE \E d \in Cpu : Ins(Left(d)', lk)
      <3>1. PICK d \in Cpu : Ins(Left(d), lk)
        BY <2>2 DEF SpinInv, LocksRight
      <3> QED BY <2>1, <3>1
    <2>3. ASSUME NEW lk \in Lock, NEW d \in Cpu, NEW e \in Cpu, Ins(Left(d)', lk), Ins(Left(e)', lk)
          PROVE  d = e
      <3>1. Ins(Left(d), lk) /\ Ins(Left(e), lk)
        BY <2>1, <2>3
      <3> QED BY <3>1 DEF SpinInv, LocksRight
    <2> QED BY <2>2, <2>3 DEF LocksRight
  <1>14. ASSUME NEW r \in Cpu \cup Process PROVE Sound(r, todo'[r])
    <2>1. Sound(r, todo[r])
      BY DEF SpinInv
    <2>2. Sound(t, w)
      BY DEF t
    <2> QED BY <1>3, <2>1, <2>2
  <1>15. ASSUME NEW d \in Cpu PROVE RunsRight(d)' /\ HoldsRight(d)'
    <2>1. CASE d = c
      <3>1. RunsRight(c)'
        <4>1. RunsOk(u, s, ncli[c], ints[c], intena[c])
          <5>1. CASE Head(s)[1] = "intena"
            BY <1>9, <5>1 DEF RunsOk
          <5>2. CASE Via(s) \notin {"interrupt", "call"}
            BY <1>9, <5>2 DEF RunsOk
          <5> QED BY <5>1, <5>2 DEF s
        <4> QED BY <1>4, <1>5, <4>1 DEF RunsRight
      <3>2. HoldsRight(c)'
        <4>1. ASSUME NEW lk \in Lock PROVE HoldsOk(c, s, lk, locked[lk], holder[lk])
          <5>1. CASE lk = "ptable"
            <6>1. locked["ptable"]
              BY TwoLocks, SpinView
            <6>2. Head(s) # << "unlock", "ptable" >>
              BY <1>8
            <6> QED BY <1>8, <5>1, <6>1, <6>2 DEF HoldsOk
          <5>2. CASE lk = "tickslock"
            <6>1. HoldsOk(c, Left(c), "tickslock", locked["tickslock"], holder["tickslock"])
              BY TwoLocks, SpinView
            <6>2. holder["tickslock"] # c
              BY <6>1 DEF HoldsOk
            <6> QED BY <1>8, <5>2, <6>2 DEF HoldsOk
          <5> QED BY <5>1, <5>2, TwoLocks
        <4> QED BY <1>5, <4>1 DEF HoldsRight
      <3> QED BY <2>1, <3>1, <3>2
    <2>2. CASE d # c
      <3>1. RunsOk(runs[d], Left(d), ncli[d], ints[d], intena[d])
        BY SpinView
      <3>2. RunsRight(d)'
        BY <1>4, <1>6, <2>2, <3>1 DEF RunsRight
      <3>3. \A lk \in Lock : HoldsOk(d, Left(d), lk, locked[lk], holder[lk])
        BY SpinView
      <3>4. HoldsRight(d)'
        BY <1>6, <2>2, <3>3 DEF HoldsRight
      <3> QED BY <3>2, <3>4
    <2> QED BY <2>1, <2>2
  <1>16. ASSUME NEW r \in Cpu \cup Process, \A d \in Cpu : runs'[d] # r PROVE Parked(r)'
    <2>1. CASE r = t
      <3>1. ParkedOk(t, w)
        BY DEF t
      <3> QED BY <1>3, <2>1, <3>1 DEF Parked
    <2>2. CASE r # t
      <3>1. \A d \in Cpu : runs[d] # r
        BY <1>4, <1>16, <2>2 DEF t
      <3>2. Parked(r)
        BY <3>1 DEF SpinInv
      <3> QED BY <1>3, <2>2, <3>2 DEF Parked
    <2> QED BY <2>1, <2>2
  <1>17. Pending => Pending'
    <2> SUFFICES ASSUME Pending PROVE Pending'
      OBVIOUS
    <2>1. PICK d \in Cpu : Has1(Left(d), "wakeup1") /\ ~Has1(Left(d), "ticks++")
      BY DEF Pending
    <2>2. Ins(Left(d), "tickslock")
      BY <2>1, SpinView DEF Whole
    <2>3. d # c
      BY <2>2
    <2>4. Has1(Left(d)', "wakeup1") /\ ~Has1(Left(d)', "ticks++")
      BY <1>6, <2>1, <2>3
    <2> QED BY <2>4 DEF Pending
  <1>18. \A n : Over(n)' <=> Over(n)
    BY DEF Over
  <1>19. ASSUME NEW p \in Process PROVE Timely(p)'
    <2>1. Timely(p)
      BY DEF SpinInv
    <2>2. CASE p = t
      <3>1. todo'[p] = w /\ ~Sleeps(w)
        BY <1>3, <2>2 DEF ParkedOk
      <3>2. ~Sleeps(todo[p])'
        BY <3>1 DEF Sleeps
      <3>3. AllOn(w) => AllOn(todo[p])'
        BY <1>18, <3>1 DEF AllOn
      <3>4. pstate'[p] = "SLEEPING" => Sleeps(todo[p]) /\ (AllOn(todo[p]) => AllOn(w))
        BY <1>1, <2>2 DEF t
      <3> QED BY <1>17, <2>1, <3>2, <3>3, <3>4 DEF Timely
    <2>3. CASE p # t
      <3>1. todo'[p] = todo[p]
        BY <1>3, <2>3
      <3>2. AllOn(todo[p]) => AllOn(todo[p])'
        BY <1>18, <3>1 DEF AllOn
      <3>3. Sleeps(todo[p])' => Sleeps(todo[p])
        BY <3>1 DEF Sleeps
      <3>4. pstate'[p] = "SLEEPING" => pstate[p] = "SLEEPING"
        BY <2>3 DEF t
      <3> QED BY <1>17, <2>1, <3>2, <3>3, <3>4 DEF Timely
    <2> QED BY <2>2, <2>3
  <1> QED BY <1>11, <1>12, <1>13, <1>14, <1>15, <1>16, <1>19 DEF SpinInv

LEMMA SlotStep ==
  ASSUME SpinInv, NEW c \in Cpu, Slot(c)
  PROVE  SpinInv'
  <1>1. At(c, "slot")
    BY DEF Slot
  <1>2. PICK x \in Instr, v \in Code :
           /\ Left(c) # << >> /\ Head(Left(c)) = x /\ Tail(Left(c)) = v
           /\ x[1] = "slot" /\ Arg(c) = x[2]
           /\ SwitchFine(runs[c], x, v) /\ Loose(v) /\ Sound(runs[c], v) /\ Whole(runs[c], v)
           /\ Net(Left(c)) = Net(v) /\ Via(Left(c)) = Via(v)
           /\ (Ins(Left(c), "ptable") <=> Ins(v, "ptable"))
           /\ (Ins(Left(c), "tickslock") <=> Ins(v, "tickslock"))
           /\ (\A o : Has1(Left(c), o) <=> "slot" = o \/ Has1(v, o))
    BY <1>1, OtherView
  <1>3. /\ runs[c] \in Cpu /\ x[2] \in Nat /\ Via(v) = "none"
        /\ Ins(v, "ptable") /\ ~Ins(v, "tickslock") /\ v # << >>
    BY <1>2, EmptyReads DEF SwitchFine
  <1>4. runs[c] = c /\ c \notin Process
    BY <1>3, SpinView, SpinAssumption
  <1>5. ~Sleeps(v)
    BY <1>2, <1>3 DEF Whole
  <1>6. PICK n \in Nat : n = x[2]
    BY <1>3
  <1>7. PICK ready : ready = {p \in Process : p >= n /\ pstate[p] = "RUNNABLE"}
    OBVIOUS
  <1>8. /\ locked' = locked /\ holder' = holder /\ ncli' = ncli /\ intena' = intena /\ ints' = ints
        /\ ticks' = ticks
        /\ ready = {} => Goes(c, << >>) /\ runs' = runs /\ pstate' = pstate
        /\ ready # {} => /\ Goes(c, DoWith("slot", Min(ready) + 1))
                         /\ pstate' = [pstate EXCEPT ![Min(ready)] = "RUNNING"]
                         /\ runs' = [runs EXCEPT ![c] = Min(ready)]
    BY <1>2, <1>6, <1>7 DEF Slot, lockvars
  <1>9. CASE ready = {}
    <2>1. panicked' = panicked /\ todo' = [todo EXCEPT ![runs[c]] = v]
      BY <1>2, <1>8, <1>9, GoesOn
    <2>2. UNCHANGED << lockvars, cpuvars, procvars, panicked >>
      BY <1>8, <1>9, <2>1 DEF lockvars, cpuvars, procvars
    <2>3. Has1(Left(c), "wakeup1") /\ ~Has1(Left(c), "ticks++") => Has1(v, "wakeup1") /\ ~Has1(v, "ticks++")
      BY <1>2
    <2> QED BY <1>1, <1>2, <1>5, <2>1, <2>2, <2>3, OnlyTodo
  <1>10. CASE ready # {}
    <2>1. ready \in SUBSET Nat
      BY <1>7, SpinAssumption
    <2>2. PICK p \in Process : p = Min(ready) /\ p \in Nat /\ pstate[p] = "RUNNABLE"
      BY <1>7, <1>10, <2>1, MinIsLeast
    <2>3. PICK m \in Nat : m = p + 1
      BY <2>2
    <2>4. PICK y \in Operand, op \in Ops : op = "slot" /\ y = m
      BY Words
    <2>5. PICK i \in Instr : i = << op, y >> /\ i[1] = op /\ i[2] = y
      BY InstrIn
    <2>6. PICK w : w = Cons(i, v)
      OBVIOUS
    <2>7. todo' = [todo EXCEPT ![runs[c]] = w] /\ panicked' = panicked
      <3>1. todo' = [todo EXCEPT ![runs[c]] = Then(DoWith(op, y), v)] /\ panicked' = panicked
        <4>1. Goes(c, DoWith(op, y))
          BY <1>8, <1>10, <2>2, <2>3, <2>4
        <4> QED BY <1>2, <4>1, GoesOn
      <3>2. Then(DoWith(op, y), v) = w
        BY <2>5, <2>6, DoThen
      <3> QED BY <3>1, <3>2
    <2>8. runs' = [runs EXCEPT ![c] = p] /\ pstate' = [pstate EXCEPT ![p] = "RUNNING"]
      BY <1>8, <1>10, <2>2
    <2>9. SwitchFine(runs[c], i, v) /\ CallsFine(i, v)
      BY <1>3, <2>3, <2>4, <2>5 DEF SwitchFine, CallsFine
    <2>10. i[1] \notin {"pushcli", "xchg", "own", "disown", "unlock", "iret", "sched", "wakeup1", "ticks++"}
      BY <2>4, <2>5
    <2>11. /\ w \in Code /\ Sound(runs[c], w) /\ w # << >> /\ Head(w) = i
           /\ Ins(w, "ptable") /\ ~Ins(w, "tickslock") /\ ~Sleeps(w)
      BY <1>2, <1>3, <1>5, <2>6, <2>9, <2>10, OtherReads
    <2>12. ParkedOk(runs[c], w)
      BY <1>3, <1>4, <2>4, <2>5, <2>11 DEF ParkedOk
    <2>13. \A d \in Cpu : runs[d] # p
      BY <2>2 DEF SpinInv, RunsOnce
    <2>14. /\ pstate' \in [Process -> {"RUNNABLE", "RUNNING", "SLEEPING"}] /\ pstate'[p] = "RUNNING"
           /\ \A q \in Process : q # p => pstate'[q] = pstate[q]
      <3>1. pstate \in [Process -> {"RUNNABLE", "RUNNING", "SLEEPING"}]
        BY DEF SpinInv, SpinTyped
      <3>2. "RUNNING" \in {"RUNNABLE", "RUNNING", "SLEEPING"}
        OBVIOUS
      <3> QED BY <2>8, <3>1, <3>2, PutOne
    <2>15. /\ \A q \in Process : pstate'[q] = "RUNNING" <=> q = p \/ (q # runs[c] /\ pstate[q] = "RUNNING")
           /\ \A q \in Process : q # runs[c] /\ pstate'[q] = "SLEEPING" => pstate[q] = "SLEEPING"
      BY <1>4, <2>14
    <2>16. holder["ptable"] = c /\ ncli[c] = 1 /\ ~ints[c]
      <3>1. HoldsOk(c, Left(c), "ptable", locked["ptable"], holder["ptable"])
        BY TwoLocks, SpinView
      <3>2. Head(Left(c)) \notin {<< "own", "ptable" >>, << "unlock", "ptable" >>}
        BY <1>2
      <3>3. holder["ptable"] = c
        BY <1>2, <1>3, <3>1, <3>2 DEF HoldsOk
      <3>4. Net(v) = 1
        BY <1>2, <1>3, NetHeld
      <3>5. ncli[c] = 1
        BY <1>2, <3>4, SpinView DEF RunsOk
      <3>6. ncli[c] > 0 => ~ints[c]
        BY SpinView DEF RunsOk
      <3> QED BY <3>3, <3>5, <3>6
    <2>17. Via(todo[p]) \notin {"interrupt", "call"} \/ Head(todo[p])[1] = "intena"
      BY <2>13 DEF SpinInv, Parked, ParkedOk
    <2>18. ~panicked'
      BY <2>7 DEF SpinInv
    <2>19. Ins(Left(c), "ptable") /\ ~Ins(Left(c), "tickslock") /\ runs[c] \notin Process /\ w \in Code
      BY <1>2, <1>3, <1>4, <2>11
    <2>20. /\ locked' = locked /\ holder' = holder /\ ncli' = ncli /\ intena' = intena /\ ints' = ints
           /\ ticks' = ticks /\ runs' = [runs EXCEPT ![c] = p] /\ todo' = [todo EXCEPT ![runs[c]] = w]
           /\ pstate' \in [Process -> {"RUNNABLE", "RUNNING", "SLEEPING"}]
      BY <1>8, <2>7, <2>8, <2>14
    <2>21. Sound(runs[c], w)
      BY <2>11
    <2>22. p \in Process \cup {c}
      OBVIOUS
    <2> QED BY <2>12, <2>13, <2>15, <2>16, <2>17, <2>18, <2>19, <2>20, <2>21, <2>22, SwitchStep
  <1> QED BY <1>9, <1>10

LEMMA GoesAwayStep ==
  ASSUME SpinInv, NEW c \in Cpu, GoesAway(c)
  PROVE  SpinInv'
  <1>1. At(c, "sched")
    BY DEF GoesAway
  <1>2. PICK x \in Instr, v \in Code :
           /\ Left(c) # << >> /\ Head(Left(c)) = x /\ Tail(Left(c)) = v
           /\ x[1] = "sched" /\ Arg(c) = x[2]
           /\ SwitchFine(runs[c], x, v) /\ Loose(v) /\ Sound(runs[c], v) /\ Whole(runs[c], v)
           /\ Net(Left(c)) = Net(v) /\ Via(Left(c)) = Via(v)
           /\ (Ins(Left(c), "ptable") <=> Ins(v, "ptable"))
           /\ (Ins(Left(c), "tickslock") <=> Ins(v, "tickslock"))
           /\ (Sleeps(Left(c)) <=> x[2] = "SLEEPING" \/ Sleeps(v))
           /\ (AllOn(Left(c)) <=> AllOn(v))
    BY <1>1, OtherView
  <1>3. /\ runs[c] \in Process /\ ~Sleeps(v) /\ v # << >> /\ Head(v) = << "disown", "ptable" >>
        /\ Ins(v, "ptable") /\ ~Ins(v, "tickslock") /\ x[2] \in {"RUNNABLE", "SLEEPING"}
    BY <1>2 DEF SwitchFine
  <1>4. PICK state \in {"RUNNABLE", "SLEEPING"}, p \in Process : state = x[2] /\ p = runs[c]
    BY <1>3
  <1>5. locked["ptable"] /\ holder["ptable"] = c /\ ncli[c] = 1 /\ ~ints[c]
    <2>1. HoldsOk(c, Left(c), "ptable", locked["ptable"], holder["ptable"])
      BY TwoLocks, SpinView
    <2>2. Head(Left(c)) \notin {<< "own", "ptable" >>, << "unlock", "ptable" >>}
      BY <1>2
    <2>3. locked["ptable"] /\ holder["ptable"] = c
      BY <1>2, <1>3, <2>1, <2>2 DEF HoldsOk
    <2>4. Net(v) = 1
      BY <1>2, <1>3, NetHeld
    <2>5. ncli[c] = 1
      BY <1>2, <2>4, SpinView DEF RunsOk
    <2>6. ncli[c] > 0 => ~ints[c]
      BY SpinView DEF RunsOk
    <2> QED BY <2>3, <2>5, <2>6
  <1>6. PICK e \in BOOLEAN : e = intena[c]
    BY SpinView
  <1>7. /\ Goes(c, DoWith("intena", e))
        /\ pstate' = [pstate EXCEPT ![p] = state] /\ runs' = [runs EXCEPT ![c] = c]
        /\ locked' = locked /\ holder' = holder /\ ncli' = ncli /\ intena' = intena /\ ints' = ints
        /\ ticks' = ticks
    BY <1>2, <1>4, <1>5, <1>6 DEF GoesAway, KeptIntena, Has, lockvars
  <1>8. PICK y \in Operand, op \in Ops : op = "intena" /\ y = e
    BY Words
  <1>9. PICK i \in Instr : i = << op, y >> /\ i[1] = op /\ i[2] = y
    BY InstrIn
  <1>10. PICK w : w = Cons(i, v)
    OBVIOUS
  <1>11. todo' = [todo EXCEPT ![runs[c]] = w] /\ panicked' = panicked
    <2>1. todo' = [todo EXCEPT ![runs[c]] = Then(DoWith(op, y), v)] /\ panicked' = panicked
      <3>1. Goes(c, DoWith(op, y))
        BY <1>7, <1>8
      <3> QED BY <1>2, <3>1, GoesOn
    <2>2. Then(DoWith(op, y), v) = w
      BY <1>9, <1>10, DoThen
    <2> QED BY <2>1, <2>2
  <1>12. (Via(v) = "interrupt" => ~e) /\ (Via(v) = "call" => e)
    <2>1. RunsOk(runs[c], Left(c), ncli[c], ints[c], intena[c])
      BY SpinView
    <2> QED BY <1>2, <1>5, <1>6, <2>1 DEF RunsOk
  <1>13. SwitchFine(runs[c], i, v) /\ CallsFine(i, v)
    <2>1. i[1] = "intena" /\ i[2] = e
      BY <1>8, <1>9
    <2> QED BY <1>3, <1>12, <2>1 DEF SwitchFine, CallsFine
  <1>14. i[1] \notin {"pushcli", "xchg", "own", "disown", "unlock", "iret", "sched", "wakeup1", "ticks++", "while"}
    BY <1>8, <1>9
  <1>15. /\ w \in Code /\ Sound(runs[c], w) /\ w # << >> /\ Head(w) = i
         /\ Ins(w, "ptable") /\ ~Ins(w, "tickslock") /\ ~Sleeps(w) /\ (AllOn(w) <=> AllOn(v))
    BY <1>2, <1>3, <1>10, <1>13, <1>14, OtherReads
  <1>16. ParkedOk(runs[c], w)
    <2>1. p \notin Cpu /\ Head(w)[1] = "intena"
      BY <1>8, <1>9, <1>15, SpinAssumption
    <2> QED BY <1>4, <1>15, <2>1 DEF ParkedOk
  <1>17. \A d \in Cpu : runs[d] # c
    <2> SUFFICES ASSUME NEW d \in Cpu PROVE runs[d] # c
      OBVIOUS
    <2>1. runs[d] \in Process \cup {d} /\ runs[c] \in Process /\ c \notin Process
      BY <1>3, SpinView, SpinAssumption
    <2> QED BY <2>1
  <1>18. /\ pstate' \in [Process -> {"RUNNABLE", "RUNNING", "SLEEPING"}] /\ pstate'[p] = state
         /\ \A q \in Process : q # p => pstate'[q] = pstate[q]
    <2>1. pstate \in [Process -> {"RUNNABLE", "RUNNING", "SLEEPING"}]
      BY DEF SpinInv, SpinTyped
    <2>2. state \in {"RUNNABLE", "RUNNING", "SLEEPING"}
      OBVIOUS
    <2> QED BY <1>7, <2>1, <2>2, PutOne
  <1>19. /\ \A q \in Process : pstate'[q] = "RUNNING" <=> q = c \/ (q # runs[c] /\ pstate[q] = "RUNNING")
         /\ \A q \in Process : q # runs[c] /\ pstate'[q] = "SLEEPING" => pstate[q] = "SLEEPING"
    <2>1. \A q \in Process : q # c
      BY SpinAssumption
    <2> QED BY <1>4, <1>18, <2>1
  <1>20. pstate'[runs[c]] = "SLEEPING" => Sleeps(Left(c)) /\ (AllOn(Left(c)) => AllOn(w))
    BY <1>2, <1>4, <1>15, <1>18
  <1>21. Via(todo[c]) \notin {"interrupt", "call"}
    <2>1. PICK s \in Code : s = todo[c]
      BY DEF SpinInv, SpinTyped
    <2>2. Sound(c, s) /\ s # << >> /\ Head(s)[1] = "slot"
      BY <1>17, <2>1 DEF SpinInv, Parked, ParkedOk
    <2>3. PICK j \in Instr, r \in Code : j = Head(s) /\ s = Cons(j, r) /\ Fine(c, j, r)
      BY <2>2, SoundHead
    <2>4. Via(r) = "none" /\ Via(s) = Via(r)
      BY <2>2, <2>3, ViaCons DEF Fine, SwitchFine
    <2> QED BY <2>1, <2>4
  <1>22. ~panicked'
    BY <1>11 DEF SpinInv
  <1>23. Ins(Left(c), "ptable") /\ ~Ins(Left(c), "tickslock") /\ runs[c] \in Process /\ w \in Code
    BY <1>2, <1>3, <1>15
  <1>24. /\ locked' = locked /\ holder' = holder /\ ncli' = ncli /\ intena' = intena /\ ints' = ints
         /\ ticks' = ticks /\ runs' = [runs EXCEPT ![c] = c] /\ todo' = [todo EXCEPT ![runs[c]] = w]
         /\ pstate' \in [Process -> {"RUNNABLE", "RUNNING", "SLEEPING"}]
    BY <1>7, <1>11, <1>18
  <1>25. holder["ptable"] = c /\ ncli[c] = 1 /\ ~ints[c] /\ Sound(runs[c], w)
    BY <1>5, <1>15
  <1>26. c \in Process \cup {c}
    OBVIOUS
  <1> QED BY <1>16, <1>17, <1>19, <1>20, <1>21, <1>22, <1>23, <1>24, <1>25, <1>26, SwitchStep

---------------------------------------------------------------------------
(* The invariant, and what it says. *)

LEMMA SpinInitInv == SpinInit => SpinInv
  <1> SUFFICES ASSUME SpinInit PROVE SpinInv
    OBVIOUS
  <1>1. /\ locked = [lk \in Lock |-> FALSE] /\ holder = [lk \in Lock |-> NoCpu]
        /\ ncli = [c \in Cpu |-> 0] /\ intena = [c \in Cpu |-> FALSE]
        /\ runs = [c \in Cpu |-> c] /\ ints = [c \in Cpu |-> FALSE]
        /\ todo = [t \in Cpu \cup Process |-> IF t \in Cpu THEN << >> ELSE Forkret]
        /\ pstate = [p \in Process |-> "RUNNABLE"] /\ ticks = 0 /\ ~panicked
    BY DEF SpinInit
  <1>2. Cpu \cap Process = {} /\ NoCpu \notin Cpu
    BY SpinAssumption DEF NoCpu
  <1>3. PICK f : f = Forkret
    OBVIOUS
  <1>4. todo = [t \in Cpu \cup Process |-> IF t \in Cpu THEN << >> ELSE f]
    BY <1>1, <1>3
  <1>5. \A t \in Process : /\ f \in Code /\ Sound(t, f) /\ f # << >>
                           /\ Head(f) = << "disown", "ptable" >> /\ Via(f) = "fork"
                           /\ Ins(f, "ptable") /\ ~Ins(f, "tickslock") /\ ~Sleeps(f)
    BY <1>3, ForkretFine
  <1>6. /\ \A c \in Cpu : todo[c] = << >> /\ runs[c] = c /\ Left(c) = << >>
        /\ \A p \in Process : todo[p] = f
    BY <1>1, <1>2, <1>4 DEF Left
  <1>7. << >> \in Code
    BY EmptyReads
  <1>8. SpinTyped
    <2>1. todo \in [Cpu \cup Process -> Code]
      <3>1. \A t \in Cpu \cup Process : (IF t \in Cpu THEN << >> ELSE f) \in Code
        BY <1>5, <1>7
      <3> QED BY <1>4, <3>1
    <2>2. locked \in [Lock -> BOOLEAN] /\ holder \in [Lock -> Cpu \cup {NoCpu}]
      BY <1>1
    <2>3. /\ ncli \in [Cpu -> Int] /\ intena \in [Cpu -> BOOLEAN] /\ ints \in [Cpu -> BOOLEAN]
          /\ runs \in [Cpu -> Cpu \cup Process]
      BY <1>1
    <2>4. pstate \in [Process -> {"RUNNABLE", "RUNNING", "SLEEPING"}] /\ ticks \in Nat
      BY <1>1
    <2> QED BY <2>1, <2>2, <2>3, <2>4 DEF SpinTyped
  <1>9. RunsOnce
    BY <1>1, <1>2 DEF RunsOnce
  <1>10. LocksRight
    BY <1>1, <1>6, EmptyReads DEF LocksRight
  <1>11. \A t \in Cpu \cup Process : Sound(t, todo[t])
    BY <1>5, <1>6, SoundEmpty
  <1>12. ASSUME NEW c \in Cpu PROVE RunsRight(c) /\ HoldsRight(c)
    <2>1. RunsRight(c)
      BY <1>1, <1>2, <1>6, EmptyReads DEF RunsRight, RunsOk
    <2>2. HoldsRight(c)
      BY <1>1, <1>2, <1>6, EmptyReads DEF HoldsRight, HoldsOk
    <2> QED BY <2>1, <2>2
  <1>13. ASSUME NEW t \in Cpu \cup Process, \A c \in Cpu : runs[c] # t PROVE Parked(t)
    <2>1. t \in Process /\ t \notin Cpu
      BY <1>2, <1>6, <1>13
    <2> QED BY <1>5, <1>6, <2>1 DEF Parked, ParkedOk
  <1>14. ASSUME NEW p \in Process PROVE Timely(p)
    BY <1>1, <1>5, <1>6 DEF Timely
  <1> QED BY <1>1, <1>8, <1>9, <1>10, <1>11, <1>12, <1>13, <1>14 DEF SpinInv

LEMMA SpinStutter ==
  ASSUME SpinInv, UNCHANGED spinvars
  PROVE  SpinInv'
  <1>1. /\ locked' = locked /\ holder' = holder /\ ncli' = ncli /\ intena' = intena /\ runs' = runs
        /\ ints' = ints /\ todo' = todo /\ pstate' = pstate /\ ticks' = ticks /\ panicked' = panicked
    BY DEF spinvars, lockvars, cpuvars, procvars
  <1>2. \A c : Left(c)' = Left(c)
    BY <1>1 DEF Left
  <1>3. SpinTyped' /\ ~panicked' /\ RunsOnce'
    BY <1>1 DEF SpinInv, SpinTyped, RunsOnce
  <1>4. LocksRight'
    BY <1>1, <1>2 DEF SpinInv, LocksRight
  <1>5. \A t \in Cpu \cup Process : Sound(t, todo'[t])
    BY <1>1 DEF SpinInv
  <1>6. \A c \in Cpu : RunsRight(c)' /\ HoldsRight(c)'
    BY <1>1, <1>2 DEF SpinInv, RunsRight, HoldsRight
  <1>7. \A t \in Cpu \cup Process : (\A c \in Cpu : runs'[c] # t) => Parked(t)'
    BY <1>1 DEF SpinInv, Parked
  <1>8. \A p \in Process : Timely(p)'
    <2>1. Pending => Pending'
      BY <1>2 DEF Pending
    <2>2. \A n : Over(n)' <=> Over(n)
      BY <1>1 DEF Over
    <2>3. ASSUME NEW p \in Process PROVE Timely(p)'
      <3>1. Timely(p)
        BY DEF SpinInv
      <3>2. AllOn(todo[p]) => AllOn(todo[p])'
        BY <1>1, <2>2 DEF AllOn
      <3>3. Sleeps(todo[p])' => Sleeps(todo[p])
        BY <1>1 DEF Sleeps
      <3> QED BY <1>1, <2>1, <3>1, <3>2, <3>3 DEF Timely
    <2> QED BY <2>3
  <1> QED BY <1>3, <1>4, <1>5, <1>6, <1>7, <1>8 DEF SpinInv

LEMMA SpinNextKeeps == SpinInv /\ [SpinNext]_spinvars => SpinInv'
  <1> SUFFICES ASSUME SpinInv, [SpinNext]_spinvars PROVE SpinInv'
    OBVIOUS
  <1>1. CASE SpinNext
    <2>1. PICK c \in Cpu :
             \/ Pushcli(c) \/ Xchg(c) \/ Own(c) \/ Disown(c) \/ Unlock(c)
             \/ Loop(c) \/ Slot(c)
             \/ GoesAway(c) \/ ComesBack(c) \/ Wakeup1(c)
             \/ TimerInterrupts(c) \/ Tick(c) \/ Preempt(c) \/ Iret(c)
             \/ CallSleep(c) \/ Ticks0(c) \/ While(c)
      BY <1>1 DEF SpinNext
    <2> QED BY <2>1, PushcliStep, XchgStep, OwnStep, DisownStep, UnlockStep, LoopStep, SlotStep,
               GoesAwayStep, ComesBackStep, Wakeup1Step, TimerStep, TickStep, PreemptStep, IretStep,
               CallStep, Ticks0Step, WhileStep
  <1>2. CASE UNCHANGED spinvars
    BY <1>2, SpinStutter
  <1> QED BY <1>1, <1>2

\* A processor that spins for tickslock does not have ptable's lock.
LEMMA NoCircle ==
  ASSUME SpinInv
  PROVE  \E c \in Cpu : ~Spins(c)
  <1> SUFFICES ASSUME \A c \in Cpu : Spins(c) PROVE FALSE
    OBVIOUS
  <1>1. ASSUME NEW c \in Cpu
        PROVE  /\ Arg(c) \in Lock /\ ~Ins(Left(c), Arg(c)) /\ locked[Arg(c)]
               /\ Arg(c) = "tickslock" => ~Ins(Left(c), "ptable")
    <2>1. At(c, "xchg") /\ locked[Arg(c)]
      BY DEF Spins
    <2>2. PICK lk \in Lock, v \in Code :
             /\ Arg(c) = lk /\ ~Ins(Left(c), lk)
             /\ (\A m : m # lk => (Ins(Left(c), m) <=> Ins(v, m)))
             /\ (lk = "tickslock" => ~Ins(v, "ptable"))
      BY <2>1, LockView
    <2> QED BY <2>1, <2>2
  <1>2. ASSUME NEW c \in Cpu PROVE Arg(c) # "ptable"
    <2> SUFFICES ASSUME Arg(c) = "ptable" PROVE FALSE
      OBVIOUS
    <2>1. PICK d \in Cpu : Ins(Left(d), "ptable")
      BY <1>1, TwoLocks DEF SpinInv, LocksRight
    <2> QED BY <1>1, <2>1, TwoLocks
  <1>3. \A c \in Cpu : Arg(c) = "tickslock"
    BY <1>1, <1>2, TwoLocks
  <1>4. Boot \in Cpu
    BY SpinAssumption
  <1>5. PICK d \in Cpu : Ins(Left(d), "tickslock")
    BY <1>1, <1>3, <1>4, TwoLocks DEF SpinInv, LocksRight
  <1> QED BY <1>1, <1>3, <1>5

\* The kinds of iret.
LEMMA ViaKinds ==
  ASSUME NEW t, NEW s \in Code, Sound(t, s), OpAt(s, "iret") # {}
  PROVE  /\ s[Min(OpAt(s, "iret"))][2] \in {"interrupt", "call", "fork"}
         /\ Via(s) = s[Min(OpAt(s, "iret"))][2]
  <1>1. OpAt(s, "iret") \in SUBSET Nat /\ \A j \in OpAt(s, "iret") : j \in 1 .. Len(s) /\ s[j][1] = "iret"
    <2>1. DOMAIN s = 1 .. Len(s) /\ Len(s) \in Nat
      BY DEF Code
    <2> QED BY <2>1 DEF OpAt
  <1>2. PICK i : i = Min(OpAt(s, "iret"))
    OBVIOUS
  <1>3. i \in 1 .. Len(s) /\ s[i][1] = "iret"
    BY <1>1, <1>2, MinIsLeast
  <1>4. CallsFine(s[i], SubSeq(s, i + 1, Len(s)))
    BY <1>3 DEF Sound, Fine
  <1>5. s[i][2] \in {"interrupt", "call", "fork"}
    BY <1>3, <1>4 DEF CallsFine
  <1> QED BY <1>2, <1>5 DEF Via

LEMMA SpinInvHolds == SpinInv => LocksInOrder
  <1> SUFFICES ASSUME SpinInv PROVE LocksInOrder
    OBVIOUS
  <1>1. \A c, lk : Inside(c, lk) <=> Ins(Left(c), lk)
    <2> SUFFICES ASSUME NEW c, NEW lk PROVE Inside(c, lk) <=> Ins(Left(c), lk)
      OBVIOUS
    <2>1. For(c, {"xchg", "unlock"}, lk) = LockAt(Left(c), lk)
      BY DEF For, LockAt
    <2> QED BY <2>1 DEF Inside, Ins
  <1>2. \A c, op : Places(c, op) = OpAt(Left(c), op)
    BY DEF Places, OpAt
  <1>3. OneInside
    <2>1. ASSUME NEW lk \in Lock
          PROVE  /\ \A c, d \in Cpu : Ins(Left(c), lk) /\ Ins(Left(d), lk) => c = d
                 /\ locked[lk] <=> \E c \in Cpu : Ins(Left(c), lk)
      <3>1. \A c, d \in Cpu : Ins(Left(c), lk) /\ Ins(Left(d), lk) => c = d
        BY DEF SpinInv, LocksRight
      <3>2. locked[lk] => \E c \in Cpu : Ins(Left(c), lk)
        BY DEF SpinInv, LocksRight
      <3>3. \A c \in Cpu : Ins(Left(c), lk) => locked[lk]
        BY SpinView
      <3> QED BY <3>1, <3>2, <3>3
    <2> QED BY <1>1, <2>1 DEF OneInside
  <1>4. InterruptsRight
    <2> SUFFICES ASSUME NEW c \in Cpu
                 PROVE  /\ ncli[c] = Cardinality(Places(c, "unlock")) - Cardinality(Places(c, "pushcli"))
                        /\ ncli[c] > 0 \/ Entered(c) = "interrupt" => ~ints[c]
                        /\ ncli[c] = 0 /\ Entered(c) \in {"call", "user"} => ints[c]
      BY DEF InterruptsRight
    <2>1. RunsOk(runs[c], Left(c), ncli[c], ints[c], intena[c])
      BY SpinView
    <2>2. ncli[c] = Cardinality(Places(c, "unlock")) - Cardinality(Places(c, "pushcli"))
      BY <1>2, <2>1 DEF RunsOk, Net
    <2>3. CASE OpAt(Left(c), "iret") # {}
      <3>1. Entered(c) = Via(Left(c)) /\ Via(Left(c)) \in {"interrupt", "call", "fork"}
        <4>1. /\ Left(c)[Min(OpAt(Left(c), "iret"))][2] \in {"interrupt", "call", "fork"}
              /\ Via(Left(c)) = Left(c)[Min(OpAt(Left(c), "iret"))][2]
          BY <2>3, SpinView, ViaKinds
        <4>2. Entered(c) = Left(c)[Min(OpAt(Left(c), "iret"))][2]
          BY <1>2, <2>3 DEF Entered
        <4> QED BY <4>1, <4>2
      <3> QED BY <2>1, <2>2, <3>1 DEF RunsOk
    <2>4. CASE OpAt(Left(c), "iret") = {}
      <3>1. Via(Left(c)) = "none"
        BY <2>4 DEF Via
      <3>2. Entered(c) = IF runs[c] = c THEN "scheduler" ELSE "user"
        BY <1>2, <2>4 DEF Entered
      <3>3. runs[c] # c => runs[c] \in Process
        BY SpinView
      <3>4. Entered(c) # "interrupt" /\ (Entered(c) \in {"call", "user"} => runs[c] \in Process)
        BY <3>2, <3>3
      <3> QED BY <2>1, <2>2, <3>1, <3>4 DEF RunsOk
    <2> QED BY <2>3, <2>4
  <1>5. TicksSeen
    <2> SUFFICES ASSUME NEW p \in Process, pstate[p] = "SLEEPING"
                 PROVE  \/ \A i \in DOMAIN todo[p] : todo[p][i][1] = "while" => ~Over(todo[p][i][2])
                        \/ \E c \in Cpu : Places(c, "wakeup1") # {} /\ Places(c, "ticks++") = {}
      BY DEF TicksSeen
    <2>1. Timely(p)
      BY DEF SpinInv
    <2>2. CASE AllOn(todo[p])
      BY <2>2 DEF AllOn
    <2>3. CASE Pending
      BY <1>2, <2>3 DEF Pending, Has1
    <2> QED BY <2>1, <2>2, <2>3 DEF Timely
  <1>6. ~panicked
    BY DEF SpinInv
  <1> QED BY <1>3, <1>4, <1>5, <1>6, NoCircle DEF LocksInOrder

(***************************************************************************)
(* Whichever process or processor takes, hands on and gives back the two   *)
(* locks, each has one holder, no assertion of acquire, release, popcli    *)
(* and sched fails, interrupts are off exactly where they must be,         *)
(* processors do not spin for each other in a circle and no sleeper        *)
(* misses the tick that he waits for (spinlock.c, sleep, sched, scheduler  *)
(* and wakeup1 of proc.c, trap's timer, sys_sleep).                        *)
(***************************************************************************)
THEOREM LocksStayInOrder == SpinInit /\ [][SpinNext]_spinvars => []LocksInOrder
  <1>1. SpinInit => SpinInv
    BY SpinAssumption, SpinInitInv
  <1>2. SpinInv /\ [SpinNext]_spinvars => SpinInv'
    BY SpinAssumption, SpinNextKeeps
  <1>3. SpinInv => LocksInOrder
    BY SpinAssumption, SpinInvHolds
  <1> QED BY <1>1, <1>2, <1>3, PTL
=============================================================================
