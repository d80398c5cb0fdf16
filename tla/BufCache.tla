------------------------------ MODULE BufCache ------------------------------
(***************************************************************************)
(* kernel/bio.c over Ide: the cache of disk blocks.  A process takes a     *)
(* buffer (bread), may change it and write it through (bwrite), and gives  *)
(* it back (brelse).  bcache.lock makes bget's loop and brelse one step.   *)
(***************************************************************************)
EXTENDS Ide

VARIABLES lru,    \* the buffers from head.next (used last) to head.prev
          want    \* the sector that each process reads

cacheonly == << lru, want >>
vars == << bufs, idequeue, device, pc, mybuf, cacheonly >>

NBUF == Cardinality(Buf)
Order == {s \in [1 .. NBUF -> Buf] : \A b \in Buf : \E i \in 1 .. NBUF : s[i] = b}

\* binit
Init ==
  /\ IdeInit
  /\ sector = [b \in Buf |-> NoSector]
  /\ flags = [b \in Buf |-> {}]
  /\ data = [b \in Buf |-> Blank]
  /\ lru = CHOOSE s \in Order : TRUE
  /\ pc = [p \in Proc |-> "out"]
  /\ mybuf = [p \in Proc |-> Nobody]
  /\ want = [p \in Proc |-> NoSector]

---------------------------------------------------------------------------
Busy(b) == "BUSY" \in flags[b]
Holding(s) == {b \in Buf : sector[b] = s}

\* bread(dev, s) is called.  (Bound: not any more when the drive has failed.)
bread(p, s) ==
  /\ pc[p] = "out" /\ ~failed
  /\ want' = [want EXCEPT ![p] = s]
  /\ Goto(p, "bget")
  /\ UNCHANGED << bufs, idequeue, device, mybuf, lru >>

\* What bread does with the buffer from bget.
AfterGet(b, fs) == IF "VALID" \in fs THEN "have" ELSE "iderw"

\* The first loop: the sector is cached, and the buffer is free or not.
BgetCached(p) ==
  /\ pc[p] = "bget"
  /\ \E b \in Holding(want[p]) :
       /\ mybuf' = [mybuf EXCEPT ![p] = b]
       /\ \/ /\ ~Busy(b)
             /\ flags' = [flags EXCEPT ![b] = @ \cup {"BUSY"}]
             /\ Goto(p, AfterGet(b, flags[b]))
          \/ /\ Busy(b)
             /\ Goto(p, "bsleep")
             /\ UNCHANGED flags
  /\ UNCHANGED << sector, data, idequeue, device, cacheonly >>

\* The second loop: the free buffer that was used longest ago; if there is
\* none the kernel panics, and no step is left.
FreshFlags_Kept(b) == flags[b] \cup {"BUSY"}    \* mutated: still VALID
FreshFlags(b) == {"BUSY"}

NotCached_Whatever(s) == TRUE                  \* mutated: no look at the cache
NotCached(s) == Holding(s) = {}

BgetFresh(p) ==
  /\ pc[p] = "bget" /\ NotCached(want[p])
  /\ \E i \in 1 .. NBUF :
       LET b == lru[i] IN
       /\ ~Busy(b) /\ \A j \in i + 1 .. NBUF : Busy(lru[j])
       /\ sector' = [sector EXCEPT ![b] = want[p]]
       /\ flags' = [flags EXCEPT ![b] = FreshFlags(b)]
       /\ mybuf' = [mybuf EXCEPT ![p] = b]
       /\ Goto(p, AfterGet(b, FreshFlags(b)))
  /\ UNCHANGED << data, idequeue, device, cacheonly >>

\* The holder changes the contents, and bwrite(b) marks them for the disk.
bwrite(p, v) ==
  LET b == mybuf[p] IN
  /\ pc[p] = "have" /\ v \in Written[sector[b]]
  /\ data' = [data EXCEPT ![b] = v]
  /\ flags' = [flags EXCEPT ![b] = @ \cup {"DIRTY"}]
  /\ Goto(p, "iderw")
  /\ UNCHANGED << sector, idequeue, device, mybuf, cacheonly >>

\* b is taken out of the list and put in at its front.
ToFront(s, b) ==
  [i \in 1 .. NBUF |-> IF i = 1 THEN b
                      ELSE IF \E k \in 1 .. i - 1 : s[k] = b THEN s[i] ELSE s[i - 1]]

brelse(p) ==
  LET b == mybuf[p] IN
  /\ pc[p] = "have"
  /\ lru' = ToFront(lru, b)
  /\ flags' = [flags EXCEPT ![b] = @ \ {"BUSY"}]
  /\ pc' = [Woken(b) EXCEPT ![p] = "out"]
  /\ mybuf' = [mybuf EXCEPT ![p] = Nobody]
  /\ want' = [want EXCEPT ![p] = NoSector]
  /\ UNCHANGED << sector, data, idequeue, device >>

Work(p) == \/ \E s \in Sector : bread(p, s)
           \/ \E v \in Data : bwrite(p, v)
           \/ brelse(p)

Next == \/ IdeNext /\ UNCHANGED cacheonly
        \/ \E p \in Proc : BgetCached(p) \/ BgetFresh(p) \/ Work(p)

Spec == Init /\ [][Next]_vars

\* The drive ends every command, pending interrupts are taken, and processes
\* that spin for idelock or the drive, or are woken, go on: others hold idelock
\* again and again, hence strong fairness.  Nothing is assumed of programs.
FairSpec ==
  /\ Spec
  /\ WF_vars(DriveDone /\ UNCHANGED cacheonly)
  /\ WF_vars((ideintr \/ IntrNothing) /\ UNCHANGED cacheonly)
  /\ \A p \in Proc :
       SF_vars((iderw(p) \/ IderwWoken(p)) /\ UNCHANGED cacheonly)

---------------------------------------------------------------------------
(* Properties. *)

TypeOK ==
  /\ sector \in [Buf -> Sector \cup {NoSector}]
  /\ flags \in [Buf -> SUBSET Flag]
  /\ data \in [Buf -> Data] /\ disk \in [Sector -> Data]
  /\ idequeue \in Seq(Buf)
  /\ drive \in [cmd : {"none", "read", "write", "error"}, data : Data,
                sector : Sector \cup {NoSector}, busy : BOOLEAN]
  /\ irq \in BOOLEAN /\ failed \in BOOLEAN /\ spurious \in 0 .. MaxSpurious
  /\ pc \in [Proc -> {"out", "bget", "bsleep", "iderw", "synced?", "woken", "have"}]
  /\ mybuf \in [Proc -> Buf \cup {Nobody}]
  /\ want \in [Proc -> Sector \cup {NoSector}]
  /\ lru \in Order

Owner(b) == {p \in Proc : /\ mybuf[p] = b
                          /\ pc[p] \in {"iderw", "synced?", "woken", "have"}}

OneBufferPerSector ==
  \A b, c \in Buf : sector[b] = sector[c] /\ sector[b] # NoSector => b = c

OneOwner ==
  \A b \in Buf : /\ Busy(b) <=> Owner(b) # {}
                 /\ \A p, q \in Owner(b) : p = q /\ sector[b] = want[p]

Queued == {idequeue[i] : i \in 1 .. Len(idequeue)}

\* A buffer waits for the disk just while its owner sleeps in iderw.
QueueIsWaiting ==
  /\ \A i, j \in 1 .. Len(idequeue) : idequeue[i] = idequeue[j] => i = j
  /\ \A b \in Buf : b \in Queued <=> \E p \in Owner(b) : pc[p] = "synced?"

\* A process that waits in bget waits for a buffer that somebody holds.
BgetWaits == \A p \in Proc : pc[p] = "bsleep" => Busy(mybuf[p])

\* The buffers are in order between any two steps of processes and interrupts:
\* no sector has two buffers, a BUSY buffer has one owner and the sector that
\* he asked for, the disk's queue holds the buffers waited for and no others,
\* and no one sleeps for a buffer that is free (bget, brelse, iderw, ideintr).
BuffersInOrder ==
  TypeOK /\ OneBufferPerSector /\ OneOwner /\ QueueIsWaiting /\ BgetWaits

\* Every request for the disk comes back, whatever interrupts the drive sends
\* in between (iderw, ideintr, idestart).
RequestServed == \A p \in Proc : pc[p] = "iderw" ~> pc[p] = "have"

\* What is on the disk of sector s when the drive has ended its command; what a
\* reader of s finds, or would find; and who has s.
OnDisk(s) ==
  IF drive.busy /\ drive.cmd = "write" /\ drive.sector = s THEN drive.data ELSE disk[s]

Contents(s) ==
  LET valid == {b \in Holding(s) : "VALID" \in flags[b]} IN
  IF valid # {} THEN data[CHOOSE b \in valid : TRUE] ELSE OnDisk(s)

Users(s) == {p \in Proc : \E b \in Holding(s) : p \in Owner(b)}
User(s) == IF Users(s) = {} THEN Nobody ELSE CHOOSE p \in Users(s) : TRUE

\* Buffers, cache, queue and disk together are one store of blocks, each with
\* at most one user and the contents that were written last (BlockStore).
Store == INSTANCE BlockStore WITH
  NoOne  <- Nobody,
  store  <- [s \in Sector |-> Contents(s)],
  user   <- [s \in Sector |-> User(s)],
  broken <- failed
ImplementsStore == Store!Spec
==============================================================================
