--------------------------------- MODULE Ide ---------------------------------
(***************************************************************************)
(* kernel/ide.c: the queue of disk requests, its interrupt handler, and    *)
(* the drive.  The kernels of all projects have the same file.             *)
(*                                                                         *)
(* idelock makes iderw (up to its sleep) and ideintr one step each.        *)
(* idewait spins for the drive inside ideintr: the step waits for it.      *)
(* The drive may interrupt once too often, and may fail to read.           *)
(***************************************************************************)
EXTENDS Integers, Sequences, FiniteSets

CONSTANTS Proc,        \* processes
          Buf,         \* struct buf
          Sector,      \* sectors of disk 0
          NoSector,    \* what a buffer holds before its first use
          Data,        \* contents of a sector
          Blank,       \* the contents of a new disk
          Written,     \* bound: what programs write into each sector
          Nobody,      \* no buffer
          MaxSpurious, \* bound: interrupts that nothing has caused
          Errors       \* may a read of the drive fail?

ASSUME IdeAssumption ==
  /\ Nobody \notin Buf /\ NoSector \notin Sector /\ Blank \in Data
  /\ Written \in [Sector -> SUBSET Data]
  /\ MaxSpurious \in Nat /\ Errors \in BOOLEAN /\ IsFiniteSet(Buf)

Flag == {"BUSY", "VALID", "DIRTY"}

VARIABLES
  sector, flags, data,  \* struct buf: b->sector, b->flags, b->data
  idequeue,             \* the buffers from idequeue on, through qnext
  drive,                \* the command in the drive, and whether it is at work
  irq,                  \* is an interrupt pending?
  spurious,             \* interrupts without a cause so far
  disk,                 \* the contents of the sectors
  failed,               \* has a read failed?
  pc, mybuf             \* where each process is, and the buffer it works on

bufs    == << sector, flags, data >>
device  == << drive, irq, spurious, disk, failed >>

IdeInit ==
  /\ idequeue = << >>
  /\ drive = [cmd |-> "none", sector |-> NoSector, data |-> Blank, busy |-> FALSE]
  /\ irq = FALSE /\ spurious = 0 /\ failed = FALSE
  /\ disk = [s \in Sector |-> Blank]

Goto(p, l) == pc' = [pc EXCEPT ![p] = l]

---------------------------------------------------------------------------
(* The drive. *)

\* The drive ends its command and interrupts.  A read may fail.
DriveDone ==
  /\ drive.busy
  /\ irq' = TRUE
  /\ \/ /\ drive.cmd = "write"
        /\ disk' = [disk EXCEPT ![drive.sector] = drive.data]
        /\ drive' = [drive EXCEPT !.busy = FALSE]
     \/ /\ drive.cmd = "read"
        /\ drive' = [drive EXCEPT !.busy = FALSE, !.data = disk[drive.sector]]
        /\ UNCHANGED disk
     \/ /\ drive.cmd = "read" /\ Errors
        /\ drive' = [drive EXCEPT !.busy = FALSE, !.cmd = "error"]
        /\ UNCHANGED disk
  /\ UNCHANGED << bufs, idequeue, spurious, failed, pc, mybuf >>

SpuriousInterrupt ==
  /\ ~irq /\ spurious < MaxSpurious
  /\ irq' = TRUE /\ spurious' = spurious + 1
  /\ UNCHANGED << bufs, idequeue, drive, disk, failed, pc, mybuf >>

---------------------------------------------------------------------------
(* The driver. *)

\* The command of idestart(b) when b has the flags fs.
Command(b, fs) ==
  [cmd |-> IF "DIRTY" \in fs THEN "write" ELSE "read",
   sector |-> sector[b], busy |-> TRUE,
   data |-> IF "DIRTY" \in fs THEN data[b] ELSE Blank]

\* iderw has nothing left to wait for.
Synced(b) == "VALID" \in flags[b] /\ "DIRTY" \notin flags[b]

\* iderw(b), up to the sleep on b.  b is BUSY, and there is something to do.
iderw(p) ==
  LET b == mybuf[p] IN
  /\ pc[p] = "iderw" /\ ~Synced(b)
  /\ idequeue' = Append(idequeue, b)
  /\ IF idequeue = << >> THEN ~drive.busy /\ drive' = Command(b, flags[b])
                   ELSE UNCHANGED drive
  /\ Goto(p, "synced?")
  /\ UNCHANGED << bufs, irq, spurious, disk, failed, mybuf >>

\* The loop around the sleep, when p has been woken.
IderwWoken(p) ==
  /\ pc[p] = "woken"
  /\ Goto(p, IF Synced(mybuf[p]) THEN "have" ELSE "synced?")
  /\ UNCHANGED << bufs, idequeue, device, mybuf >>

\* wakeup(b): processes asleep in iderw or bget.
Woken(b) == [p \in Proc |->
  IF mybuf[p] # b THEN pc[p]
  ELSE CASE pc[p] = "synced?" -> "woken"
         [] pc[p] = "bsleep"  -> "bget"
         [] OTHER             -> pc[p]]

\* ideintr for an empty queue.
IntrNothing ==
  /\ irq /\ idequeue = << >>
  /\ irq' = FALSE
  /\ UNCHANGED << bufs, idequeue, drive, spurious, disk, failed, pc, mybuf >>

NextStarts_Not(q) == FALSE                    \* mutated: the rest is forgotten
NextStarts(q) == q # << >>

\* ideintr: the first buffer is done, the next one is started.  For a buffer
\* that is not DIRTY the handler waits for the drive (idewait) and copies the
\* data, unless the drive reports an error; it becomes VALID in either case.
ideintr ==
  /\ irq /\ idequeue # << >>
  /\ LET b    == Head(idequeue)
         read == "DIRTY" \notin flags[b]
         ok   == read /\ drive.cmd # "error"
         next == Tail(idequeue)
     IN
     /\ read \/ NextStarts(next) => ~drive.busy
     /\ idequeue' = next
     /\ data' = IF ok THEN [data EXCEPT ![b] = drive.data] ELSE data
     /\ failed' = (failed \/ (read /\ ~ok))
     /\ flags' = [flags EXCEPT ![b] = (@ \cup {"VALID"}) \ {"DIRTY"}]
     /\ drive' = IF NextStarts(next)
                 THEN Command(Head(next), flags[Head(next)]) ELSE drive
     /\ pc' = Woken(b)
  /\ irq' = FALSE
  /\ UNCHANGED << sector, spurious, disk, mybuf >>

IdeNext == DriveDone \/ SpuriousInterrupt \/ IntrNothing \/ ideintr
           \/ \E p \in Proc : iderw(p) \/ IderwWoken(p)
==============================================================================
