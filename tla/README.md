# Specifications for the operating systems course projects

The repository holds five course projects.  Each has a part for Linux and a
part that changes the xv6 kernel, and each xv6 project has its own copy of the
whole kernel.  This directory holds TLA+ specifications of the parts that are
concurrent or must survive failures, configurations that model-check them with
TLC, and proofs checked by TLAPS.  `PROJECT.json` lists the runs, for every
definition the source lines that it stands for, and the hazards that the
properties are for.

Contents: [inventory](#inventory), [the modules](#the-modules),
[the runs](#the-runs), [fairness](#fairness), [the proofs](#the-proofs),
[what the code does otherwise than it says](#what-the-code-does-otherwise-than-it-says),
[what is not modelled](#what-is-not-modelled), [plan](#plan).

## Inventory

### Modelled

**Web server** (`p4/linux`: `server.c`, `request.c`, wrappers in `cs537.c`). State: the
ring `buffer` with `count`, `filled`, `used`; a mutex and the condition variables
`empty` and `fill`; the process's descriptor table and its children.  Operations: accept
and put into the ring (main thread); take out, handle, close (workers); fork a CGI
program and wait for a child.  Hard: several threads over one ring, signals that must
not be lost, descriptor numbers that the kernel reuses, `wait()` that takes any thread's
child, clients that hold a thread for ever, I/O errors that end the whole
process.  Correct when: every connection is served once and in order, no descriptor is
closed under another thread, nobody sleeps while there is work.

**Processes and kernel threads** (`p4/xv6/kernel`: `proc.c`, `trap.c`, `sysproc.c`,
`exec.c`).  State: the process table, `nextpid`, and which address spaces and stacks are
allocated.  Operations: fork, clone, exec, exit, wait, join, kill, sleep, wakeup, yield,
the scheduler.  `ptable.lock` protects the table, but fork and clone fill their slot
without it.  Hard: exit against wait, abandoned children, kill against everything,
threads that outlive their creator, memory that runs out halfway, init's own fork, whose
failure ends the kernel.  Correct when: pids are unique, everybody has a parent that can
collect him, no wakeup is lost, an address space is freed once and not before its last
user has gone.

**Pipes** (`p4/xv6/kernel`: `pipe.c`, `file.c`).  State: 512 bytes, two counters
that wrap around, two open flags, two reference counts.  Operations: write, read,
close, fork's duplication, kill.  They use sleep and wakeup of the process
component.  Correct when: bytes come out once and in order, end of file is final,
the memory is freed when it is unused, every call returns.

**Multi-level feedback queue** (`p2/xv6/kernel`: `proc.c`, `trap.c`).  State:
priority, slices and flags of each process; the ring of level 3; `ticks`;
`cpu->proc`.  Operations: the scheduler's walk, timer interrupts, boosts, fork,
sleep, exit.  Correct when: a process gets its allowance at each level, no more
and no less, and everybody runs at some time.

**Shared memory pages** (`p3/xv6/kernel`: `vm.c`, `proc.c`, `exec.c`).  State: for
each of 8 keys a count and up to 4 pages; what each process has mapped.
Operations: shmgetat, fork, exec, exit, wait.  The table has no lock, so others
run between shmgetat's test and its changes.  Correct
when: counts are the numbers of users, users see the same pages, pages are freed
by the last user and not before.

**Statistics table** (`p3/linux`: `stats.c`, `stats_client.c`, `stats_server.c`).
State: 16 entries in shared memory, a semaphore.  Operations: take an entry, mark
it, give it back from a signal handler; the server's set-up and end.  Correct
when: an entry has one owner, and nobody who has gone is still listed.

**File contents and checksums** (`p5/xv6/kernel/fs.c`).  State: bitmap, blocks, indirect
block, the inode on disk and in memory; in a checked file the top byte of each pointer
is a checksum.  Operations: write, read, truncate; crash and corruption, of the indirect
block's pointers too.  Correct when: reads give what was written, damage is detected and
nothing else is taken for damage, a crash leaves no pointer to a free block.

**Inodes, directories, system calls** (`p4/xv6/kernel`: `fs.c`, `sysfile.c`).
State: the inodes and directories on the disk; the cache of inodes in use, each
with its count of references and the flags BUSY and VALID; each process's current
directory and open file.  Operations: open, creat, mkdir, link, unlink, chdir,
close, which rest on namex, dirlookup, dirlink, iget, ilock, iput, ialloc.  Hard: an
inode is found first and locked later, and in between it may lose its last name;
iput frees it without a lock on the cache; several inodes are locked at a time;
there is no log.  Correct when: cache, users and disk agree, links are names, the
kernel never panics and the calls never wait in a circle.

**Buffer cache and disk** (`bio.c`, `ide.c`, the same in all kernels).  State: the
buffers with sector and flags in the order of their use, the queue of requests, the
drive.  Operations: bread, bwrite, brelse, iderw, the interrupt handler.  Used by
everything in `fs.c`.  Hard: a process sleeps for a buffer that then becomes another
sector's; interrupts without a cause; reads that fail.  Correct when: it is one
store of blocks with one user each, and every request comes back.

**File system checker and mkfs** (`p5/linux`: `fscheck.c`, `mkfs.c`).  State: an
image.  Operations: copy a tree of directories into an image; check an image and
report the first error.  Hard: the checks rest on each other and read what has not
been checked yet.  Correct when: what mkfs makes is accepted, what is accepted is
sound, and what is reported is the case.

**Thread library and allocator** (`p4/xv6/user`: `thread.c`, `umalloc.c`).  State:
the ring of free blocks, the break.  Operations: malloc, free, thread_create,
thread_join.  Correct when: free and used blocks share the heap without overlap.

**Shell** (`p2/linux/mysh.c`).  State: the list of background jobs, the count of
lines.  Operations: programs in the foreground and background, `j`, `myw`, `exit`.
Hard: children end and stop at any time, the kernel reuses pids, the list keeps jobs
that have ended.  Correct when: every background job can be found in the list.

**Spinlocks** (`spinlock.c`, with `proc.c`, `trap.c` and `sysproc.c` around them, the
same in all kernels).  State: each lock with the processor that has it; each
processor's `ncli`, `intena` and interrupt flag.  Operations: acquire, release, pushcli,
popcli; sched and sleep, which hand a lock to another thread; the timer's handler.
Hard: handlers take locks, too; a lock is released by another thread than its
taker, and `intena` belongs to a processor, not to a thread.  Correct when: one is
inside, no assertion fails, interrupts are off exactly when they must be, no wakeup falls
between a test and the sleep.

**Physical memory and address spaces** (`p4/xv6/kernel`: `kalloc.c`, `vm.c`,
`proc.c`, `exec.c`).  State: the free list, page tables, each process's `pgdir` and
`sz`.  Operations: sbrk, fork, clone, exec, each with a way back when memory runs out.
Hard: others take and free pages in between; threads share a space but have each a
`sz`.  Correct when: every page is in one place, and a process has just the pages
below its size.

**Console** (`p4/xv6/kernel/console.c`).  State: a ring of 128 characters with three
indexes that wrap around.  Operations: a key typed (with erasing of the last
character and of the line), read.  Correct when: ended text is neither changed nor
lost, a read gives at most a line, nobody sleeps while there is text.

The components rest on each other as follows.  `Pipe` uses the sleep, wakeup and
kill of `Proc` (with the same two-lock window between test and sleep), `Inodes`
and `CheckedFile` use blocks as `BlockStore` promises them, which `BufCache` over
`Ide` is shown to implement; `Inodes` takes the contents of a directory as a value,
`CheckedFile` is one file's contents below it; `FsCheck` reads what these leave on a
disk.  The web server, the statistics, the shell and the checker are programs for
Linux and use its calls only; the allocator uses sbrk, clone and join.  `Spinlock`
shows that a critical section may be taken as one step, which the modules about the
kernel do, and that sleep gives up its lock and falls asleep in one; `Memory` has the
pages of what is an address space's name in `Proc`.

### Not modelled

See [what is not modelled](#what-is-not-modelled) for the reasons.  Sorting and its
generators; the system call counter; keyboard and serial line; fetching of arguments;
boot and devices; the other user programs, tools and tests.

## The modules

Each component has a module, `MC...` gives it finite sets for TLC, `...Proofs` holds
theorems about it (`PartsProofs` about `WebServer`, `MySh`, `Stats`, `Console`, `Memory`
and `UserHeap`, `PipeProofs` about `Pipe` and `Shm`, `InodeProofs` about `Inodes`,
`LockProofs` about `BufCache` and `Spinlock`, `FileProofs` about `CheckedFile`;
`Numbers` has the lemmas about numbers that several need).  Definitions have the names
of the functions that they model where there is one.  A definition whose comment says
`mutated:` is not part of the model: it is a plausible mistake, and the run named with
it in `PROJECT.json` finds a violated property when it takes the place of the definition
that follows it.

| Module | Stands for | A step is |
|---|---|---|
| `WebServer` | server.c, request.c | a critical section, or a call into the kernel |
| `BoundedFifo` | what a ring promises | put, get, the end of its owner |
| `Proc` | proc.c of p4 | a critical section of ptable.lock, or the part of a call between two |
| `Lifecycle` | what the process table promises a pid | one change of phase |
| `Pipe` | pipe.c | one byte, one test, one sleep; a kill between any two |
| `Sched` | proc.c of p2 | one visit of a slot by scheduler(), one store of fork |
| `Shm` | vm.c of p3 | a test, an allocation, a mapping; otherwise a call |
| `Stats` | stats*.c of p3 | a system call or a critical section |
| `CheckedFile` | fs.c of p5 | at most one write of the disk, with what is done up to the next |
| `Inodes` | fs.c and sysfile.c of p4 | what a call does between two locks, or up to its next write of the disk |
| `Ide` | ide.c, and the drive | a critical section of idelock, or a step of the drive |
| `BufCache` | bio.c, EXTENDS `Ide` | a critical section of bcache.lock; the holder's write |
| `BlockStore` | what buffers and drive promise | take, write, give back |
| `MySh` | mysh.c | a line up to where it waits, one job of `j`, a step of a child |
| `UserHeap` | umalloc.c, thread.c | a call |
| `FsCheck` | mkfs.c, fscheck.c | a file or directory copied, a field damaged; the checker is an operator |
| `Spinlock` | spinlock.c, and what proc.c, trap.c do with locks held | what other processors can tell apart: interrupts off, the exchange, the owner's name, a switch |
| `Memory` | kalloc.c, vm.c, growproc, fork, clone, exec of p4 | one page taken, or a call's failure or end |
| `Console` | console.c of p4 | a key, a character read, a test, a sleep |

### WebServer

`mainpc` and `wpc` say where the threads are; `lock` is before `pthread_mutex_lock`,
`wait_fill` and `wait_empty` are inside `pthread_cond_wait`.  `conn` is the kernel's
descriptor table, which gives each open descriptor its connection, numbered in the order
of arrival; a closed descriptor may be given out again at once.  `handed` are the
connections that workers have taken, in that order.  `cgi` and `holds` are the child
forked for a connection and the connections that it inherited.  `Produce` and `Consume`
are the critical sections with their signal, `ServeStatic` and `ServeDynamic` the two
ways through `requestHandle`, `WaitAny` the wait for a child, `Close` the end of a
worker's round.  `IoError` is the exit of the wrappers in `cs537.c`, `SpuriousWakeup`
what POSIX allows.  `HeldByClient` is a client that holds its worker for ever: it stays
silent, does not read its answer, or stops before the empty line, where
`requestReadhdrs` spins; `CgiHeld` is the same for a CGI program.  A full descriptor
table only delays `Accept`; the server would exit, so the descriptors of a run suffice
for its connections. Clients may break off, or hold whom they like, in every run.

`BoundedFifo` has a `queue`, all that was ever taken out (`out`), and whether its owner
is gone (`closed`): until then each item that was put is either inside or in `out`, in
order.  Only when the owner goes are the items inside lost with it.  The server maps
`handed` to `out`, and its end to `Close`; the pipe maps what readers have got, and the
last pipeclose.

### Proc

One field of `struct proc` is one function over slots.  `pc` says whether a process is
in user mode or inside a call that takes several steps, `np` is the slot that fork or
clone fills.  `live` are the allocated address spaces, `badfree` records a free of one
that was not allocated, `named` the arguments of kill so far, `shell` is init's variable
`pid`.  An address space is a number; files and names are left out. `Run` and `Yield`
are the scheduler: a process moves only while `RUNNING`. `ForkAlloc` is `allocproc`,
`ForkFinish` the rest; between them others run. `Collect` is one pass of wait's or
join's loop, including the sleep.  For sleep on ticks the test of `killed` and the sleep
are two steps, as kill takes another lock.  `JoinFirst` restricts programs: nobody ends,
calls exec or is killed by a program while he has threads, and threads make no threads.

init's program is modelled as in `init.c`: it forks a shell and waits until it has
collected it, or wait fails, and then forks again.  When fork fails (`InitForkFails`, or
`copyuvm` without memory) it calls exit, and the kernel panics (`InitExits`, pc
`panic`): that processor spins on (`Spin`).  The kernel stack is set when fork or clone
ends; that it is given back when copyuvm fails is in `Memory`.

### Pipe

`data`, `nread` and `nwrite` are those of the code, with counters modulo `Width` in
place of 2^32; `ref` are the counts of the two `struct file`s, `fds` the ends that each
process has open.  Bytes are numbered by their place in the stream, so that order and
loss can be seen; `got` are those that readers were given, in order.  `lock` is
`p->lock`.  Processes may be killed at any time, and may use one end while they still
hold the other.

### Sched

`lock` passes with the processor to the process, as in `swtch`.  `runs` is what a
processor really executes, `proc` is `cpu->proc`; `level` the branch of
`scheduler()` that a process was dispatched from and that will charge it.
`bumpdue` are processes inside `trap()` after `yield()`, which will read `ticks`
when they run again.  `ForkIsSlow` lets the timer hit fork after it has made the
child RUNNABLE and before it has set the child's priority and slices; `torn`
records where that happened.  A child is not collected before its parent has left
fork.  `Quantum`, `RoundRobin`, `BumpEvery` and `QLEN` are 5/5/10,
20, 100 and 100 in the code.  `size` grows without bound in the code; from
`SizeCap` on it is not told apart.

### Shm

`life` says which processes there are, `mapped` is the sequence of shared pages of a
process from the top of its address space down, `shm_va` the keys that it
has.  `checkifshared` looks a page up in the table in the order of the code, and
`deallocshm` does so with each page from the lowest address up.  `call` says where a
process is inside shmgetat; others run meanwhile, with other keys or the same.  `raced`
records the keys for which one process entered shmgetat, or gave the key up, while
another was inside it: there the code keeps no promise, and the model begins nothing
more.  `Reuse` lets kalloc return a page that the table still names for a key out of
use; the run does without it, as it breaks the counts.  Programs agree on the number of
pages of a key.

### Stats

`pc` is where a client is, `_u` stands for the second half, `stats_unlink` called
from the signal handler.  `ZeroEntry` is an entry before the server's loop,
`EmptyEntry` one with pid -1.  SIGINT may arrive anywhere, also while stats_init
holds the semaphore.  `Fails` is the exit of `stats_client.c` when setpriority or nanosleep
returns an error: it calls no stats_unlink, so the entry stays (`failed`).

### CheckedFile

A pointer is a pair of block number and top byte, a byte is one bit, so that the xor of
a block is its parity.  `op` is the call in progress.  No step has more than one
`bwrite` (`FreeInode`, after `TruncEnd`, writes the inode once more), and a crash may
fall between any two: `Bmap` and `LinkBlock` are balloc's write of the bitmap and bmap's
of the indirect block, `SetSum` and `Store` the checksum and the block, `bfree` and
`bfreeMark` bzero and the bitmap. `type` is T_FILE or T_CHECKED, chosen anew when a
freed inode is used again. `written` is the contents that the programs expect, `damaged`
what the disk has changed by itself, `signed` the damaged blocks that a partial write
has given a fresh checksum, `wild` the pointers of the indirect block that the disk has
changed, `astray` whether a program has written to, or freed, what such a pointer names,
`crashed` whether there ever was a crash.  A pointer that the disk has made 0 is to bmap
one that is not there: a read allocates a block (`ReadBegin`).  The indirect block has
no checksum, so nothing tells a program that it goes astray; nothing is promised after
that, and writing ends (a bound).  The constants say which types of files are reopened
and unlinked, at which stages of a call the machine may stop, and whether the disk
changes bytes (one at a time, in checked files; a changed pointer is 0 or names one of
the run's blocks). For a checked file, unlink is where the model stops after bfree has
been given a word with a checksum in it.

### Ide, BufCache, BlockStore

`flags` has B_BUSY, B_VALID and B_DIRTY; `lru` is bcache's list from the buffer used
last; `pc` is `bget` before its loop, `bsleep` and `synced?` asleep on the buffer in
bget and in iderw, `woken` on the way back.  `drive` is the command at work, `irq` a
pending interrupt.  `iderw` with an empty queue and `ideintr` with a next request wait
for the drive as idewait does, spinning with idelock held.  The drive may fail to read
(`Errors`), may interrupt once too often (`MaxSpurious`).  `BufCache` maps to
`BlockStore` with the contents of a VALID buffer, else of the command at work, else of
the disk, as the store, and the owner of a BUSY buffer as the user.  When a read has
failed, `broken`, nothing is promised of contents any more, as ideintr marks the buffer
VALID all the same.

### Inodes

`dinode` and `dir` are on the disk, at every step what a crash would leave.  `icache` is
the cache; an inode without a reference keeps its flags, as in the code, and is cleared
by the next iget.  `rest` is the path that namex has still to walk, `ip` and `dp` the
inode found and its parent, `held` the first inode of link.  `puts` are the iputs that a
process still owes before it goes on; `freeing` says where it is in the one that frees
an inode.  `panic` records the first panic.  `lost` records the inodes whose names went
with a removed directory when that was freed; `KeepsChild` says of a removed directory
that it has a directory in it, whose `..` keeps it from being freed.  Names are
elements, the entry `.` is left out (a directory's links do not count it), and so is the
size of a directory.

### MySh, UserHeap, FsCheck

In `MySh` a child that has been waited for
leaves its pid free; `said` are the jobs that myw has called terminated, `paused`
those that had ever stopped.  In `UserHeap` an address is a number of headers; `node` is
the ring of free blocks, `live` the blocks in use with the pointer that the program
has, `core` the headers that sbrk gave; a stack that thread_join gives back by an aligned
pointer is `lost`.  In `FsCheck` the actions build an image as mkfs does and then damage
it; `Verdict` is fscheck, check by check in its order, and `Sound` and `IsSo` say
independently of it what each of its messages means.  Names are compared as in the code:
the first entry's first letter, the second entry's first two.  `wild` is one outcome for
everything that it reads or writes outside of the image's data.

### Spinlock, Memory, Console, MCParts

`Spinlock` has a thread for each process and for each processor's scheduler, and
`todo` lists the instructions that a thread has left: a call puts those of the callee in
front, an interrupt those of its handler.  `runs` is the thread on a processor; a
switch leaves the rest of its list behind, to be gone on with on another processor
perhaps.  With interrupts off nothing but other processors comes in between, so steps
that touch only their own processor's fields are taken together with the next one
that others see.  Ticks are the one channel and the one lock besides `ptable`.

In `Memory` a space is named by the page of its directory, and `spaces` has its tables
and the page at each user address; `call` is how far sbrk, fork or exec has come.
kalloc's list is a set, of which the least page is taken, as its order makes no difference.
All other kernel mappings are `NTables` tables.  `lost` are pages that setupkvm has
forgotten, `emptied` is a space that sbrk has given away, `twice` records a page freed
while free.  Racing threads of one space end the model.

In `Console`, `unread` and `line` are the text as a user sees it: what has been
ended, and what is being edited.  The ring is compared with it.

`MCParts` runs one of the six parts `MySh`, `UserHeap`, `FsCheck`, `Spinlock`, `Memory`
and `Console` at a time, chosen by `part` at the start; they share nothing.

## The runs

Sizes are chosen so that the interesting cases happen: rings that fill and wrap
around, tables that run out of slots and reuse them, counters that pass their
width, more clients than entries.

| Run | Instance | Shows |
|---|---|---|
| `webserver` | 2 workers, ring of 2, 4 connections, fair | the ring refines `BoundedFifo` and is in order; one owner per descriptor; no wakeup lost; a child for each waiter; every connection ends unless clients hold it for ever |
| `proc` | 4 slots, 2 processors, 4 pids, 5 address spaces, threads, kills, memory may fail | unique pids, living parents, reasons to sleep, address spaces freed once, late enough and always, counts of threads |
| `proc_live` | 3 slots, 4 pids, so slots are reused and init's fork meets a full table; sleeps and kills, fair | refines `Lifecycle`; zombies are collected and the killed end unless init's fork fails; nobody else is killed |
| `pipe` | 3 processes, 2 bytes, counters modulo 4, 5 bytes written, kills | refines `BoundedFifo`, nobody sleeps who could go on, end of file final, freed when unused |
| `pipe_live` | 2 processes, 4 bytes written, kills, fair | every call returns unless a process waits for itself |
| `kernels` | p2: 2 slots, 3 pids, exits and sleeps, allowances of 1, boost every 2 ticks, turns of 1 dispatch, ring of 1, slow fork; p3: 4 processes, 2 keys of 2 and 1 pages, 4 pages | p2: nobody gets more than his allowance or sinks before it is used up; p3: counts, sharing, freeing |
| `sched_live` | 2 slots, 2 pids, exits and sleeps, allowances of 1, boost every 2 ticks, turns of 2 dispatches, ring of 2, fair | nobody starves |
| `stats` | 3 clients, 2 entries, fair | nobody who has gone is listed but who failed, the interrupted end unless the semaphore is lost |
| `file` | 1 direct and 2 indirect pointers, blocks of 2 bytes, 4 blocks, files of up to 5 bytes, calls of up to 2; plain files unlinked and reopened, checked files damaged in data or pointers, crashes between any two disk writes of a write | contents, failing on damage and only then, no block lost, inode on disk current, free blocks zero, the disk refers to no free block |
| `bufcache` | 2 processes, 2 buffers, 3 sectors, 2 contents, failing reads, a spurious interrupt, fair | refines `BlockStore`; buffers, owners and queue agree; every request comes back |
| `inodes` | 2 processes, 3 inodes, 3 slots, 9 calls on paths of up to 2 elements | cache, users and disk agree; no assertion fails; links never less than names and exact at rest, and then nobody is nameless and unused; some call goes on |
| `parts` | shell: 2 pids, 3 lines; heap: 18 headers, chunks of 6, pages of 2; image: 4 inodes, 7 blocks, 1 direct and 1 indirect pointer, 2 fields damaged; locks: 2 processors, 2 processes, ticks modulo 2; memory: 9 pages of 2 bytes, 3 slots, one table a space; console: ring of 3, indexes modulo 6, 7 keys, 2 readers | the job list; the heap; the verdict of fscheck; critical sections and interrupts; every page in one place; lines of the console |

Why these bounds are enough: two workers are the least with which one can take the
other's wakeup, child or descriptor, and four connections pass twice through a ring of
two.  Four slots hold init, a parent, and two children (or threads) that end in either
order, which is what it takes for a process to leave a zombie to init without waking
init as its own parent; with three slots and four pids a slot is used again.  A pipe of
2 bytes with counters modulo 4 wraps around within 5 bytes, and three processes are a
reader, a writer and a third that forks, closes or competes.  Two slots let one process
of `Sched` overtake another, allowances of 1 make all levels reachable between
boosts, and three pids use a slot again.  For starvation the ring has two slots: its
front may be the other process's pid while that sleeps, has risen or has ended, a pid
may be in both slots, and addq overwrites slots that were not read; turns of two
dispatches let a turn be cut off by a boost. There `SizeCap` loses nothing: on one
processor remq only follows an addq, so `size` is below 0 only when a boost emptied the
ring in between, and 1 stands for all greater values.  A file of one direct and two
indirect blocks passes every branch of bmap and itrunc, four blocks are what it needs at
its largest, and a crash that loses one leaves a disk that fills up.  Calls of two bytes
cross a boundary between blocks, so one call goes through bmap twice, and begin and end
inside a block.  Two keys in `Shm` let one process map in two orders, and four processes
let counts rise and fall while others are inside shmgetat.  Two buffers for three
sectors make bget take buffers from each other; with two processes one holds or waits
while the other takes.  In `Inodes` two processes suffice for each of the windows
between finding and locking, three inodes are a directory, a file and the root, so that
the fourth is refused and numbers are used again; three slots are as many.  The heap has
room for two chunks, side by side or with the program's own memory between, each for a
stack or several blocks of two sizes, so free blocks are split and joined at either
end.  Two damaged fields can cancel out: a link count and an entry, a pointer and a bit.
Two pids and three lines are the least with which a pid comes again while its old job is
listed. Two processors and two processes are what it takes for a lock to be taken on one
processor and released on another while a handler wants it; sleeps of one tick, with
ticks modulo 2, cross the counter's wrap.  Nine pages are too few for three spaces of up
to three pages (each takes a directory, a table and a stack, too), so memory runs out at
every page of sbrk, fork and exec; sizes change by a page and a half, so rounding up
matters.  Seven keys fill a ring of three twice and carry the indexes past their width.

TLC's check for deadlock is on for `Proc`, `sched_live` and `CheckedFile`.  The other
systems may stop: the server exits or has no more connections, programs end (`Pipe`,
`Stats`, `MCParts`, where keys and lines are bounded), the kernel panics (`Inodes`,
`BufCache` without a free buffer), or the model ends at a stated bound (`Shm`, in
`kernels`).  There a liveness property, or `SomeCallGoesOn`, says that nobody waits for
ever.

## Fairness

* `WebServer`: threads and CGI programs that can run are scheduled (weak fairness of
  each).  Nothing is assumed of clients: one that neither lets its request and answer
  come to an end nor goes away is `HeldByClient` or `CgiHeld`, which may happen whenever
  a worker serves, and the property names what such clients can hold up.  That a
  connection comes is not assumed either.  Mutex and condition queues need no more: a
  worker that waits again and again is not needed for another's progress.
* `Proc`: `scheduler()` walks the whole table and so runs every process that stays
  RUNNABLE; as it may become so again and again, strong fairness of `Run` and of the
  rest of a call.  Timer ticks come.  init makes its next call, whichever that is by
  `init.c`: fork, wait, or exit when its fork failed.  It is not assumed that it goes on
  for ever: the properties end where init panics, and where the bound `MaxPid` keeps it
  from a fork (`OutOfPids`).
* `Pipe`: processes run; `p->lock` goes to whoever tries for it again and again (strong
  fairness of acquiring it and of what follows); programs close their ends.
* `Sched`: each processor walks on and gets timer interrupts (weak).
* `BufCache`: the drive ends its command and pending interrupts are taken (weak); a
  process in iderw gets idelock although others hold it again and again (strong).
  Nothing is assumed of programs: they need not give a buffer back.
* `Stats`: the server starts up; a client that tries for the semaphore again and again
  gets it (strong).

## The proofs

TLC checks the instances above; the theorems hold for all values of the constants
that satisfy the named assumptions.

`PartsProofs` about the web server (from `ServerAssumption`: the ring has at least one
slot, there are finitely many workers, and 0 is not a descriptor that accept returns):

* `TypeCorrect`, `RingFifo`, `OneOwner`: `TypeOK`, `RingIsFifo` and
  `DescriptorHasOneOwner` always hold.

The last two are not inductive alone.  That `buffer[filled]` is not one of the
queued slots needs `filled = (used + count) % nbuffers` (`FilledIsTail`); that
accepting a connection does not disturb a queued one needs that queued
descriptors are open (`DescriptorsPresent`), so that the kernel does not give
them out again; that a served descriptor differs from those in the ring follows
because connections are numbered and a served one is at most `taken`.  The
inductive invariant is the conjunction of these with the three properties.

Over that invariant:

* `WakeupsKept`: `NoLostWakeup` always holds.  It counts workers on their way to the
  ring, and the lemmas say how the number of a finite set of workers changes when one
  joins or leaves it.  It is inductive given the types: `Produce` adds a connection and,
  if somebody sleeps, a worker on his way; `Consume` takes one of each.
* `ChildrenSuffice`: `ChildForEveryWaiter` always holds.  A worker that begins to wait
  has forked a child for its own connection, which must be a new one; `ServedOnce` says
  so: a connection has a child only after it was taken, and no connection is served twice.
* `RingImplements`: `Spec => ImplementsFifo`, the server refines `BoundedFifo`.  The
  abstract queue is the connections `taken + 1 .. taken + count`; each step puts the
  next one, takes the first one over to `handed`, leaves both as they are, or is the exit
  of the server, which alone throws the queue away.

`ProcProofs` (from `ProcAssumption`):

* `TypeCorrect`, `PidsUnique`, `ParentsAlive`: `TypeOK`, `PidUnique` and
  `ParentIsAlive` always hold, threads, kills and failing memory included.

The invariant adds `CallersRun` (a process inside fork or clone is RUNNING or
RUNNABLE, so it cannot be collected meanwhile), `FillsEmbryo` (its `np` is an
EMBRYO that is nobody else's `np`, so it stays in its hands until it is
RUNNABLE), and `InitLives` (init never ends, so that it can take abandoned
children).  `Min` of the library is a CHOOSE; the lemma `MinInSet` shows from the
well-foundedness of the naturals that it is a member.

* `LifecycleImplemented`: `Spec => ImplementsLifecycle`, `Proc` refines `Lifecycle`.
  As no two slots in use have the same pid, the phase of a pid is that of its slot, and
  a step of one process is one change of one pid's phase.
* `KilledNamed`: if nobody calls `kill(0)` and no fork fails, `KilledWasNamed` always
  holds.  The invariant adds that no empty slot bears a mark or a pid.

For programs that join their threads before they end (`JoinFirst`):

* `SpacesOrdered`, `SleepersDue`, `ThreadsCounted`: `SpacesInOrder`, `SleeperHasReason`
  and `NumChildCounts` always hold.

The invariant says who shares a space with whom: a thread lives only together with the
creator whose pid and space it names, every other process has a space of its own that is
not its parent's, and whoever is killed or ends has no thread left.  A sleeper's channel
is itself, so the only ones who wake it are its own children and its killer.  That
`num_child` is the number of threads rests on the lemmas about finite sets.

`LockProofs`, about the buffer cache (from `IdeAssumption`: there are finitely many
buffers, `Nobody` and `NoSector` are none; any processes, sectors and contents):

* `BuffersOrdered`: `BuffersInOrder` always holds, failing reads and spurious
  interrupts included.

The invariant adds `Working` (whoever is inside a call has a sector, past bget a
buffer, and the drive works on a sector) and `WokenIsSynced`: the buffer of a process
woken in iderw is synced.  Without it such a process would go back to sleep with its
buffer off the queue; it holds because only ideintr wakes him, the owner, when his
buffer is done, brelse of another buffer does not.  There is a lemma for each action.
The list of buffers is a function onto them, and `ToFrontKeepsAll` shows that brelse
drops none.

Over that invariant:

* `StoreImplemented`: `Spec => ImplementsStore`, the cache refines `BlockStore`.

The mapping asks what the buffers contain, and `DataInv` says it.  A buffer that may be
taken for another sector holds what the disk has, or will have when the drive has ended
the write that a spurious interrupt made ideintr forget (`CleanIsOnDisk`, `OnDisk`).  The
drive works on the head of the queue, in the direction that its flags say
(`HeadIsStarted`), so what ideintr copies is that sector's.  A buffer is DIRTY only while
its owner waits for it (`DirtyIsWritten`).  After a read that failed the first two are
lost, as the code takes the buffer for valid, and `BlockStore` promises nothing any more.

`PipeProofs` (from `PipeAssumption`: there are finitely many processes, and the width
of the counters is a multiple of `PIPESIZE`):

* `FreedUnused`, `EofFinal`: `FreedMeansUnused` and `EofIsFinal` always hold.
* `SleepersHaveReason`: `SleepersWait` always holds.

The first two rest on the reference counts: `ref` of an end is the number of processes
that have its descriptor (`RefsCounted`, over the lemmas about finite sets), whoever is
in a call holds the end that he uses (`CallersHold`), and an end is open until its last
closer has been through pipeclose, of whom there is one (`OneCloses`, `OpenWhileHeld`).
The third is not inductive either: a reader tests, is about to sleep, and sleeps, all
with the lock held, so the invariant says that the lock's holder alone is inside
(`InsideAlone`) and that what he has tested is still so (`Tested`).

* `StreamImplemented`: `Spec => Stream!Spec`, the pipe refines `BoundedFifo`.

A reader is given what the abstract queue hands out (`got`), and only the last pipeclose
may drop what is inside.  Here the number of bytes written is not bounded: the queue's
items are all of `Nat`, where `ImplementsFifo` of the runs has `Byte`.  The invariant
adds that no more bytes are inside than there are slots (`Fits`), so that a writer's
slot is none of those in use; the next slot is the same before and after a counter wraps
around because `PIPESIZE` divides the width.  What the provers do not know of `%` is in
`Numbers`.

`PipeProofs`, about the shared pages (from `ShmAssumption`; any processes and keys, any
number of pages of each):

* `PagesStayInOrder`: `PagesInOrder` of `Shm` always holds unless `Reuse`.

As long as no two processes have raced, `ShmInner` holds: a process inside shmgetat is
alone there with its key, which it does not have yet (`AloneInside`); each page that is
not free is named once, by a key in use or about to be (`TableRight`); a process has
mapped just the pages of its keys, each once, and of a key the first page before the
others (`MappedRight`).  The last is what deallocshm rests on: it goes through the pages
and counts a key down at its first page, which is the last of that key that it sees, so
every page is looked at while its key still counts.  `Done` is what holds in the middle
of the loop (`LoopStep`), `Dealloc` what the loop amounts to.  Without the hypothesis
the theorem is false: a key out of use still names pages that kalloc gives to another,
and checkifshared finds them there.

`SchedProofs` (from `SchedAssumption`; any processors, slots, allowances and ring):

* `TypeCorrect`, `AllowancesKept`: `TypeOK` and `AllowanceKept` always hold, with the
  slow fork and several processors.

The scheduler tests a process's slices, dispatches it, and charges it when it comes
back.  In between nobody else may dispatch it or give its slot away: `RunsAlone`
says that a process runs on one processor, which comes back to the slot's visit,
`LockIsWalk` that the holder of the lock is in the walk, `ForksApart` that two forks
never fill one slot.  Then `KeptEach`, slices never above the allowance and below it
while a processor owes the charge, is inductive.

* `AllowancesUsed`: `Allowances` always holds under `Quiet`.

`Quiet` says that the timer does not hit fork between its stores, or that there is one
processor, `bootcpu`.  It is needed: on a second processor the child is dispatched while
fork still sets its fields, and nothing records that (`torn` is recorded by the timer).
The kernel has one processor (`CPUS := 1`).  The proof adds `Untorn`: who is inside
those stores has the processor, or his child is torn.

`PartsProofs` about five other parts (each from its own assumption):

* `JobsListed`: `JobsAreListed` of `MySh` always holds.  The list's jids increase and
  none is above the count of lines (`JobsOrdered`); a child that lives and was begun in
  the background has an entry with its jid and its pid, any other is waited for or has
  been stopped (`ChildrenKnown`).  An entry whose pid belongs to a later child by now
  does no harm, as the child's own entry has its own jid.
* `PidsAlive`: `PidIsAlive` of `Stats` always holds, with clients that fail, which keep
  the one entry that they have.  Two clients may have the same entry, so that an entry
  with a client's pid is not his alone; it is enough that it is the one that stats_init
  gave him and that he has still to give it back (`StatsInv`).
* `LinesStay`: `LinesKept` of `Console` always holds.  The indexes are those of the
  texts' lengths modulo the counter's width, the texts together fit into the ring, and
  each of their characters is in its place (`ConInv`).  That places do not collide,
  before and after a wrap, is `RemaindersDiffer` of `Numbers`; it needs that the ring's
  size divides the width.

* `MemoryStaysInOrder`: `MemoryInOrder` of `Memory` always holds.  `MemoryInOrder`
  counts the places that pages have, which is not inductive: two wrong places could make
  up for each other. The invariant (`MemInv`) says instead that there are three
  functions of a page, what it is used for, by whom, and where there, that agree with
  the free list, the spaces, the kernel stacks and the calls of setupkvm from both sides
  (`Owned`); they are a bijection from pages to places (`HeldPlaces`).  A step of a call
  changes the functions at the pages it takes or gives back and nowhere else (`Moved`,
  and a lemma for each way to do so).  `SlotsRight` says which slots, spaces and calls
  belong together: a space under construction is nobody's yet, a fork's slot is no other
  fork's, exec is alone in its space.  `SizesRight` says which entries a space has
  within sbrk's and copyuvm's loops: all those below where the loop is, so mappages and
  copyuvm find what they expect, and the way back of allocuvm removes just what it
  added.  `PagesBelow` is the arithmetic of `PGROUNDUP`.

* `HeapStaysInOrder`: `HeapInOrder` of `UserHeap` always holds, from any break, with any
  chunk and page size, and with sbrk called by others in between.  The invariant
  (`HeapInv`) says of each free block that its `ptr` is the next one by address, or base
  after the last (`Follows`), instead of computing it; that blocks do not overlap
  (`Chain`) nor touch (`Gap`); that they share what sbrk gave with the blocks in use
  (`Shared`); and that a free block of size 0 is the header before a lost stack's
  aligned address (`EmptyRight`).  malloc and free walk along the ring from `freep`,
  wherever that is: `ClosedIsAll` and `HopAll` show that as many hops as there are
  blocks come to all of them, so that free finds the block below (`BeforeRight`) and
  malloc finds a block that fits.  All that free does is one `Insert` and up to two
  `Joined` (`FreedIs`), all that malloc does is to take a block out (`Skip`) or to
  shorten one (`Shrunk`); for each there is a lemma that a ring stays a ring and which
  headers come or go.

`LockProofs`, about the spinlocks (from `SpinAssumption`; any processors and slots, any
width of `ticks`):

* `LocksStayInOrder`: `LocksInOrder` of `Spinlock` always holds.

The invariant (`SpinInv`) speaks of the lists of instructions.  Of each place in the
list of each thread, running or not, it says what the rest of the list must be like
(`Sound`): after pushcli comes the exchange, a lock is given back by the same list that
takes it or by the one that the switch hands it to, sched and what follows it have
`ptable.lock` and no other, a handler's code ends with iret and needs no lock of what it
interrupted (`Fine`), and the depth of pushcli is that of the locks held (`Whole`).  Of
a processor it says how `ncli`, `intena`, the interrupt flag and the locks' owners agree
with the list of the thread that it runs (`RunsOk`, `HoldsOk`), and of a thread that
none runs, that it holds `ptable.lock` at the place where it is taken up again
(`ParkedOk`): this is how a lock passes from one thread to another.  `Timely` covers the
time between the test of the ticks and the sleep.  Since each place is sound with what
follows it, an instruction done leaves a sound list, and only what is put in front has
to be looked at: there is a lemma for each call's list (`AcquireFine`, `YieldFine`,
`SleepFine`, `TimerFine`...), one for the steps of acquire and release (`LockStep`), one
for switches (`SwitchStep`), one for the rest (`StillStep`), and one for each action.
That two processors do not spin for each other is `NoCircle`: the exchange for
`tickslock` is nowhere behind that for `ptable.lock`.

`FileProofs` (from `FileAssumption`; any sizes of pointers, blocks, disk and file):

* `ReadsStayRight`, `DiskStaysConsistent`: `ReadsAreRight` and `DiskIsConsistent` always
  hold under `Considered`.

`Considered` says that a checked file is not opened again and that the machine does not
stop inside itrunc.  Without the first the checksums of overwritten blocks are lost,
without the second the inode on disk refers to free blocks; both are in the table below,
and TLC finds them when the constants allow them.  Crashes between any two writes of the
disk at any other stage, damage to data and to pointers of the indirect block, unlinking
and reuse of the inode by a file of either type are included.  The invariant (`FileInv`)
has a part that always holds (`Shape`: types, and what each stage of a call has at hand)
and one that holds until a program goes astray (`Whole`).  That speaks of the words that
the disk has not changed (`Sound`): each names another block, all of them are marked
(`Own`), without a crash no other is (`NoMore`); the inode on disk names some of these
blocks, and all that its size needs (`OnDisk`), so a crash loses nothing that it
promises; a byte that was written is in its block unless damaged (`Data`); the checksum
in a word is wrong just if the block is damaged and not signed (`Sums`), except that of
the block that writei is about to write, which is already that of the new bytes
(`Staged`).  Between balloc's write and that of the indirect block the new block is
marked, zero and nobody's (`Linking`); between bzero and the bitmap it is zero and still
marked (`Cleared`).  `OneByte` shows that one changed byte changes the checksum,
`Places` that the bytes of a call lie in the block and cells that the quotient and
remainder by `BSIZE` say, `CorruptWordKeeps` that a changed pointer disturbs nothing
about the others, `HeldOnce` that words with different blocks are as many as their
blocks.

`InodeProofs` (from `InodesAssumption`: finitely many processes and names, any number of
inodes and slots, any calls):

* `CacheStaysInOrder`: `CacheInOrder` of `Inodes` always holds.
* `AssertionsStayTrue`, `LinksStayNames`: `AssertionsHold` and `LinksAreNames` always hold
  under `NoDotdot`: no path of a call has a `..` in it.

The invariant of the cache (`CacheInv`, theorem `CacheInvHolds`) says what each process
has at hand at each place of its call (`Placed`), that `ref` is the number of pointers
(`Counted`), that an inode has one slot (`NumbersRight`) and `I_BUSY` one holder
(`LocksRight`).  The hard part is iput, which finds that it has the last reference, sets
`I_BUSY`, and gives up `icache.lock` for itrunc and iupdate.  Meanwhile others may still
get a reference by iget: a process that found the number in a directory before the name
was erased.  What holds is that all of those have not locked it yet: `FreedAlone` says
that nobody refers to what is being freed who has locked it before (`Keeps`), nor owes
another iput of it, and `Settled` that an inode which is so kept has a type on the
disk.  `Copied` says that a valid copy is the disk's, but for the moment between iput's
iupdate and the end of its work.  Most steps free no inode and change the references of
one process only; those are first shown to be `Ordinary(p)`, a summary of what such a
step may do, and one lemma (`OrdinaryKeeps`) shows that it is enough. References are
counted by seven cardinalities; `OneMoves` says how one changes when one process moves,
`ReferencesMove` adds them up, `Lone` draws from `ref = 1` that nobody else has a
pointer.

The invariant of the tree (`TreeInv`, theorem `TreeInvHolds`) stands on that of the
cache.  It says that what a call has read of an inode, or found in a directory, is still
so when it acts on it: the type (`TypesRight`), the entry in a parent that it has locked
(`EntryRight`), and that an inode which create has just got from ialloc is empty and
nobody else's (`NewRight`), but for an iput that has freed that very number and has
still to give up its slot (`FreeRight`).  Directories are a tree (`DirsRight`): a
directory has one name, and `..` is where that is.  The heart is `LinksRight`: `nlink`
is at least the names of an inode and the links that calls have counted and not yet
entered, or erased and not yet taken off (`Pending`), and exactly that unless its names
went with a removed directory.  So iput, which frees an inode when its `nlink` is 0,
never frees one that has a name or that link is about to name, and unlink always finds a
link to take off.  By `UnnamedCached` an inode without names is in the cache until iput
frees it, or a removed directory that the `..` of a directory in it counts: create does
not look whether its parent is still there.  There is a lemma for each write of the
disk: `TreeLinkEnter`, `TreeCreateDots`, `TreeUnlinkUndots`, `TreeUnlinkErases`,
`TreeIalloc`, `TreeTruncs`, and so on; `EntriesMove` and `PendingMove` say how the
counts change when one name, or one call, does; a step that writes nothing is dealt with
by `TreeSame`.  `NoDotdot` is needed: a process in a removed directory whose parent was
removed and freed too reaches with `..` an inode that has no type, and the kernel panics
(the table below has the case).  The second path of link has no `..` in any case
(`InodesAssumption`).

Only model-checked: all liveness, and ENABLED (`SomeCallGoesOn`), which are beyond the
prover; `VerdictIsRight` of `FsCheck`, which rests on folds and on walks of a tree that only
induction over data would open.

## What the code does otherwise than it says

All runs pass: where the code breaks a property, the property names the case as an
exception, or a constant, a bound or a guard keeps it out.  These are the cases:

| What happens | Where |
|---|---|
| a thread whose creator has ended loses its address space when a fellow thread is collected | `JoinFirst` |
| `kill(0)` marks an unused slot, and after a fork that failed its pid does; the next process there is born killed | `KilledWasNamed` is checked for other arguments and with enough memory |
| a kill between the test of `killed` and the sleep leaves the process asleep in the pipe until an end is closed | `SleepersWait` is stated for runs without a kill so far |
| a writer killed at a full pipe does not wake the readers of what it wrote | the same |
| a process that reads a pipe while it holds the writing end waits for itself | exception in `EveryCallReturns` |
| an idle processor takes another's process for its own (`CPUS := 1` in the Makefile hides it) | guard of `TimerIdle`; runs have one processor |
| the timer hits fork before the child's slices are set: the child may sink with its allowance unused | `torn`, exception in `AllowanceUsed`, a part of `Allowances` |
| processes inside shmgetat with the same key get different pages and a wrong count | `raced`, exception in `PagesInOrder` |
| a freed page is still found under its old key, whose count then becomes wrong | `Reuse` |
| two clients get the same entry of the table; a client that comes early is told that an unused table is full | reachable in `Stats`, no property about it |
| a client whose setpriority or nanosleep fails exits and leaves its entry in the table | `failed`, exception in `PidIsAlive` |
| SIGINT in stats_init while it holds the semaphore: nobody gets it again | exception in `InterruptedEnds` |
| a client that stops before the empty line keeps a worker spinning; one that stays silent or does not read keeps it waiting; in wait() a worker may be kept by another's client | `HeldOpen`, exception in `EveryConnectionEnds` |
| init exits when its fork finds a full table, and the kernel panics | `Panicked`, exception in `OrphanIsCollected` and `KilledEnds` |
| an overwritten block of a checked file no longer reads after the file is opened again | `Reopens` |
| a partial write makes a damaged block valid | `signed`, exception in `ReadsAreRight` |
| the indirect block has no checksum: a damaged pointer sends reads of one block elsewhere, a read allocates a block where it is 0, and a write goes to whatever block it names | `wild`, `Misled` and `astray`, exceptions in `ReadsAreRight` and `DiskIsConsistent` |
| the checksum is passed to bfree as part of the block number | `Unlinks` |
| a crash inside itrunc leaves an inode that refers to free blocks | `CrashesAt` |
| a buffer whose read has failed becomes VALID with its old contents | `failed`, exception in `ImplementsStore` |
| a file is created in, or linked into, a directory that has been removed meanwhile, and is never freed | `lost`, exception in `LinksAreNames` |
| a directory is made in a directory that has been removed meanwhile: its `..` keeps the removed one, without a name or a user, for ever | `KeepsChild`, exception in `LinksAreNames` |
| chdir("..") in a removed directory whose parent is removed too: panic `ilock: no type` | `Calls` of the run has no such path |
| more inodes in use than slots, or none left on the disk: panic | exception in `AssertionsHold` |
| fscheck takes every name that begins with a dot for `.` or `..` and does not count it; the second entry may have any name that begins with two dots | `Hidden` |
| fscheck does not look at the number in `.`, nor at the type of the root and of a parent | `OddDot`, `OddParent`, `Missed` |
| fscheck reads the words of a directory's indirect block as entries | `LargeDir` |
| fscheck follows addresses and numbers that it has not checked, out of the image and of its arrays | `wild` |
| myw says of a job that it is terminated when it is only stopped (WUNTRACED) | `paused`, exception in `JobsAreListed` |
| a job waited for by myw stays in the list; j, or myw again, may take a new child with its pid for it | reachable in `MySh`; `JobsAreListed` holds all the same |
| thread_join frees the aligned pointer instead of malloc's: the stack is lost | `lost` in `UserHeap` |
| thread_create clears the stack before it looks whether malloc gave one; thread_join frees an unset pointer when join fails | the model stops there |
| setupkvm, when memory runs out, forgets the directory and the tables that it has | `lost` in `Memory`, counted as a place by `MemoryInOrder` |
| sbrk to size 0 frees all pages, returns -1 and leaves `sz` as it was | `emptied`, exception in `MemoryInOrder` |
| two threads of one space are in sbrk, or one in sbrk and one in fork: a page is mapped twice (panic `remap`), or one is copied that has gone (panic `page not present`) | `Racing`, exception in `MemoryInOrder` |
| `myw` without an argument reads beyond the words of its line | not modelled |

## What is not modelled

Components:

* Sorting and its generators, the system call counter: sequential and without state
  that outlives a call, or one counter.
* Keyboard, serial line, boot, devices: registers of hardware and layout.
* Fetching of system calls' arguments: checks without state.
* User programs, tests and tools: no part of a system that could be in a wrong state.

Within the modelled components: the order in which processors see each other's memory,
and their TLBs; what is in a page; loaduvm and copyout; `mknod`, `dup`, directories that
are full; data of requests, files and statistics beyond what the properties need;
`getpinfo`; `stati`; the file table's limit; parsing of the shell's lines; hardware
faults other than a crash, a changed byte, a failed read and an interrupt too
many.  Where a kernel panics the model stops (balloc without a block, freeing a free
block, killing init, no free buffer).  Torn writes of a block are not modelled, the disk
is assumed to write a block or not.

Each project has its own copy of the kernel, and most files are the same in all five.
A definition names the lines of one copy, the one of the project that changes or rests
on that file, so that four fifths of the kernel's lines are copies that no definition
names although the same definition stands for them.  Most of the other lines are the
programs and tests of the course's xv6, its headers and its boot code.

## Plan

Done: the web server with its abstract queue, processes, pipes, the scheduler, shared
pages, statistics, checked files, the buffer cache over the disk with its abstract
store, inodes and directories, the shell, the allocator, the checker, spinlocks, memory,
the console; the proofs above.  Left, in this order:

1. The file table with dup, and directories that are full; crashes inside itrunc over
   `Inodes`.
2. Paths with `..` in the proofs about `Inodes`: what still holds in removed directories.
3. Each of the three parts of the kernel in `MCParts` in a run of its own, with larger
   instances, and liveness of `Spinlock` on a fair processor.
