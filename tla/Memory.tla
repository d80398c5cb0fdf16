------------------------------- MODULE Memory -------------------------------
(***************************************************************************)
(* p4/xv6/kernel: pages of kalloc.c, address spaces of vm.c, and growproc, *)
(* fork, clone and exec, which make, change and copy them, while memory    *)
(* runs out in any of them.  An address space is named by the page of its  *)
(* directory.                                                              *)
(*                                                                         *)
(* The user's part of a space lies below the first table's reach, which    *)
(* setupkvm fills in, so mappages needs no further table: it fails only    *)
(* inside setupkvm.  An iteration of a loop that allocates is a step, as   *)
(* others may take the last page in between; pages are freed in one.       *)
(***************************************************************************)
EXTENDS Integers, Sequences, FiniteSets, FiniteSetsExt, Functions

CONSTANTS Frame,     \* pages of physical memory
          NTables,   \* page tables that setupkvm makes
          PGSIZE, USERTOP,
          Width,     \* sizes are counted modulo Width (2^32)
          Slots,     \* slots of ptable; the least is init's
          Sbrk,      \* bound: what sbrk is called with
          Images     \* bound: sizes of programs, with their stack

ASSUME MemoryAssumption ==
  /\ Frame \subseteq Nat \ {0} /\ IsFiniteSet(Frame) /\ NTables \in Nat
  /\ Frame # {} /\ Min(Frame) .. Min(Frame) + 2 + NTables \subseteq Frame  \* init's pages
  /\ Slots \subseteq Nat /\ Slots # {}
  /\ PGSIZE \in Nat \ {0} /\ USERTOP \in Nat /\ PGSIZE <= USERTOP
  /\ Width \in Nat /\ USERTOP < Width
  /\ Sbrk \subseteq Int /\ Images \subseteq 1 .. USERTOP

VARIABLES freelist, \* kmem: the pages that are free
          spaces,   \* directory -> its tables, and the page at each address
          kstack,   \* each slot's kernel stack, 0: the slot is unused
          pgdir,    \* each slot's space, 0: not yet any
          sz,       \* its size
          thread,   \* has clone made it?
          call,     \* what it is doing in the kernel
          lost,     \* history: pages that setupkvm has lost
          twice,    \* history: was a page freed that was free?
          stopped   \* has the kernel panicked?

tables   == << freelist, spaces, lost, twice >>
slotvars == << kstack, pgdir, sz, thread >>
memvars  == << tables, slotvars, call, stopped >>

NoCall == [op |-> "none"]
InitSlot == Min(Slots)
Pages(size) == (size + PGSIZE - 1) \div PGSIZE

Extended(fun, x, y) == [u \in DOMAIN fun \cup {x} |-> IF u = x THEN y ELSE fun[u]]
Space(tabs, map) == [tables |-> tabs, map |-> map, emptied |-> FALSE]

\* init runs in one page.
MemInit ==
  LET d == Min(Frame)
      k == d + 1
  IN  /\ spaces = Extended(<< >>, d, Space(d + 3 .. d + 2 + NTables, Extended(<< >>, 0, d + 2)))
      /\ freelist = Frame \ d .. d + 2 + NTables
      /\ kstack = [p \in Slots |-> IF p = InitSlot THEN k ELSE 0]
      /\ pgdir = [p \in Slots |-> IF p = InitSlot THEN d ELSE 0]
      /\ sz = [p \in Slots |-> IF p = InitSlot THEN PGSIZE ELSE 0]
      /\ thread = [p \in Slots |-> FALSE]
      /\ call = [p \in Slots |-> NoCall]
      /\ lost = {} /\ twice = FALSE /\ stopped = FALSE

---------------------------------------------------------------------------
(* kalloc.c, and the parts of vm.c. *)

\* kalloc gives the least free page: which one it is makes no difference.
Kalloc == Min(freelist)
NoPage == freelist = {}
Takes(page) == freelist' = freelist \ {page} /\ UNCHANGED << lost, twice >>
Kfree(pages) ==
  /\ freelist' = freelist \cup pages
  /\ twice' = (twice \/ pages \cap freelist # {})
  /\ UNCHANGED lost

\* mappages
Mapped(d, at) == at \div PGSIZE \in DOMAIN spaces[d].map
Map(d, at, page) ==
  spaces' = [spaces EXCEPT ![d].map = Extended(@, at \div PGSIZE, page)]

\* deallocuvm: the entries from newsz up to oldsz.
Entries(d, oldsz, newsz) ==
  {v \in DOMAIN spaces[d].map : v >= Pages(newsz) /\ v * PGSIZE < oldsz}
Unmap(d, vs) ==
  [spaces EXCEPT ![d].map = Restrict(@, DOMAIN @ \ vs)]
PagesAt(d, vs) == {spaces[d].map[v] : v \in vs}

\* freevm
AllOf(d) == {d} \cup spaces[d].tables \cup PagesAt(d, DOMAIN spaces[d].map)
SpacesBut(ds) == Restrict(spaces, DOMAIN spaces \ ds)

StopIn(p) ==
  stopped' = TRUE /\ UNCHANGED << tables, slotvars, call >>
Returns(p) == call' = [call EXCEPT ![p] = NoCall]
GoesOn(p)  == call' = [call EXCEPT ![p].at = @ + PGSIZE]

\* A process in user mode; without pages it can only fault and end.
Runs(p) ==
  /\ pgdir[p] # 0 /\ call[p] = NoCall
  /\ ~spaces[pgdir[p]].emptied

---------------------------------------------------------------------------
(* growproc *)

NewSize(p, n) == (sz[p] + n) % Width

\* Calls that change nothing are left out: allocuvm beyond USERTOP, sizes
\* that wrap around.
BeginSbrk(p, n) ==
  /\ Runs(p)
  /\ IF n > 0 THEN NewSize(p, n) <= USERTOP /\ NewSize(p, n) >= sz[p]
              ELSE NewSize(p, n) < sz[p]
  /\ call' = [call EXCEPT ![p] =
       [op |-> "sbrk", old |-> sz[p], new |-> NewSize(p, n),
        at |-> Pages(sz[p]) * PGSIZE]]
  /\ UNCHANGED << tables, slotvars, stopped >>

\* An iteration of allocuvm.  When memory is out it frees what it got.
RolledBack_Nothing(p) == {}    \* mutated: deallocuvm's sizes are swapped
RolledBack(p) == Entries(pgdir[p], call[p].new, call[p].old)

Grow(p) ==
  /\ call[p].op = "sbrk" /\ call[p].new > call[p].old /\ call[p].at < call[p].new
  /\ IF NoPage
     THEN /\ Kfree(PagesAt(pgdir[p], RolledBack(p)))
          /\ spaces' = Unmap(pgdir[p], RolledBack(p))
          /\ Returns(p) /\ UNCHANGED << slotvars, stopped >>
     ELSE IF Mapped(pgdir[p], call[p].at)
     THEN StopIn(p)
     ELSE /\ Takes(Kalloc) /\ Map(pgdir[p], call[p].at, Kalloc)
          /\ GoesOn(p) /\ UNCHANGED << slotvars, stopped >>

\* deallocuvm.  A new size of 0 is taken for a failure: sz stays.
Shrink(p) ==
  LET d  == pgdir[p]
      vs == Entries(d, call[p].old, call[p].new)
  IN  /\ call[p].op = "sbrk" /\ call[p].new < call[p].old
      /\ Kfree(PagesAt(d, vs))
      /\ spaces' = [Unmap(d, vs) EXCEPT ![d].emptied = call[p].new = 0]
      /\ IF call[p].new = 0 THEN Returns(p)
         ELSE call' = [call EXCEPT ![p].old = call[p].new]
      /\ UNCHANGED << slotvars, stopped >>

\* proc->sz, and that of all who share the space.
SameSpace_Self(p) == {p}    \* mutated: the other threads' sizes stay
SameSpace(p) == {q \in Slots : pgdir[q] = pgdir[p]}

EndSbrk(p) ==
  /\ call[p].op = "sbrk" /\ call[p].new >= call[p].old /\ call[p].at >= call[p].new
  /\ sz' = [q \in Slots |-> IF q \in SameSpace(p) THEN call[p].new ELSE sz[q]]
  /\ Returns(p)
  /\ UNCHANGED << tables, kstack, pgdir, thread, stopped >>

---------------------------------------------------------------------------
(* fork, clone, exec *)

Unused == {p \in Slots : kstack[p] = 0}

\* allocproc has a slot and a page for its stack, and setupkvm begins.
BeginFork(p) ==
  /\ Runs(p) /\ Unused # {} /\ ~NoPage
  /\ Takes(Kalloc) /\ kstack' = [kstack EXCEPT ![Min(Unused)] = Kalloc]
  /\ call' = [call EXCEPT ![p] =
       [op |-> "fork", np |-> Min(Unused), got |-> << >>, at |-> 0, size |-> sz[p]]]
  /\ UNCHANGED << spaces, pgdir, sz, thread, stopped >>

\* The new thread has the creator's size; when sbrk changes it meanwhile, that
\* is a race, too, and left out.
Clone(p) ==
  /\ Runs(p) /\ Unused # {} /\ ~NoPage
  /\ \A q \in SameSpace(p) : call[q].op # "sbrk"
  /\ Takes(Kalloc) /\ kstack' = [kstack EXCEPT ![Min(Unused)] = Kalloc]
  /\ pgdir' = [pgdir EXCEPT ![Min(Unused)] = pgdir[p]]
  /\ sz' = [sz EXCEPT ![Min(Unused)] = sz[p]]
  /\ thread' = [thread EXCEPT ![Min(Unused)] = TRUE]
  /\ UNCHANGED << spaces, call, stopped >>

\* Programs join their threads before exec.
BeginExec(p, size) ==
  /\ Runs(p) /\ SameSpace(p) = {p}
  /\ call' = [call EXCEPT ![p] =
       [op |-> "exec", got |-> << >>, at |-> 0, size |-> size]]
  /\ UNCHANGED << tables, slotvars, stopped >>

Builds(p) == call[p].op \in {"fork", "exec"}
New(p) == call[p].got[1]
Ready(p) == Len(call[p].got) = 1 + NTables

\* A fork that fails gives back the stack.
StackBack(p) == IF call[p].op = "fork" THEN {kstack[call[p].np]} ELSE {}
NoStack(p) ==
  IF call[p].op = "fork" THEN [kstack EXCEPT ![call[p].np] = 0] ELSE kstack

\* The next page of setupkvm: the directory, then the tables.  When there is
\* none it returns 0 and forgets those that it has.
Setupkvm(p) ==
  /\ Builds(p) /\ ~Ready(p)
  /\ IF NoPage
     THEN /\ lost' = lost \cup Range(call[p].got)
          /\ freelist' = freelist \cup StackBack(p) /\ kstack' = NoStack(p)
          /\ Returns(p) /\ UNCHANGED << spaces, twice >>
     ELSE LET got == Append(call[p].got, Kalloc) IN
          /\ Takes(Kalloc) /\ call' = [call EXCEPT ![p].got = got]
          /\ spaces' = IF Len(got) = 1 + NTables
                       THEN Extended(spaces, got[1], Space(Range(Tail(got)), << >>))
                       ELSE spaces
          /\ UNCHANGED kstack
  /\ UNCHANGED << pgdir, sz, thread, stopped >>

\* An iteration of copyuvm, or of exec's allocuvm; freevm when memory is out.
Build(p) ==
  /\ Builds(p) /\ Ready(p) /\ call[p].at < call[p].size
  /\ IF call[p].op = "fork" /\ ~Mapped(pgdir[p], call[p].at)
     THEN StopIn(p)
     ELSE IF NoPage
     THEN /\ Kfree(AllOf(New(p)) \cup StackBack(p)) /\ kstack' = NoStack(p)
          /\ spaces' = SpacesBut({New(p)})
          /\ Returns(p) /\ UNCHANGED << pgdir, sz, thread, stopped >>
     ELSE /\ Takes(Kalloc) /\ Map(New(p), call[p].at, Kalloc)
          /\ GoesOn(p) /\ UNCHANGED << slotvars, stopped >>

\* fork reads the parent's size once more.
EndFork(p) ==
  LET np == call[p].np IN
  /\ call[p].op = "fork" /\ Ready(p) /\ call[p].at >= call[p].size
  /\ pgdir' = [pgdir EXCEPT ![np] = New(p)]
  /\ sz' = [sz EXCEPT ![np] = sz[p]]
  /\ thread' = [thread EXCEPT ![np] = FALSE]
  /\ Returns(p) /\ UNCHANGED << tables, kstack, stopped >>

EndExec(p) ==
  /\ call[p].op = "exec" /\ Ready(p) /\ call[p].at >= call[p].size
  /\ pgdir' = [pgdir EXCEPT ![p] = New(p)]
  /\ sz' = [sz EXCEPT ![p] = call[p].size]
  /\ Kfree(AllOf(pgdir[p])) /\ spaces' = SpacesBut({pgdir[p]})
  /\ Returns(p) /\ UNCHANGED << kstack, thread, stopped >>

\* exit, and wait or join by the parent (Proc): a process ends after its
\* threads, and its space with it.
End(p) ==
  /\ p # InitSlot /\ pgdir[p] # 0 /\ call[p] = NoCall
  /\ thread[p] \/ SameSpace(p) = {p}
  /\ IF thread[p]
     THEN Kfree({kstack[p]}) /\ UNCHANGED spaces
     ELSE Kfree({kstack[p]} \cup AllOf(pgdir[p])) /\ spaces' = SpacesBut({pgdir[p]})
  /\ kstack' = [kstack EXCEPT ![p] = 0] /\ pgdir' = [pgdir EXCEPT ![p] = 0]
  /\ sz' = [sz EXCEPT ![p] = 0] /\ thread' = [thread EXCEPT ![p] = FALSE]
  /\ UNCHANGED << call, stopped >>

\* sbrk in one thread while another is inside sbrk or fork: both read and
\* change sz and the entries, without a lock.  The model ends there.
Racing ==
  \E p, q \in Slots :
    /\ p # q /\ pgdir[p] # 0 /\ pgdir[p] = pgdir[q]
    /\ call[p].op = "sbrk" /\ call[q].op # "none"

MemNext ==
  /\ ~stopped /\ ~Racing
  /\ \E p \in Slots :
       \/ \E n \in Sbrk : BeginSbrk(p, n)
       \/ Grow(p) \/ Shrink(p) \/ EndSbrk(p)
       \/ BeginFork(p) \/ Clone(p) \/ \E size \in Images : BeginExec(p, size)
       \/ Setupkvm(p) \/ Build(p) \/ EndFork(p) \/ EndExec(p) \/ End(p)

---------------------------------------------------------------------------
(* Properties. *)

\* Every page with each place that has it.
FreePlaces == {<< "free", 0, 0, f >> : f \in freelist}
LostPlaces == {<< "lost", 0, 0, f >> : f \in lost}
DirPlaces == {<< "dir", d, 0, d >> : d \in DOMAIN spaces}
TablePlaces ==
  UNION {{<< "table", d, 0, f >> : f \in spaces[d].tables} : d \in DOMAIN spaces}
UserPlaces ==
  UNION {{<< "user", d, v, spaces[d].map[v] >> : v \in DOMAIN spaces[d].map}
           : d \in DOMAIN spaces}
StackPlaces == {<< "stack", p, 0, kstack[p] >> : p \in Slots \ Unused}
SetupPlaces ==
  UNION {{<< "setup", p, 0, f >> : f \in Range(call[p].got)}
           : p \in {q \in Slots : Builds(q) /\ ~Ready(q)}}
Held ==
  FreePlaces \cup LostPlaces \cup DirPlaces \cup TablePlaces \cup UserPlaces
    \cup StackPlaces \cup SetupPlaces

\* While memory runs out in any call, no page is lost, in two places, or freed
\* twice - those excepted that setupkvm forgets when it fails; a process has
\* the pages below its size and no others, its threads too, and no assertion
\* of mappages and copyuvm fails (allocuvm with its way back, copyuvm,
\* growproc, exec).  Not after sbrk has given away the last page, and not
\* when it meets another call of its space.
MemoryInOrder ==
  ~Racing =>
    /\ ~stopped /\ ~twice
    /\ Cardinality(Held) = Cardinality(Frame)
    /\ {h[4] : h \in Held} = Frame
    /\ \A p \in Slots :
         /\ pgdir[p] # 0
         /\ ~spaces[pgdir[p]].emptied
         /\ \A q \in SameSpace(p) : call[q].op # "sbrk"
         => DOMAIN spaces[pgdir[p]].map = 0 .. Pages(sz[p]) - 1
=============================================================================
