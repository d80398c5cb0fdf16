--------------------------------- MODULE Shm --------------------------------
(***************************************************************************)
(* p3/xv6/kernel/vm.c, with fork, wait and exec of proc.c and exec.c:      *)
(* memory pages shared by key.                                             *)
(*                                                                         *)
(* The table shm_pa.keys counts, for each key, the processes that use it   *)
(* and names its physical pages; it is written without a lock.  A process  *)
(* has the shared pages at the top of its address space, one below the     *)
(* other in the order in which it mapped them: a sequence of pages.        *)
(*                                                                         *)
(* Abstracted: the private part of an address space, the page tables, and  *)
(* the order of the free list (kalloc returns any free page).              *)
(***************************************************************************)
EXTENDS Integers, FiniteSets, Sequences, SequencesExt

CONSTANTS Process, Init1,  \* processes, and the first of them
          Key,             \* 0 .. 7 in the code
          MaxPages,        \* pages of a key (4)
          Page, NoPage,    \* physical pages, and a null pointer
          Reuse            \* may kalloc return a page that another key names
                           \* and no longer uses?

ASSUME ShmAssumption ==
  /\ Init1 \in Process /\ IsFiniteSet(Process) /\ Key \subseteq Nat
  /\ MaxPages \in Nat \ {0} /\ NoPage \notin Page
  /\ Reuse \in BOOLEAN

Index  == 0 .. MaxPages - 1

VARIABLES
  ref_count, num_pages, page_ptr,  \* shm_pa.keys
  free,                            \* pages on the free list
  life,                           \* "unborn", "alive" or "zombie"
  mapped,                          \* the shared pages of each process
  shm_va,                          \* the keys that it has an address for
  call,                            \* the shmgetat that a process is inside of
  raced                            \* history: keys for which a process entered
                                   \* shmgetat, or gave up, while another was in it

shmvars == << ref_count, num_pages, page_ptr, free, life, mapped, shm_va, call, raced >>

NoCall == << >>

\* shm_init
ShmInit ==
  /\ ref_count = [k \in Key |-> 0] /\ num_pages = [k \in Key |-> 0]
  /\ page_ptr = [k \in Key |-> [i \in Index |-> NoPage]]
  /\ free = Page
  /\ life = [p \in Process |-> IF p = Init1 THEN "alive" ELSE "unborn"]
  /\ mapped = [p \in Process |-> << >>]
  /\ shm_va = [p \in Process |-> {}]
  /\ call = [p \in Process |-> NoCall]
  /\ raced = {}

\* (Bound: a process begins nothing more when there has been a race.)
Ready(p) == life[p] = "alive" /\ call[p] = NoCall /\ raced = {}

\* The keys that some process is inside shmgetat with.
InUse == {call[p][2] : p \in {q \in Process : call[q] # NoCall}}
Races(keys) == raced' = raced \cup (keys \cap InUse)

---------------------------------------------------------------------------
(* shmgetat *)

\* What kalloc may return for key k.
Named(k) == {page_ptr[j][i] : j \in Key \ {k}, i \in Index}
Allocatable(k) == IF Reuse THEN free ELSE free \ Named(k)

Unused(k) == ref_count[k] = 0

\* The programs agree on the number of pages of a key: in the model a number
\* that depends on the key, so that keys of several sizes are at work together.
PagesOf(k) == IF MaxPages > k THEN MaxPages - k ELSE 1

\* shmgetat of a key that the process already has only returns the address.
\* Others run between the test of ref_count and the rest, and in the rest.
ShmTest(p, k) ==
  /\ Ready(p) /\ k \notin shm_va[p]
  /\ Races({k})
  /\ call' = [call EXCEPT ![p] = << IF Unused(k) THEN "alloc" ELSE "map", k >>]
  /\ UNCHANGED << ref_count, num_pages, page_ptr, free, life, mapped, shm_va >>

ShmAlloc(p) ==
  /\ call[p] # NoCall /\ call[p][1] = "alloc"
  /\ LET k == call[p][2] IN
       /\ call' = [call EXCEPT ![p] = << "map", k >>]
       /\ \E new \in [0 .. PagesOf(k) - 1 -> Allocatable(k)] :
            /\ \A i, j \in DOMAIN new : new[i] = new[j] => i = j
            /\ free' = free \ {new[i] : i \in DOMAIN new}
            /\ page_ptr' = [page_ptr EXCEPT ![k] =
                  [i \in Index |-> IF i \in DOMAIN new THEN new[i] ELSE @[i]]]
  /\ UNCHANGED << ref_count, num_pages, life, mapped, shm_va, raced >>

PagesIn(k) == [i \in 1 .. PagesOf(k) |-> page_ptr[k][i - 1]]

ShmMap(p) ==
  /\ call[p] # NoCall /\ call[p][1] = "map"
  /\ LET k == call[p][2] IN
       /\ ref_count' = [ref_count EXCEPT ![k] = @ + 1]
       /\ num_pages' = [num_pages EXCEPT ![k] = PagesOf(k)]
       /\ mapped' = [mapped EXCEPT ![p] = @ \o PagesIn(k)]
       /\ shm_va' = [shm_va EXCEPT ![p] = @ \cup {k}]
  /\ call' = [call EXCEPT ![p] = NoCall]
  /\ UNCHANGED << page_ptr, free, life, raced >>

---------------------------------------------------------------------------
(* fork, exit, wait and exec *)

Counted_No(p) == {}                       \* mutated: fork does not count
Counted(p) == shm_va[p]

fork(p, q) ==
  /\ Ready(p) /\ life[q] = "unborn"
  /\ life' = [life EXCEPT ![q] = "alive"]
  /\ mapped' = [mapped EXCEPT ![q] = mapped[p]]
  /\ shm_va' = [shm_va EXCEPT ![q] = shm_va[p]]
  /\ ref_count' = [k \in Key |-> IF k \in Counted(p) THEN ref_count[k] + 1
                                                    ELSE ref_count[k]]
  /\ UNCHANGED << num_pages, page_ptr, free, call, raced >>

exit(p) ==
  /\ Ready(p) /\ p # Init1
  /\ life' = [life EXCEPT ![p] = "zombie"]
  /\ UNCHANGED << ref_count, num_pages, page_ptr, free, mapped, shm_va, call, raced >>

\* checkifshared: the first key and index under which the table names page pg,
\* keys that nobody uses any more included.
Naming(pg) == {ki \in Key \X Index : /\ ki[2] < num_pages[ki[1]]
                                     /\ page_ptr[ki[1]][ki[2]] = pg}
FirstOf(S) == CHOOSE a \in S : \A b \in S :
                a[1] < b[1] \/ (a[1] = b[1] /\ a[2] <= b[2])

LastUser_Never(n) == n = 0                \* mutated: the last user frees nothing
LastUser(n) == n = 1

\* m is the pair of ref_count and free so far.
checkifshared(m, pg) ==
  IF Naming(pg) = {} THEN m
  ELSE LET ki == FirstOf(Naming(pg))
           k  == ki[1] IN
       << IF ki[2] = 0 THEN [m[1] EXCEPT ![k] = @ - 1] ELSE m[1],
          IF LastUser(m[1][k]) THEN m[2] \cup {pg} ELSE m[2] >>

\* deallocshm: from the lowest address up, so from the last page mapped.
deallocshm(p) ==
  LET n == Len(mapped[p])
      m[k \in 0 .. n] == IF k = 0 THEN << ref_count, free >>
                         ELSE checkifshared(m[k - 1], mapped[p][n + 1 - k])
  IN  m[n]

freevm(p) ==
  /\ ref_count' = deallocshm(p)[1] /\ free' = deallocshm(p)[2]
  /\ Races(shm_va[p])
  /\ mapped' = [mapped EXCEPT ![p] = << >>]
  /\ shm_va' = [shm_va EXCEPT ![p] = {}]

wait(p, q) ==
  /\ Ready(p) /\ life[q] = "zombie"
  /\ freevm(q)
  /\ life' = [life EXCEPT ![q] = "unborn"]
  /\ UNCHANGED << num_pages, page_ptr, call >>

exec(p) ==
  /\ Ready(p) /\ shm_va[p] # {}
  /\ freevm(p)
  /\ UNCHANGED << num_pages, page_ptr, life, call >>

ShmNext == \E p \in Process :
  \/ \E k \in Key : ShmTest(p, k)
  \/ ShmAlloc(p) \/ ShmMap(p)
  \/ \E q \in Process : fork(p, q) \/ wait(p, q)
  \/ exit(p) \/ exec(p)

ShmSpec == ShmInit /\ [][ShmNext]_shmvars

---------------------------------------------------------------------------
(* Properties. *)

RefCountIsUsers ==
  \A k \in Key : ref_count[k] = Cardinality({p \in Process : k \in shm_va[p]})

SeeTheSame ==
  \A p \in Process : \A k \in shm_va[p] : \A i \in 0 .. num_pages[k] - 1 :
     page_ptr[k][i] \in Range(mapped[p])

FreeMeansUnused ==
  /\ \A p \in Process : \A i \in DOMAIN mapped[p] : mapped[p][i] \notin free
  /\ \A pg \in Page \ free : \E k \in Key : \E i \in Index :
       page_ptr[k][i] = pg /\ ((ref_count[k] > 0 /\ i < num_pages[k]) \/ k \in InUse)

\* ref_count is the "Number of processes accessing this memory" (sh_phy_mem in
\* proc.h): what shm_refcount returns, and what decides when pages are freed.
\* Processes that use a key see the same pages ("facilitate different processes
\* to share memory pages", p3/README); no process can reach a page that kalloc
\* may give to somebody else; and the last user gives every page back: a page
\* that is not free belongs to a key in use (freevm in wait and exec) - unless
\* one process has entered shmgetat with a key, or given the key up, while
\* another was inside it with the same key: nothing keeps them apart.
PagesInOrder == raced = {} => RefCountIsUsers /\ SeeTheSame /\ FreeMeansUnused
=============================================================================
