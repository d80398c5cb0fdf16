------------------------------ MODULE UserHeap ------------------------------
(***************************************************************************)
(* p4/xv6/user/umalloc.c and thread.c: the allocator of a user program,    *)
(* and the stacks that thread_create takes from it and thread_join gives   *)
(* back.  Memory is counted in Headers.  The headers of the blocks on the  *)
(* ring of free blocks are the function node; base is the one at 0.  There *)
(* is no lock: one thread at a time calls malloc and free.                 *)
(***************************************************************************)
EXTENDS Integers, FiniteSets, FiniteSetsExt

CONSTANTS Chunk,     \* the least that morecore asks for (4096)
          Page,      \* Headers in a page (512)
          Start,     \* where the heap begins
          MaxBrk,    \* bound: memory that sbrk can give
          Wanted     \* bound: Headers (less one) that the program asks for

ASSUME HeapAssumption ==
  Start \in Nat \ {0} /\ Chunk \in Nat \ {0} /\ Page \in Nat \ {0} /\ Wanted \subseteq Nat

VARIABLES node,  \* ring: [ptr, size] of each free block, and of base
          freep, \* header where the next search begins; -1: no call yet
          brk,   \* end of the process's memory
          live,  \* blocks in use: size and the pointer that the program has
          core   \* history: the Headers that morecore has had from sbrk

heapvars == << node, freep, brk, live, core >>

Block(s, p, u) == [size |-> s, given |-> p, use |-> u]

HeapInit ==
  /\ node = << >> /\ freep = -1 /\ brk = Start
  /\ live = << >> /\ core = {}

\* A heap as one value; the k-th block from freep.
Heap == [node |-> node, freep |-> freep]
SetHeap(h) == node' = h.node /\ freep' = h.freep

Hop(h) ==
  LET hop[k \in 0 .. Cardinality(DOMAIN h.node)] ==
        IF k = 0 THEN h.freep ELSE h.node[hop[k - 1]].ptr
  IN  hop

With(f, a, v) == [x \in DOMAIN f \cup {a} |-> IF x = a THEN v ELSE f[x]]
Without(f, a) == [x \in DOMAIN f \ {a} |-> f[x]]

---------------------------------------------------------------------------
(* free *)

\* The first block p, from freep, between which and whose successor bp lies,
\* or after which the addresses begin again.
Between(h, p, bp) ==
  LET q == h.node[p].ptr
  IN  \/ bp > p /\ bp < q
      \/ p >= q /\ (bp > p \/ bp < q)

Before(h, bp) ==
  LET hop  == Hop(h)
      here == {k \in DOMAIN hop : Between(h, hop[k], bp)}
  IN  hop[Min(here)]

Touches_Never(a, size, b) == FALSE    \* mutated: blocks are not joined
Touches(a, size, b) == a + size = b

Freed(h, bp, size) ==
  LET p  == Before(h, bp)
      q  == h.node[p].ptr
      up == IF Touches(bp, size, q)
            THEN [node |-> Without(h.node, q),
                  head |-> [ptr |-> h.node[q].ptr, size |-> size + h.node[q].size]]
            ELSE [node |-> h.node, head |-> [ptr |-> q, size |-> size]]
  IN  [node  |-> IF Touches(p, up.node[p].size, bp)
                 THEN With(up.node, p, [ptr  |-> up.head.ptr,
                                        size |-> up.node[p].size + up.head.size])
                 ELSE With(With(up.node, p, [up.node[p] EXCEPT !.ptr = bp]),
                           bp, up.head),
       freep |-> p]

---------------------------------------------------------------------------
(* malloc *)

\* The first call makes base a ring of one block without memory.
Begun ==
  IF freep = -1 THEN [node |-> [a \in {0} |-> [ptr |-> 0, size |-> 0]], freep |-> 0]
                ELSE Heap

\* Places of the ring, from freep's successor to freep, with room for n.
Fits(h, n) ==
  {k \in DOMAIN Hop(h) \ {0} : h.node[Hop(h)[k]].size >= n}

\* A block with more room gives its end.
Cut(h, n) ==
  LET k    == Min(Fits(h, n))
      prev == Hop(h)[k - 1]
      p    == Hop(h)[k]
      size == h.node[p].size
  IN  IF size = n
      THEN [heap  |-> [node  |-> Without([h.node EXCEPT ![prev].ptr = h.node[p].ptr], p),
                       freep |-> prev],
            block |-> p]
      ELSE [heap  |-> [node  |-> [h.node EXCEPT ![p].size = size - n],
                       freep |-> prev],
            block |-> p + size - n]

More(n) == IF n < Chunk THEN Chunk ELSE n

\* thread_create aligns its stack, and keeps the aligned pointer only.
Aligned(p) == IF (p % Page) = 0 THEN p ELSE p + (Page - (p % Page))

Pointer(use, p) == IF use = "block" THEN p ELSE Aligned(p)

\* malloc of n Headers with the block's own: the block is added to live with
\* the pointer that the caller makes of malloc's.
Allocated(n, use) ==
  \/ /\ Fits(Begun, n) # {}
     /\ LET c == Cut(Begun, n) IN
          /\ SetHeap(c.heap)
          /\ live' = With(live, c.block, Block(n, Pointer(use, c.block + 1), use))
     /\ UNCHANGED << brk, core >>
  \/ /\ Fits(Begun, n) = {} /\ brk + More(n) <= MaxBrk
     /\ LET c == Cut(Freed(Begun, brk, More(n)), n) IN
          /\ SetHeap(c.heap)
          /\ live' = With(live, c.block, Block(n, Pointer(use, c.block + 1), use))
     /\ brk' = brk + More(n) /\ core' = core \cup (brk .. brk + More(n) - 1)

\* malloc returns 0: sbrk has no more.
NoMemory(n) ==
  /\ Fits(Begun, n) = {} /\ brk + More(n) > MaxBrk
  /\ SetHeap(Begun) /\ UNCHANGED << brk, live, core >>

Malloc(nbytes) ==
  Allocated(nbytes + 1, "block") \/ NoMemory(nbytes + 1)

Free(b) ==
  /\ live[b].use = "block"
  /\ SetHeap(Freed(Heap, b, live[b].size))
  /\ live' = Without(live, b)
  /\ UNCHANGED << brk, core >>

\* The program calls sbrk itself: its heap is not in one piece any more.
OwnSbrk ==
  /\ brk < MaxBrk /\ brk' = brk + 1
  /\ UNCHANGED << node, freep, live, core >>

---------------------------------------------------------------------------
(* thread.c *)

\* When malloc fails, memset has cleared the program before the pointer is
\* tested; the model goes no further there.  When clone fails nobody frees the
\* stack.
ThreadCreate ==
  \/ Allocated(2 * Page + 1, "stack")
  \/ Allocated(2 * Page + 1, "lost")

\* join gives the aligned pointer.  If it is not malloc's, the header before
\* it is a word of the stack that memset has cleared and the thread's frames,
\* which are above, leave alone: size 0.  The block is lost then.
ThreadJoin(b) ==
  /\ live[b].use = "stack"
  /\ IF live[b].given = b + 1
     THEN /\ SetHeap(Freed(Heap, b, live[b].size))
          /\ live' = Without(live, b)
     ELSE /\ SetHeap(Freed(Heap, live[b].given - 1, 0))
          /\ live' = [live EXCEPT ![b].use = "lost"]
  /\ UNCHANGED << brk, core >>

HeapNext ==
  \/ \E n \in Wanted : Malloc(n)
  \/ \E b \in DOMAIN live : Free(b) \/ ThreadJoin(b)
  \/ OwnSbrk \/ ThreadCreate

---------------------------------------------------------------------------
(* Properties. *)

\* The ring goes through the free blocks in the order of their addresses and
\* back to base; no two free blocks touch; and free blocks, blocks in use and
\* lost stacks share all that morecore had, without overlap - headers of size
\* 0 inside lost stacks included.
HeapInOrder ==
  LET free   == DOMAIN node
      cells(a, n) == a .. a + n - 1
      blocks == {<< a, node[a].size >> : a \in free}
                  \cup {<< b, live[b].size >> : b \in DOMAIN live}
  IN  freep # -1 =>
        /\ freep \in free /\ 0 \in free
        /\ \A a \in free : LET above == {b \in free : b > a} IN
             /\ node[a].ptr = IF above = {} THEN 0 ELSE Min(above)
             /\ node[a].ptr # a + node[a].size \/ node[a].ptr = 0
        /\ \A a \in free : node[a].size = 0 /\ a # 0 =>
             \E b \in DOMAIN live : live[b].use = "lost" /\ a \in cells(b, live[b].size)
        /\ \A x, y \in blocks : x # y => cells(x[1], x[2]) \cap cells(y[1], y[2]) = {}
        /\ \A x \in blocks : cells(x[1], x[2]) \subseteq Start .. brk - 1
        /\ UNION {cells(x[1], x[2]) : x \in blocks} = core
=============================================================================
