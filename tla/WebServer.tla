----------------------------- MODULE WebServer -----------------------------
(***************************************************************************)
(* p4/linux: the multi-threaded web server.  The main thread accepts       *)
(* connections and puts their descriptors into a ring of nbuffers slots;   *)
(* a fixed pool of worker threads takes them out, serves each one and      *)
(* closes it.  One mutex guards the ring; `empty' and `fill' are the two   *)
(* condition variables.                                                    *)
(*                                                                         *)
(* A step of a thread that holds the mutex is one action, from the lock    *)
(* (or from the return of pthread_cond_wait) to the unlock (or to the next *)
(* pthread_cond_wait): every access to the ring is inside such a step.  A  *)
(* waiter that has been signalled, or that woke up spuriously, is back at  *)
(* "lock", from where it takes the mutex and tests the condition again.    *)
(*                                                                         *)
(* Connections are numbered in the order in which accept() returns them.   *)
(* Descriptors are reused: accept() returns one that is not open.          *)
(***************************************************************************)
EXTENDS Integers, FiniteSets, Sequences, FiniteSetsExt

CONSTANTS Worker,           \* the pool: nthreads worker threads
          nbuffers,         \* slots of the ring
          Fd,               \* descriptors that accept() can return (bound: no client
                            \* connects while all are open)
          MaxConn           \* bound: how many clients connect

ASSUME ServerAssumption ==
  /\ Worker # {} /\ IsFiniteSet(Worker)
  /\ nbuffers \in Nat \ {0}
  /\ MaxConn \in Nat
  /\ 0 \notin Fd

Conn == 1 .. MaxConn
NoFd == 0
Slot == 0 .. nbuffers - 1

VARIABLES
  up,        \* is the server process running?
  mainpc,    \* where the main thread is
  connfd,    \* the descriptor the main thread has accepted
  wpc,       \* where each worker is
  curr_fd,   \* the descriptor each worker serves
  buffer, count, filled, used,
  conn,      \* the kernel's descriptor table: the connection of each open one
  accepted,  \* how many connections have been accepted
  taken,     \* how many have been taken out of the ring
  handed,    \* the connections that workers found there, in order
  cgi,       \* the state of the CGI child forked for each connection
  holds      \* the connections whose descriptors that child inherited

ringvars == << buffer, count, filled, used >>
vars == << up, mainpc, connfd, wpc, curr_fd, ringvars, conn, accepted, taken,
           handed, cgi, holds >>

MainPc   == {"accept", "lock", "wait_empty"}
WorkerPc == {"lock", "wait_fill", "serve", "waitpid", "close", "held"}

Open(c) == \E f \in Fd : conn[f] = c

Full_Never == FALSE                      \* mutated: the room is not tested
Full == count = nbuffers

\* mutated: the index does not wrap around
NextSlot_Last(i) == IF i = nbuffers - 1 THEN i ELSE i + 1
NextSlot(i) == (i + 1) % nbuffers

Oldest_Newest == buffer[(filled + nbuffers - 1) % nbuffers]  \* mutated: LIFO
Oldest == buffer[used]

\* The children that wait() can still return.
Unreaped == {c \in Conn : cgi[c] \in {"running", "held", "zombie"}}

Init ==
  /\ up = TRUE
  /\ mainpc = "accept" /\ connfd = NoFd
  /\ wpc = [w \in Worker |-> "lock"]
  /\ curr_fd = [w \in Worker |-> NoFd]
  /\ buffer = [s \in Slot |-> NoFd]
  /\ count = 0 /\ filled = 0 /\ used = 0
  /\ conn = [f \in Fd |-> 0]
  /\ accepted = 0 /\ taken = 0 /\ handed = << >>
  /\ cgi = [c \in Conn |-> "none"]
  /\ holds = [c \in Conn |-> {}]

---------------------------------------------------------------------------
(* The main thread. *)

Accept ==
  /\ up /\ mainpc = "accept" /\ accepted < MaxConn
  /\ \E f \in Fd :
       /\ conn[f] = 0
       /\ connfd' = f
       /\ conn' = [conn EXCEPT ![f] = accepted + 1]
  /\ accepted' = accepted + 1
  /\ mainpc' = "lock"
  /\ UNCHANGED << up, wpc, curr_fd, ringvars, taken, handed, cgi, holds >>

\* pthread_cond_signal wakes one of the waiting threads, if there is one.
WakeAWorker ==
  IF \E w \in Worker : wpc[w] = "wait_fill"
    THEN \E w \in Worker : /\ wpc[w] = "wait_fill"
                           /\ wpc' = [wpc EXCEPT ![w] = "lock"]
    ELSE wpc' = wpc

\* mutated: signal only when the ring was empty
SignalFill_WhenEmpty == IF count = 0 THEN WakeAWorker ELSE wpc' = wpc
SignalFill == WakeAWorker

SignalEmpty_Never == mainpc' = mainpc    \* mutated: the signal is forgotten
SignalEmpty == mainpc' = IF mainpc = "wait_empty" THEN "lock" ELSE mainpc

Produce ==
  /\ up /\ mainpc = "lock" /\ ~Full
  /\ buffer' = [buffer EXCEPT ![filled] = connfd]
  /\ filled' = NextSlot(filled)
  /\ count' = count + 1
  /\ SignalFill
  /\ mainpc' = "accept" /\ connfd' = NoFd
  /\ UNCHANGED << up, curr_fd, used, conn, accepted, taken, handed, cgi,
                  holds >>

ProduceWait ==
  /\ up /\ mainpc = "lock" /\ Full
  /\ mainpc' = "wait_empty"
  /\ UNCHANGED << up, connfd, wpc, curr_fd, ringvars, conn, accepted, taken,
                  handed, cgi, holds >>

---------------------------------------------------------------------------
(* The workers. *)

ConsumeWait(w) ==
  /\ up /\ wpc[w] = "lock" /\ count = 0
  /\ wpc' = [wpc EXCEPT ![w] = "wait_fill"]
  /\ UNCHANGED << up, mainpc, connfd, curr_fd, ringvars, conn, accepted, taken,
                  handed, cgi, holds >>

Consume(w) ==
  /\ up /\ wpc[w] = "lock" /\ count # 0
  /\ curr_fd' = [curr_fd EXCEPT ![w] = Oldest]
  /\ used' = NextSlot(used)
  /\ count' = count - 1
  /\ SignalEmpty
  /\ taken' = taken + 1
  /\ handed' = Append(handed, conn[Oldest])
  /\ wpc' = [wpc EXCEPT ![w] = "serve"]
  /\ UNCHANGED << up, connfd, buffer, filled, conn, accepted, cgi, holds >>

\* requestHandle: a static file or an error page is written by the worker.
ServeStatic(w) ==
  /\ up /\ wpc[w] = "serve"
  /\ wpc' = [wpc EXCEPT ![w] = "close"]
  /\ UNCHANGED << up, mainpc, connfd, curr_fd, ringvars, conn, accepted, taken,
                  handed, cgi, holds >>

\* requestServeDynamic: fork a CGI program, which inherits every open
\* descriptor of the server, and then wait for a child - for any child.
ServeDynamic(w) ==
  /\ up /\ wpc[w] = "serve"
  /\ LET c == conn[curr_fd[w]] IN
       /\ cgi' = [cgi EXCEPT ![c] = "running"]
       /\ holds' = [holds EXCEPT ![c] = {conn[f] : f \in Fd} \ {0}]
  /\ wpc' = [wpc EXCEPT ![w] = "waitpid"]
  /\ UNCHANGED << up, mainpc, connfd, curr_fd, ringvars, conn, accepted, taken,
                  handed >>

\* exit(0) of the server process: every descriptor and every thread is gone.
Exit ==
  /\ up' = FALSE
  /\ conn' = [f \in Fd |-> 0]
  /\ UNCHANGED << mainpc, connfd, wpc, curr_fd, ringvars, accepted, taken, handed,
                  cgi, holds >>

ReapOne_All == cgi' = [c \in Conn |-> IF cgi[c] = "zombie" THEN "reaped"
                                      ELSE cgi[c]]  \* mutated: wait in a loop
ReapOne == \E c \in Conn : /\ cgi[c] = "zombie"
                           /\ cgi' = [cgi EXCEPT ![c] = "reaped"]

\* Wait: wait() blocks until some child is a zombie.  Without any child it
\* fails with ECHILD, and unix_error exits.
WaitAny(w) ==
  /\ up /\ wpc[w] = "waitpid"
  /\ IF Unreaped = {}
       THEN Exit
       ELSE /\ \E c \in Conn : cgi[c] = "zombie"
            /\ ReapOne
            /\ wpc' = [wpc EXCEPT ![w] = "close"]
            /\ UNCHANGED << up, mainpc, connfd, curr_fd, ringvars, conn, accepted,
                            taken, handed, holds >>

\* Close fails, and unix_error exits, on a descriptor that is not open.
Close(w) ==
  /\ up /\ wpc[w] = "close"
  /\ IF curr_fd[w] \in Fd /\ conn[curr_fd[w]] # 0
       THEN /\ conn' = [conn EXCEPT ![curr_fd[w]] = 0]
            /\ wpc' = [wpc EXCEPT ![w] = "lock"]
            /\ curr_fd' = [curr_fd EXCEPT ![w] = NoFd]
            /\ UNCHANGED << up, mainpc, connfd, ringvars, accepted, taken,
                            handed, cgi, holds >>
       ELSE Exit

---------------------------------------------------------------------------
(* Clients, CGI programs and the thread library. *)

\* Rio_readlineb and Rio_writen exit when the client has reset the connection.
IoError(w) ==
  /\ up /\ wpc[w] = "serve"
  /\ Exit

\* A client can hold its worker for ever.  When it stops before the empty line,
\* requestReadhdrs spins: at end of file Rio_readlineb returns 0 and leaves buf
\* as it was.  When it stays silent, or does not read its answer, the worker
\* stays in read() or in write().
HeldByClient(w) ==
  /\ up /\ wpc[w] = "serve"
  /\ wpc' = [wpc EXCEPT ![w] = "held"]
  /\ UNCHANGED << up, mainpc, connfd, curr_fd, ringvars, conn, accepted, taken,
                  handed, cgi, holds >>

\* The same for a CGI program, which writes to the client itself.
CgiHeld(c) ==
  /\ cgi[c] = "running"
  /\ cgi' = [cgi EXCEPT ![c] = "held"]
  /\ UNCHANGED << up, mainpc, connfd, wpc, curr_fd, ringvars, conn, accepted,
                  taken, handed, holds >>

CgiExit(c) ==
  /\ cgi[c] = "running"
  /\ cgi' = [cgi EXCEPT ![c] = "zombie"]
  /\ holds' = [holds EXCEPT ![c] = {}]
  /\ UNCHANGED << up, mainpc, connfd, wpc, curr_fd, ringvars, conn, accepted,
                  taken, handed >>

\* pthread_cond_wait may return without a signal.
SpuriousWakeup ==
  /\ up
  /\ \/ /\ mainpc = "wait_empty" /\ mainpc' = "lock" /\ wpc' = wpc
     \/ \E w \in Worker : /\ wpc[w] = "wait_fill"
                          /\ wpc' = [wpc EXCEPT ![w] = "lock"]
                          /\ mainpc' = mainpc
  /\ UNCHANGED << up, connfd, curr_fd, ringvars, conn, accepted, taken,
                  handed, cgi, holds >>

Main == Accept \/ Produce \/ ProduceWait
WorkerStep(w) == \/ ConsumeWait(w) \/ Consume(w) \/ ServeStatic(w)
                 \/ ServeDynamic(w) \/ WaitAny(w) \/ Close(w)

Next ==
  \/ Main
  \/ \E w \in Worker : WorkerStep(w) \/ IoError(w) \/ HeldByClient(w)
  \/ \E c \in Conn : CgiExit(c) \/ CgiHeld(c)
  \/ SpuriousWakeup

Spec == Init /\ [][Next]_vars

\* The operating system schedules every thread and every CGI program that can
\* run.  Nothing is assumed of clients: one that does not let its request or its
\* answer come to an end, nor resets the connection, is HeldByClient or CgiHeld.
Fairness ==
  /\ WF_vars(Produce \/ ProduceWait)
  /\ \A w \in Worker : WF_vars(WorkerStep(w))
  /\ \A c \in Conn : WF_vars(CgiExit(c))

FairSpec == Spec /\ Fairness

---------------------------------------------------------------------------
(* Properties. *)

TypeOK ==
  /\ up \in BOOLEAN
  /\ mainpc \in MainPc /\ connfd \in Fd \cup {NoFd}
  /\ wpc \in [Worker -> WorkerPc]
  /\ curr_fd \in [Worker -> Fd \cup {NoFd}]
  /\ buffer \in [Slot -> Fd \cup {NoFd}]
  /\ count \in 0 .. nbuffers /\ filled \in Slot /\ used \in Slot
  /\ conn \in [Fd -> 0 .. MaxConn]
  /\ accepted \in 0 .. MaxConn /\ taken \in 0 .. MaxConn
  /\ handed \in Seq(Nat)
  /\ cgi \in [Conn -> {"none", "running", "held", "zombie", "reaped"}]
  /\ holds \in [Conn -> SUBSET Conn]

\* The slots that hold a queued descriptor, oldest first.
Queued(i) == buffer[(used + i) % nbuffers]
Busy(w) == wpc[w] \in {"serve", "waitpid", "close", "held"}

\* First come, first taken, each connection once: the ring holds, oldest first,
\* exactly the accepted connections that no worker has taken yet (server.c's
\* producer and consumer, whatever the descriptors that are reused meanwhile).
RingIsFifo ==
  up => /\ \A i \in 0 .. count - 1 : conn[Queued(i)] = taken + 1 + i
        /\ mainpc = "accept" => accepted = taken + count
        /\ mainpc # "accept" => /\ accepted = taken + count + 1
                                /\ conn[connfd] = accepted

\* A descriptor that is being served is open and is nobody else's: no two
\* workers, and no worker and the ring or the main thread, hold the same one.
\* Otherwise a Close would hit another client's connection.
DescriptorHasOneOwner ==
  up => /\ \A w \in Worker : Busy(w) => conn[curr_fd[w]] \in 1 .. taken
        /\ \A v, w \in Worker :
             Busy(v) /\ Busy(w) /\ v # w => curr_fd[v] # curr_fd[w]

\* No lost wakeup: while some worker sleeps on `fill', there are at least as
\* many workers on their way to the ring as there are connections in it; and
\* the main thread sleeps on `empty' only while the ring is full.
NoLostWakeup ==
  /\ (\E w \in Worker : wpc[w] = "wait_fill")
        => count <= Cardinality({w \in Worker : wpc[w] = "lock"})
  /\ mainpc = "wait_empty" => count = nbuffers

\* requestServeDynamic waits for any child, so workers reap each other's; yet
\* there are always as many unreaped children as workers in wait(), so that
\* wait() never fails with ECHILD, which would end the whole server.
ChildForEveryWaiter ==
  up => Cardinality(Unreaped)
          = Cardinality({w \in Worker : wpc[w] = "waitpid"})

\* A client sees the end of its answer (clientPrint reads to end of file) when
\* neither the server nor a CGI program that inherited it keeps it open.
\* Every connection that is accepted ends in this sense, unless clients that
\* neither finish nor go away hold for ever the worker that serves it, a CGI
\* program that inherited it, or all the workers; a worker is also held in
\* wait() by a CGI program, be it another worker's.
AtEof(c) == ~Open(c) /\ \A d \in Conn : c \notin holds[d]
CgiIsHeld == \E d \in Conn : cgi[d] = "held"
HeldUp(w) == wpc[w] = "held" \/ (wpc[w] = "waitpid" /\ CgiIsHeld)
HeldOpen(c) ==
  \/ \E w \in Worker : HeldUp(w) /\ conn[curr_fd[w]] = c
  \/ \E d \in Conn : cgi[d] = "held" /\ c \in holds[d]
  \/ \A w \in Worker : HeldUp(w)
EveryConnectionEnds ==
  \A c \in Conn : (accepted >= c) ~> (AtEof(c) \/ []HeldOpen(c))

---------------------------------------------------------------------------
(* The ring implements a bounded FIFO queue of connections. *)

Contents == IF up THEN [i \in 1 .. count |-> conn[Queued(i - 1)]] ELSE << >>
Fifo == INSTANCE BoundedFifo WITH Item <- Conn, Capacity <- nbuffers,
                                  queue <- Contents, out <- handed,
                                  closed <- ~up
\* While the server is up, every step is a put, a get or nothing to the abstract
\* queue: producer and consumer of server.c hand each accepted connection to one
\* worker, in order, and drop none.
ImplementsFifo == Fifo!Spec
=============================================================================
