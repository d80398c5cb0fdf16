-------------------------------- MODULE Stats -------------------------------
(***************************************************************************)
(* p3/linux: a server prints a table of statistics that its clients keep   *)
(* in shared memory.  stats_init gives a client a free entry of the table, *)
(* stats_unlink, called from the client's SIGINT handler, gives it back.   *)
(* A semaphore is held while the table is searched, and at no other time.  *)
(*                                                                         *)
(* Abstracted: the statistics themselves, of which only their owner        *)
(* matters, and what is printed.                                           *)
(***************************************************************************)
EXTENDS Integers, FiniteSets, FiniteSetsExt

CONSTANTS Client,      \* the pids of the clients
          Nobody,      \* no holder of the semaphore
          NEntries,    \* entries of the table (16)
          EmptyEntry, ZeroEntry  \* pid == -1, and pid == 0 before the server's loop

ASSUME StatsAssumption ==
  /\ NEntries \in Nat \ {0}
  /\ {Nobody, EmptyEntry, ZeroEntry} \cap Client = {} /\ EmptyEntry # ZeroEntry

Entry == 1 .. NEntries

VARIABLES
  pid,      \* the pid field of each entry
  server,   \* "start", "sem", "loop", "serve" or "gone"
  cleared,  \* entries that the server's loop has set to -1
  sem,      \* the client that has done sem_wait and not sem_post, or Nobody
  pc,       \* where each client is
  addr      \* the entry that stats_init gave it, or 0

statsvars == << pid, server, cleared, sem, pc, addr >>

Pcs == {"start", "attached", "search", "init", "run", "full",
        "handler", "attached_u", "search_u", "gone", "failed"}

StatsInit ==
  /\ pid = [i \in Entry |-> ZeroEntry]
  /\ server = "start" /\ cleared = 0
  /\ sem = Nobody
  /\ pc = [c \in Client |-> "start"] /\ addr = [c \in Client |-> 0]

---------------------------------------------------------------------------
(* stats_server.c *)

\* main: the semaphore first, then the segment, then one entry after another.
MakeSem == /\ server = "start" /\ server' = "sem"
           /\ UNCHANGED << pid, cleared, sem, pc, addr >>

MakeTable == /\ server = "sem" /\ server' = "loop"
             /\ UNCHANGED << pid, cleared, sem, pc, addr >>

LastEntry(i) == i = NEntries

ClearEntry ==
  /\ server = "loop"
  /\ cleared' = cleared + 1
  /\ pid' = [pid EXCEPT ![cleared + 1] = EmptyEntry]
  /\ server' = IF LastEntry(cleared + 1) THEN "serve" ELSE "loop"
  /\ UNCHANGED << sem, pc, addr >>

\* SIGINT: both names are removed; who is attached stays attached.
ServerInt == /\ server \in {"loop", "serve"} /\ server' = "gone"
             /\ UNCHANGED << pid, cleared, sem, pc, addr >>

NamesExist == server \in {"loop", "serve"}

---------------------------------------------------------------------------
(* stats.c *)

\* sem_open, shmget and shmat, or exit(1) when the server's are not there.
\* The handler does it again.
Attach(c, from, to) ==
  /\ pc[c] = from
  /\ pc' = [pc EXCEPT ![c] = IF NamesExist THEN to ELSE "gone"]
  /\ UNCHANGED << pid, server, cleared, sem, addr >>

sem_wait(c, from, to) ==
  /\ pc[c] = from /\ sem = Nobody
  /\ sem' = c
  /\ pc' = [pc EXCEPT ![c] = to]
  /\ UNCHANGED << pid, server, cleared, addr >>

FreeEntries == {i \in Entry : pid[i] = EmptyEntry}

PostWhenFull_Forgotten == sem                 \* mutated: no sem_post
PostWhenFull == Nobody

\* stats_init's search.  The entry that it returns is still marked free.
Search(c) ==
  /\ pc[c] = "search"
  /\ IF FreeEntries # {}
       THEN /\ addr' = [addr EXCEPT ![c] = Min(FreeEntries)]
            /\ pc' = [pc EXCEPT ![c] = "init"]
            /\ sem' = Nobody
       ELSE /\ pc' = [pc EXCEPT ![c] = "full"]
            /\ sem' = PostWhenFull
            /\ addr' = addr
  /\ UNCHANGED << pid, server, cleared >>

\* main of stats_client.c: addr->pid = getpid().
SetPid(c) ==
  /\ pc[c] = "init"
  /\ pid' = [pid EXCEPT ![addr[c]] = c]
  /\ pc' = [pc EXCEPT ![c] = "run"]
  /\ UNCHANGED << server, cleared, sem, addr >>

GiveUp(c) == /\ pc[c] = "full" /\ pc' = [pc EXCEPT ![c] = "gone"]
             /\ UNCHANGED << pid, server, cleared, sem, addr >>

\* exit(1), without stats_unlink: setpriority fails (a negative -p of an ordinary
\* user), or in the loop a nanosleep does.
Fails(c) == /\ pc[c] = "run" /\ pc' = [pc EXCEPT ![c] = "failed"]
            /\ UNCHANGED << pid, server, cleared, sem, addr >>

\* SIGINT: stats_unlink, from wherever the client is, and _exit.
Interrupt(c) ==
  /\ pc[c] \in {"start", "attached", "search", "init", "run", "full"}
  /\ pc' = [pc EXCEPT ![c] = "handler"]
  /\ UNCHANGED << pid, server, cleared, sem, addr >>

Mine_First(c) == {1}                          \* mutated: whoever's it is
Mine(c) == {i \in Entry : pid[i] = c}

Unlink(c) ==
  /\ pc[c] = "search_u"
  /\ pid' = IF Mine(c) = {} THEN pid
            ELSE [pid EXCEPT ![Min(Mine(c))] = EmptyEntry]
  /\ pc' = [pc EXCEPT ![c] = "gone"]
  /\ sem' = Nobody
  /\ UNCHANGED << server, cleared, addr >>

---------------------------------------------------------------------------
Advance(c) ==
  \/ Attach(c, "start", "attached") \/ sem_wait(c, "attached", "search")
  \/ Search(c) \/ SetPid(c) \/ GiveUp(c)
  \/ Attach(c, "handler", "attached_u") \/ sem_wait(c, "attached_u", "search_u")
  \/ Unlink(c)

Serve == MakeSem \/ MakeTable \/ ClearEntry

StatsNext == \/ Serve \/ ServerInt
             \/ \E c \in Client : Advance(c) \/ Fails(c) \/ Interrupt(c)

StatsSpec == StatsInit /\ [][StatsNext]_statsvars

\* Processes are scheduled, and a free semaphore is got by everyone who waits
\* for it again and again.
StatsFairSpec == StatsSpec /\ WF_statsvars(Serve) /\ \A c \in Client : SF_statsvars(Advance(c))

---------------------------------------------------------------------------
(* Properties. *)

\* What the server prints belongs to a client that is still there: wherever a
\* client is interrupted, and however that falls in with the others' starts, it
\* leaves no entry behind, and it never has a second one (stats_init,
\* stats_unlink).  Only a client that fails after it has set its pid does
\* (stats_client.c: exit(1) when setpriority or nanosleep returns an error).
Present == {"run", "handler", "attached_u", "search_u"}
PidIsAlive ==
  server = "serve" =>
     \A c \in Client : \A i \in Mine(c) :
        i = addr[c] /\ pc[c] \in Present \cup {"failed"}

\* A client that is interrupted does end (intHandler), unless the semaphore is
\* never posted again, because its holder was interrupted in stats_init.
SemIsLost == sem # Nobody /\ pc[sem] \in {"handler", "attached_u"}
InterruptedEnds ==
  \A c \in Client : (pc[c] = "handler") ~> (pc[c] = "gone" \/ SemIsLost)
=============================================================================
