-------------------------------- MODULE MySh --------------------------------
(***************************************************************************)
(* p2/linux/mysh.c: the shell, its list of background jobs, and its child  *)
(* processes, which end, stop and go on at any time.  The kernel gives the *)
(* pid of a child that has been waited for to another child.               *)
(*                                                                         *)
(* Parsing is left out: a line is one of the commands below.  Deleting a   *)
(* job copies the next node over it, the sentinel of jid -1 included; here *)
(* the list is a sequence, and the sentinel its end.                       *)
(***************************************************************************)
EXTENDS Integers, Sequences, FiniteSets, SequencesExt

CONSTANTS Pid,     \* pids of child processes: numbers
          MaxJid   \* bound: lines that count

VARIABLES joblist, \* start: the jid and pid of each JOB
          jid,     \* lines so far that are not empty
          child,   \* the kernel's children: state, jid of the line, and
                   \* whether it ended in &
          shpc,    \* "prompt", what main waits in, or "ended"
          at,      \* the pid or the place in the list that it works on
          said,    \* history: jobs that "myw" has called terminated
          paused   \* history: jobs that have been stopped at some time

shvars == << joblist, jid, child, shpc, at, said, paused >>

NoChild == [state |-> "none", jid |-> 0, bg |-> FALSE]
Started(bg) == [state |-> "run", jid |-> jid', bg |-> bg]

ShInit ==
  /\ joblist = << >> /\ jid = 0 /\ shpc = "prompt" /\ at = 0
  /\ child = [p \in Pid |-> NoChild]
  /\ said = {} /\ paused = {}

ShGoto(l, a) == shpc' = l /\ at' = a
Line == shpc = "prompt"
NewLine == Line /\ jid < MaxJid /\ jid' = jid + 1

---------------------------------------------------------------------------
(* Children.  A child that has stopped says so to one waitpid(WUNTRACED). *)

ChildState(p, from, to) ==
  child[p].state \in from /\ child' = [child EXCEPT ![p].state = to]

ChildStep ==
  /\ \E p \in Pid :
       \/ ChildState(p, {"run", "stopped", "told"}, "zombie") /\ UNCHANGED paused
       \/ ChildState(p, {"run"}, "stopped") /\ paused' = paused \cup {child[p].jid}
       \/ ChildState(p, {"stopped", "told"}, "run") /\ UNCHANGED paused
  /\ UNCHANGED << joblist, jid, shpc, at, said >>

Alive(p) == child[p].state \in {"run", "stopped", "told"}

\* waitpid: a zombie is gone then; for what is no child it returns -1.
Reap(p) ==
  child' = IF child[p].state = "zombie" THEN [child EXCEPT ![p] = NoChild] ELSE child

---------------------------------------------------------------------------
(* main *)

\* A line of "&" alone is counted and does nothing else.
LoneAmpersand ==
  /\ NewLine
  /\ UNCHANGED << joblist, child, shpc, at, said, paused >>

\* exit, or the end of the input: the children go on without a shell.
ShExit ==
  /\ Line /\ ShGoto("ended", 0)
  /\ UNCHANGED << joblist, jid, child, said, paused >>

\* A program in the foreground, and the wait for it; fork may fail.
RunForeground ==
  /\ NewLine
  /\ \/ \E p \in Pid : /\ child[p] = NoChild
                       /\ child' = [child EXCEPT ![p] = Started(FALSE)]
                       /\ ShGoto("wait", p)
     \/ UNCHANGED << child, shpc, at >>
  /\ UNCHANGED << joblist, said, paused >>

WaitForeground ==
  /\ shpc = "wait"
  /\ \/ child[at].state = "zombie" /\ Reap(at)
     \/ ChildState(at, {"stopped"}, "told")
  /\ ShGoto("prompt", 0)
  /\ UNCHANGED << joblist, jid, said, paused >>

RunBackground ==
  /\ NewLine
  /\ \E p \in Pid :
       /\ child[p] = NoChild
       /\ child' = [child EXCEPT ![p] = Started(TRUE)]
       /\ joblist' = Append(joblist, [jid |-> jid', pid |-> p])
  /\ UNCHANGED << shpc, at, said, paused >>

\* "j": the list is walked; jobs that have ended, or are no children any more
\* because "myw" has waited for them, are deleted.
ListJobs ==
  /\ Line /\ ShGoto("j", 1)
  /\ UNCHANGED << joblist, jid, child, said, paused >>

StillThere_Running(p) == child[p].state = "run"    \* mutated: not when stopped
StillThere(p) == Alive(p)

ListJob ==
  /\ shpc = "j"
  /\ \/ /\ at > Len(joblist)
        /\ ShGoto("prompt", 0) /\ UNCHANGED << joblist, child >>
     \/ /\ at <= Len(joblist) /\ StillThere(joblist[at].pid)
        /\ ShGoto("j", at + 1) /\ UNCHANGED << joblist, child >>
     \/ /\ at <= Len(joblist) /\ ~StillThere(joblist[at].pid)
        /\ Reap(joblist[at].pid)
        /\ joblist' = RemoveAt(joblist, at)
        /\ UNCHANGED << shpc, at >>
  /\ UNCHANGED << jid, said, paused >>

\* "myw n" for n up to jid.  A job that is waited for stays in the list.
Jobs(n) == {k \in 1 .. Len(joblist) : joblist[k].jid = n}

WaitForJob(n) ==
  /\ Line /\ n \in 1 .. jid
  /\ \/ /\ Jobs(n) = {}
        /\ said' = said \cup {n}
        /\ UNCHANGED << joblist, child, shpc, at >>
     \/ \E k \in Jobs(n) :
          /\ \A m \in Jobs(n) : k <= m
          /\ IF Alive(joblist[k].pid)
             THEN /\ ShGoto("myw", k)
                  /\ UNCHANGED << joblist, child, said >>
             ELSE /\ Reap(joblist[k].pid)
                  /\ joblist' = RemoveAt(joblist, k)
                  /\ said' = said \cup {n}
                  /\ UNCHANGED << shpc, at >>
  /\ UNCHANGED << jid, paused >>

JobWaited ==
  /\ shpc = "myw"
  /\ \/ child[joblist[at].pid].state = "zombie" /\ Reap(joblist[at].pid)
     \/ ChildState(joblist[at].pid, {"stopped"}, "told")
  /\ said' = said \cup {joblist[at].jid}
  /\ ShGoto("prompt", 0)
  /\ UNCHANGED << joblist, jid, paused >>

ShNext ==
  \/ ChildStep \/ LoneAmpersand \/ ShExit \/ RunForeground \/ WaitForeground
  \/ RunBackground \/ ListJobs \/ ListJob \/ (\E n \in 1 .. MaxJid : WaitForJob(n)) \/ JobWaited

---------------------------------------------------------------------------
(* Properties. *)

\* The list has every background job that has not been waited for, once, under
\* its own pid, in the order of the lines - although ended jobs stay in it and
\* their pids are given to new children - and a job that "myw" has called
\* terminated has ended, or had been stopped (WUNTRACED).
JobsAreListed ==
  /\ \A k \in 2 .. Len(joblist) : joblist[k - 1].jid < joblist[k].jid
  /\ \A p \in Pid : child[p].bg =>
       \E k \in Jobs(child[p].jid) : joblist[k].pid = p
  /\ \A n \in said \ paused : \A p \in Pid : child[p].jid = n => ~Alive(p)
==============================================================================
