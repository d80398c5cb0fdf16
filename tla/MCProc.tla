------------------------------- MODULE MCProc -------------------------------
(* Small instances of Proc. *)
EXTENDS Proc

\* Programs that use processes and threads, and programs that sleep.
ThreadCalls == {"fork", "clone", "exec", "kill", "wait", "join"}
SleepCalls  == {"fork", "kill", "sleep", "wait"}

NoKill     == {}
KillOthers == 2 .. MaxPid
=============================================================================
