---------------------------- MODULE MCWebServer ----------------------------
(* Small instances of WebServer: two workers and three descriptors. *)
EXTENDS WebServer

CONSTANTS w1, w2
MCWorker == {w1, w2}
MCFd == 1 .. 3
=============================================================================
