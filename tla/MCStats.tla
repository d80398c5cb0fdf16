------------------------------ MODULE MCStats -------------------------------
(* Small instances of Stats: three clients, two entries. *)
EXTENDS Stats

CONSTANTS c1, c2, c3
MCClient == {c1, c2, c3}
=============================================================================
