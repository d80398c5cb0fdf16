------------------------------- MODULE MCPipe -------------------------------
(* Small instances of Pipe: two or three processes. *)
EXTENDS Pipe, TLC

CONSTANTS p1, p2, p3
MCTwo   == {p1, p2}
MCThree == {p1, p2, p3}
\* p1 makes the pipe; the others are interchangeable.
MCSymmetry == Permutations({p2, p3})
=============================================================================
