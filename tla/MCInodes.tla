------------------------------ MODULE MCInodes ------------------------------
(* Small instances of Inodes. *)
EXTENDS Inodes
CONSTANTS p1, p2
TwoProcs == {p1, p2}
TwoNames == {"a", "b"}
MCSymmetry == Permutations(TwoProcs)
A == << "a" >>
B == << "b" >>
AB == << "a", "b" >>
Call(op, path) == [op |-> op, path |-> path, new |-> << >>]
MCCalls == {Call("mkdir", A), Call("mkdir", AB), Call("create", AB), Call("unlink", AB), Call("unlink", A),
            Call("create", B), [op |-> "link", path |-> B, new |-> AB],
            Call("unlink", B), Call("chdir", A), Call("open", AB)}
=============================================================================
