----------------------------- MODULE MCBufCache -----------------------------
(* Small instances of BufCache. *)
EXTENDS BufCache
CONSTANTS p1, p2, b1, b2, s1, s2, s3
TwoProcs == {p1, p2}
TwoBufs == {b1, b2}
ThreeSectors == {s1, s2, s3}
\* All sectors are written, but only one of them with different contents.
WrittenOne == [s \in ThreeSectors |-> IF s = s1 THEN {0, 1} ELSE {0}]
=============================================================================
