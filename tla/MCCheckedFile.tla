--------------------------- MODULE MCCheckedFile ----------------------------
(* Small instances of CheckedFile: blocks of two bytes, one direct pointer, *)
(* an indirect block of two.                                               *)
EXTENDS CheckedFile

PlainFiles  == {"T_FILE"}
WhileWriting == Stages \ Freeing
=============================================================================
