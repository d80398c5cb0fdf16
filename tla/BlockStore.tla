----------------------------- MODULE BlockStore -----------------------------
(***************************************************************************)
(* What the buffer cache promises to the file system: blocks that keep     *)
(* what is written to them, each used by one process at a time - as long   *)
(* as the drive does not fail.                                             *)
(***************************************************************************)
CONSTANTS Proc, Sector, Data, Blank, NoOne

VARIABLES store,   \* the contents of each sector
          user,    \* who may read and write it now
          broken   \* has the drive failed?

Init == /\ store = [s \in Sector |-> Blank]
        /\ user = [s \in Sector |-> NoOne]
        /\ broken = FALSE

Take(p, s) == /\ user[s] = NoOne
              /\ user' = [user EXCEPT ![s] = p]
              /\ UNCHANGED << store, broken >>

Write(p, s, v) == /\ user[s] = p
                  /\ store' = [store EXCEPT ![s] = v]
                  /\ UNCHANGED << user, broken >>

Give(p, s) == /\ user[s] = p
              /\ user' = [user EXCEPT ![s] = NoOne]
              /\ UNCHANGED << store, broken >>

Next == \/ broken'
        \/ \E p \in Proc, s \in Sector :
             Take(p, s) \/ Give(p, s) \/ \E v \in Data : Write(p, s, v)

Spec == Init /\ [][Next]_<< store, user, broken >>
=============================================================================
