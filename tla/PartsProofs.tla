----------------------------- MODULE PartsProofs ----------------------------
(***************************************************************************)
(* Proofs about six parts that stand by themselves: the shell's job list   *)
(* (MySh), the table of statistics (Stats), the console's line buffer      *)
(* (Console), the kernel's pages (Memory), the web server (WebServer) and  *)
(* the allocator of a user program (UserHeap).  Each has an inductive      *)
(* invariant: what is true at every moment of the actors that share the    *)
(* list, the table, the buffer, the pages, the ring - or of the two rings, *)
(* the free blocks and the addresses, that malloc and free must keep one.  *)
(***************************************************************************)
EXTENDS MySh, Stats, Console, Memory, WebServer, UserHeap, Numbers, FiniteSetTheorems, SequenceTheorems, TLAPS

(***************************************************************************)
(* MySh.  A child that lives is in the list, or main waits for it, or it   *)
(* has been stopped; what is left of the others is their entries.          *)
(***************************************************************************)

ChildStates == {"none", "run", "stopped", "told", "zombie"}

Job == [jid : Nat \ {0}, pid : Pid]

ShTyped ==
  /\ joblist \in Seq(Job) /\ jid \in Nat
  /\ child \in [Pid -> [state : ChildStates, jid : Nat, bg : BOOLEAN]]

\* Where main is, in the list or in a wait.
ShPlaces ==
  /\ shpc \in {"prompt", "wait", "j", "myw", "ended"}
  /\ shpc = "wait" => at \in Pid
  /\ shpc = "j" => at \in Nat \ {0}
  /\ shpc = "myw" => at \in 1 .. Len(joblist)

\* Lines are numbered upwards, so no two jobs have one number.
JobsOrdered ==
  /\ \A k \in 1 .. Len(joblist) : joblist[k].jid <= jid
  /\ \A i, k \in 1 .. Len(joblist) : i < k => joblist[i].jid < joblist[k].jid
  /\ \A p \in Pid : child[p].jid <= jid
  /\ said \subseteq 1 .. jid

ChildrenKnown ==
  \A p \in Pid :
    /\ child[p].state = "none" => ~child[p].bg
    /\ child[p].state \in {"stopped", "told"} => child[p].jid \in paused
    /\ Alive(p) /\ ~child[p].bg =>
         (shpc = "wait" /\ at = p) \/ child[p].jid \in paused
    /\ child[p].bg => \E k \in Jobs(child[p].jid) : joblist[k].pid = p

SaidIsOver ==
  \A n \in said \ paused : \A p \in Pid : child[p].jid = n => ~Alive(p)

ShInv == ShTyped /\ ShPlaces /\ JobsOrdered /\ ChildrenKnown /\ SaidIsOver

LEMMA ShInitInv == ShInit => ShInv
  <1> SUFFICES ASSUME ShInit PROVE ShInv
    OBVIOUS
  <1> USE DEF ShInit, NoChild
  <1>1. ShTyped
    BY EmptySeq DEF ShTyped, ChildStates
  <1>2. ShPlaces
    BY DEF ShPlaces
  <1>4. ChildrenKnown /\ SaidIsOver
    <2>1. \A p \in Pid : child[p].state = "none" /\ child[p].bg = FALSE
      OBVIOUS
    <2>2. \A p \in Pid : ~Alive(p)
      BY <2>1 DEF Alive
    <2> QED BY <2>1, <2>2 DEF ChildrenKnown, SaidIsOver
  <1>3. JobsOrdered
    BY DEF JobsOrdered
  <1> QED BY <1>1, <1>2, <1>3, <1>4 DEF ShInv

(* What is left when entry k is taken out.                                 *)
LEMMA Removed ==
  ASSUME NEW S, NEW s \in Seq(S), NEW k \in 1 .. Len(s)
  PROVE  /\ RemoveAt(s, k) \in Seq(S) /\ Len(RemoveAt(s, k)) = Len(s) - 1
         /\ \A i \in 1 .. Len(s) - 1 :
              RemoveAt(s, k)[i] = IF i < k THEN s[i] ELSE s[i + 1]
  <1> DEFINE a == SubSeq(s, 1, k - 1)
             b == SubSeq(s, k + 1, Len(s))
  <1>0. k \in Nat /\ Len(s) \in Nat /\ 1 <= k /\ k <= Len(s)
    BY LenProperties
  <1>1. a \in Seq(S) /\ Len(a) = k - 1 /\ \A i \in 1 .. k - 1 : a[i] = s[i]
    <2>1. \A i \in 1 .. k - 1 : s[i] \in S
      BY <1>0, ElementOfSeq
    <2> QED BY <1>0, <2>1, SubSeqProperties
  <1>2. b \in Seq(S) /\ Len(b) = Len(s) - k /\ \A i \in 1 .. Len(s) - k : b[i] = s[k + i]
    <2>1. \A i \in k + 1 .. Len(s) : s[i] \in S
      BY <1>0, ElementOfSeq
    <2> QED BY <1>0, <2>1, SubSeqProperties
  <1> HIDE DEF a, b
  <1>3. /\ a \o b \in Seq(S) /\ Len(a \o b) = Len(s) - 1
        /\ \A i \in 1 .. Len(s) - 1 : (a \o b)[i] = IF i <= k - 1 THEN a[i] ELSE b[i - (k - 1)]
    <2>1. a \in Seq(S) /\ b \in Seq(S)
      BY <1>1, <1>2
    <2>2. /\ a \o b \in Seq(S) /\ Len(a \o b) = Len(a) + Len(b)
          /\ \A i \in 1 .. Len(a) + Len(b) :
               (a \o b)[i] = IF i <= Len(a) THEN a[i] ELSE b[i - Len(a)]
      BY <2>1, ConcatProperties
    <2>3. Len(a) + Len(b) = Len(s) - 1 /\ Len(a) = k - 1
      BY <1>0, <1>1, <1>2
    <2> QED BY <2>2, <2>3
  <1>4. \A i \in 1 .. Len(s) - 1 : (a \o b)[i] = IF i < k THEN s[i] ELSE s[i + 1]
    <2> SUFFICES ASSUME NEW i \in 1 .. Len(s) - 1
                 PROVE  (a \o b)[i] = IF i < k THEN s[i] ELSE s[i + 1]
      OBVIOUS
    <2>1. CASE i < k
      BY <1>0, <1>1, <1>3, <2>1
    <2>2. CASE ~ (i < k)
      <3>1. i - (k - 1) \in 1 .. Len(s) - k /\ k + (i - (k - 1)) = i + 1
        BY <1>0, <2>2
      <3>2. (a \o b)[i] = b[i - (k - 1)]
        <4>1. ~ (i <= k - 1)
          BY <1>0, <2>2
        <4> QED BY <1>3, <4>1
      <3>3. b[i - (k - 1)] = s[i + 1]
        BY <1>2, <3>1
      <3> QED BY <2>2, <3>2, <3>3
    <2> QED BY <2>1, <2>2
  <1> QED BY <1>3, <1>4 DEF RemoveAt, a, b

LEMMA EntryTyped ==
  ASSUME ShInv, NEW k \in 1 .. Len(joblist)
  PROVE  joblist[k].jid \in Nat \ {0} /\ joblist[k].pid \in Pid
  <1>1. joblist[k] \in Job
    BY ElementOfSeq DEF ShInv, ShTyped
  <1> QED BY <1>1 DEF Job

(* No two entries have one number.                                         *)
LEMMA OneNumber ==
  ASSUME ShInv, NEW i \in 1 .. Len(joblist), NEW k \in 1 .. Len(joblist),
         joblist[i].jid = joblist[k].jid
  PROVE  i = k
  <1>1. joblist[i].jid \in Nat /\ joblist[k].jid \in Nat
    BY EntryTyped
  <1>2. JobsOrdered
    BY DEF ShInv
  <1>3. ~ (i < k) /\ ~ (k < i)
    BY <1>1, <1>2 DEF JobsOrdered
  <1> QED BY <1>3

\* Children that live on as before, and others that are gone.
FewerChildren == \A p \in Pid : child'[p] = child[p] \/ child'[p] = NoChild

LEMMA ReapTyped ==
  ASSUME ShInv, NEW p \in Pid, Reap(p)
  PROVE  /\ child' \in [Pid -> [state : ChildStates, jid : Nat, bg : BOOLEAN]]
         /\ FewerChildren /\ child'[p].state # "zombie"
         /\ \A q \in Pid \ {p} : child'[q] = child[q]
         /\ child[p].state = "zombie" => child'[p] = NoChild
         /\ child[p].state # "zombie" => child'[p] = child[p]
  <1>1. NoChild \in [state : ChildStates, jid : Nat, bg : BOOLEAN]
    BY DEF NoChild, ChildStates
  <1>2. child \in [Pid -> [state : ChildStates, jid : Nat, bg : BOOLEAN]]
    BY DEF ShInv, ShTyped
  <1>3. CASE child[p].state = "zombie"
    <2>1. child' = [child EXCEPT ![p] = NoChild]
      BY <1>3 DEF Reap
    <2>2. child' \in [Pid -> [state : ChildStates, jid : Nat, bg : BOOLEAN]]
      BY <1>1, <1>2, <2>1
    <2>3. child'[p] = NoChild /\ \A q \in Pid \ {p} : child'[q] = child[q]
      BY <1>2, <2>1
    <2>4. NoChild.state # "zombie"
      BY DEF NoChild
    <2> QED BY <1>3, <2>2, <2>3, <2>4 DEF FewerChildren
  <1>4. CASE child[p].state # "zombie"
    BY <1>2, <1>4 DEF Reap, FewerChildren
  <1> QED BY <1>3, <1>4

(* Who is alive, and who is left.                                          *)
LEMMA Fewer ==
  ASSUME ShInv, FewerChildren, NEW p \in Pid
  PROVE  /\ Alive(p)' => child'[p] = child[p] /\ Alive(p)
         /\ child'[p].bg => child'[p] = child[p]
         /\ child'[p].state \in {"stopped", "told"} => child'[p] = child[p]
         /\ child'[p].state = "none" => ~child'[p].bg
         /\ child'[p].jid <= jid
  <1>0. ChildrenKnown
    BY DEF ShInv
  <1>1. child[p].state = "none" => ~child[p].bg
    BY <1>0 DEF ChildrenKnown
  <1>2. child[p].jid <= jid /\ jid >= 0
    BY DEF ShInv, ShTyped, JobsOrdered
  <1>3. CASE child'[p] = child[p]
    BY <1>1, <1>2, <1>3 DEF Alive
  <1>4. CASE child'[p] = NoChild
    <2>1. child'[p].state = "none" /\ child'[p].bg = FALSE /\ child'[p].jid = 0
      BY <1>4 DEF NoChild
    <2> QED BY <1>2, <2>1 DEF Alive
  <1> QED BY <1>3, <1>4 DEF FewerChildren

LEMMA FewerKeep ==
  ASSUME ShInv, FewerChildren,
         child' \in [Pid -> [state : ChildStates, jid : Nat, bg : BOOLEAN]],
         joblist' = joblist, jid' \in Nat, jid' >= jid, paused' = paused,
         shpc' \in {"prompt", "j", "myw", "ended"},
         shpc' = "j" => at' \in Nat \ {0},
         shpc' = "myw" => at' \in 1 .. Len(joblist),
         \A p \in Pid : shpc = "wait" /\ at = p /\ Alive(p)' => child[p].jid \in paused,
         said' \in SUBSET (1 .. jid'),
         \A n \in said' \ said : \A p \in Pid :
            child'[p].jid = n /\ Alive(p)' => n \in paused
  PROVE  ShInv'
  <1>1. ShTyped'
    BY DEF ShInv, ShTyped
  <1>2. ShPlaces'
    BY DEF ShPlaces
  <1>3. JobsOrdered'
    <2>1. \A k \in 1 .. Len(joblist) : joblist[k].jid \in Nat
      BY EntryTyped
    <2>2. \A k \in 1 .. Len(joblist) : joblist[k].jid <= jid'
      BY <2>1 DEF ShInv, ShTyped, JobsOrdered
    <2>3. \A p \in Pid : child'[p].jid <= jid /\ child'[p].jid \in Nat
      <3>1. \A p \in Pid : child'[p].jid \in Nat
        OBVIOUS
      <3> QED BY <3>1, Fewer
    <2>4. \A p \in Pid : child'[p].jid <= jid'
      BY <2>3 DEF ShInv, ShTyped
    <2> QED BY <2>2, <2>4 DEF ShInv, JobsOrdered
  <1>4. ChildrenKnown'
    <2>1. ChildrenKnown
      BY DEF ShInv
    <2>2. ASSUME NEW p \in Pid
          PROVE  /\ child'[p].state = "none" => ~child'[p].bg
                 /\ child'[p].state \in {"stopped", "told"} => child'[p].jid \in paused
                 /\ Alive(p)' /\ ~child'[p].bg => child'[p].jid \in paused
                 /\ child'[p].bg => \E k \in Jobs(child'[p].jid) : joblist[k].pid = p
      <3>1. child'[p].state = "none" => ~child'[p].bg
        BY Fewer
      <3>2. child'[p].state \in {"stopped", "told"} => child'[p].jid \in paused
        BY <2>1, Fewer DEF ChildrenKnown
      <3>3. Alive(p)' /\ ~child'[p].bg => child'[p].jid \in paused
        BY <2>1, Fewer DEF ChildrenKnown
      <3>4. child'[p].bg => \E k \in Jobs(child'[p].jid) : joblist[k].pid = p
        BY <2>1, Fewer DEF ChildrenKnown
      <3> QED BY <3>1, <3>2, <3>3, <3>4
    <2>3. \A n : Jobs(n)' = Jobs(n)
      BY DEF Jobs
    <2> QED BY <2>2, <2>3 DEF ChildrenKnown
  <1>5. SaidIsOver'
    <2> SUFFICES ASSUME NEW n \in said' \ paused, NEW p \in Pid, child'[p].jid = n, Alive(p)'
                 PROVE  FALSE
      BY DEF SaidIsOver
    <2>1. n \in said
      OBVIOUS
    <2>2. Alive(p) /\ child[p].jid = n
      BY Fewer
    <2>3. SaidIsOver
      BY DEF ShInv
    <2> QED BY <2>1, <2>2, <2>3 DEF SaidIsOver
  <1> QED BY <1>1, <1>2, <1>3, <1>4, <1>5 DEF ShInv

(* An entry of the list is taken out whose process has ended.              *)
LEMMA EntryGone ==
  ASSUME ShInv, NEW k \in 1 .. Len(joblist), ~Alive(joblist[k].pid),
         Reap(joblist[k].pid), joblist' = RemoveAt(joblist, k),
         shpc \in {"prompt", "j"}, shpc' = shpc, at' = at, jid' = jid, paused' = paused,
         said' = said \/ said' = said \cup {joblist[k].jid}
  PROVE  ShInv'
  <1> DEFINE p == joblist[k].pid
  <1>1. p \in Pid /\ joblist[k].jid \in Nat
    BY EntryTyped
  <1>2. /\ child' \in [Pid -> [state : ChildStates, jid : Nat, bg : BOOLEAN]]
        /\ FewerChildren /\ child'[p].state # "zombie"
        /\ \A q \in Pid \ {p} : child'[q] = child[q]
        /\ child[p].state = "zombie" => child'[p] = NoChild
        /\ child[p].state # "zombie" => child'[p] = child[p]
    BY <1>1, ReapTyped
  <1>3. joblist \in Seq(Job)
    BY DEF ShInv, ShTyped
  <1>4. /\ joblist' \in Seq(Job) /\ Len(joblist') = Len(joblist) - 1
        /\ \A i \in 1 .. Len(joblist) - 1 :
             joblist'[i] = IF i < k THEN joblist[i] ELSE joblist[i + 1]
    BY <1>3, Removed
  <1>5. Len(joblist) \in Nat /\ k \in 1 .. Len(joblist)
    BY <1>3, LenProperties
  <1>6. child'[p].state = "none" /\ ~child'[p].bg
    <2>1. ChildrenKnown /\ child[p].state \in ChildStates
      BY <1>1 DEF ShInv, ShTyped
    <2>2. child[p].state \in {"none", "zombie"}
      BY <2>1 DEF Alive, ChildStates
    <2>3. NoChild.state = "none" /\ NoChild.bg = FALSE
      BY DEF NoChild
    <2> QED BY <1>1, <1>2, <2>1, <2>2, <2>3 DEF ChildrenKnown
  <1>7. ShTyped' /\ ShPlaces'
    BY <1>2, <1>4 DEF ShInv, ShTyped, ShPlaces
  <1>8. JobsOrdered'
    <2>1. JobsOrdered /\ jid \in Nat
      BY DEF ShInv, ShTyped
    <2>2. ASSUME NEW i \in 1 .. Len(joblist) - 1
          PROVE  joblist'[i].jid <= jid
      <3>1. i \in 1 .. Len(joblist) /\ i + 1 \in 1 .. Len(joblist)
        BY <1>5
      <3> QED BY <1>4, <2>1, <3>1 DEF JobsOrdered
    <2>3. ASSUME NEW i \in 1 .. Len(joblist) - 1, NEW j \in 1 .. Len(joblist) - 1, i < j
          PROVE  joblist'[i].jid < joblist'[j].jid
      <3>1. /\ i \in 1 .. Len(joblist) /\ i + 1 \in 1 .. Len(joblist)
            /\ j \in 1 .. Len(joblist) /\ j + 1 \in 1 .. Len(joblist)
            /\ i < j /\ i < j + 1 /\ i + 1 < j + 1 /\ (j < k => i < k)
        BY <1>5, <2>3
      <3> QED BY <1>4, <2>1, <3>1 DEF JobsOrdered
    <2>4. \A q \in Pid : child'[q].jid <= jid
      BY <1>2, Fewer
    <2>5. said' \subseteq 1 .. jid
      <3>1. joblist[k].jid \in Nat \ {0} /\ joblist[k].jid <= jid
        BY <2>1, EntryTyped DEF JobsOrdered
      <3>2. joblist[k].jid \in 1 .. jid
        BY <2>1, <3>1
      <3> QED BY <2>1, <3>2 DEF JobsOrdered
    <2> QED BY <1>4, <2>2, <2>3, <2>4, <2>5 DEF JobsOrdered
  <1>9. ChildrenKnown'
    <2>1. ChildrenKnown
      BY DEF ShInv
    <2> SUFFICES ASSUME NEW q \in Pid
          PROVE  /\ child'[q].state = "none" => ~child'[q].bg
                 /\ child'[q].state \in {"stopped", "told"} => child'[q].jid \in paused
                 /\ Alive(q)' /\ ~child'[q].bg => child'[q].jid \in paused
                 /\ child'[q].bg => \E i \in 1 .. Len(joblist') :
                                       joblist'[i].jid = child'[q].jid /\ joblist'[i].pid = q
      BY DEF ChildrenKnown, Jobs
    <2>2. CASE q = p
      BY <1>6, <2>2 DEF Alive
    <2>3. CASE q # p
      <3>1. child'[q] = child[q]
        BY <1>2, <2>3
      <3>2. /\ child[q].state = "none" => ~child[q].bg
            /\ child[q].state \in {"stopped", "told"} => child[q].jid \in paused
            /\ Alive(q) /\ ~child[q].bg => child[q].jid \in paused
            /\ child[q].bg => \E i \in Jobs(child[q].jid) : joblist[i].pid = q
        BY <2>1 DEF ChildrenKnown
      <3>3. ASSUME child[q].bg PROVE \E i \in 1 .. Len(joblist') :
                                       joblist'[i].jid = child'[q].jid /\ joblist'[i].pid = q
        <4>1. PICK i \in 1 .. Len(joblist) : joblist[i].jid = child[q].jid /\ joblist[i].pid = q
          BY <3>2, <3>3 DEF Jobs
        <4>2. i # k
          BY <2>3, <4>1
        <4>3. CASE i < k
          <5>1. i \in 1 .. Len(joblist')
            BY <1>4, <1>5, <4>3
          <5>2. joblist'[i] = joblist[i]
            BY <1>4, <4>3, <5>1
          <5> QED BY <3>1, <4>1, <5>1, <5>2 DEF Jobs
        <4>4. CASE ~ (i < k)
          <5>1. i - 1 \in 1 .. Len(joblist') /\ ~ (i - 1 < k) /\ (i - 1) + 1 = i
            BY <1>4, <1>5, <4>2, <4>4
          <5>2. joblist'[i - 1] = joblist[i]
            BY <1>4, <5>1
          <5> QED BY <3>1, <4>1, <5>1, <5>2 DEF Jobs
        <4> QED BY <4>3, <4>4
      <3> QED BY <3>1, <3>2, <3>3 DEF Alive
    <2> QED BY <2>2, <2>3
  <1>10. SaidIsOver'
    <2> SUFFICES ASSUME NEW n \in said' \ paused, NEW q \in Pid, child'[q].jid = n, Alive(q)'
                 PROVE  FALSE
      BY DEF SaidIsOver
    <2>1. Alive(q) /\ child[q].jid = n /\ child'[q] = child[q]
      BY <1>2, Fewer
    <2>2. CASE n \in said
      BY <2>1, <2>2 DEF ShInv, SaidIsOver
    <2>3. CASE n = joblist[k].jid
      <3>1. q # p
        BY <2>1
      <3>2. child[q].bg
        BY <2>1 DEF ShInv, ChildrenKnown
      <3>3. PICK i \in 1 .. Len(joblist) : joblist[i].jid = n /\ joblist[i].pid = q
        BY <2>1, <3>2 DEF ShInv, ChildrenKnown, Jobs
      <3>4. i = k
        BY <2>3, <3>3, OneNumber
      <3> QED BY <3>1, <3>3, <3>4
    <2> QED BY <2>2, <2>3
  <1> QED BY <1>7, <1>8, <1>9, <1>10 DEF ShInv

LEMMA ChildMoves ==
  ASSUME ShInv, NEW p \in Pid, NEW from, NEW to \in ChildStates, ChildState(p, from, to)
  PROVE  /\ child' \in [Pid -> [state : ChildStates, jid : Nat, bg : BOOLEAN]]
         /\ \A q \in Pid \ {p} : child'[q] = child[q]
         /\ child[p].state \in from
         /\ child'[p].state = to /\ child'[p].jid = child[p].jid /\ child'[p].bg = child[p].bg
  <1>1. /\ child \in [Pid -> [state : ChildStates, jid : Nat, bg : BOOLEAN]]
        /\ child' = [child EXCEPT ![p].state = to] /\ child[p].state \in from
    BY DEF ShInv, ShTyped, ChildState
  <1>2. child'[p] = [child[p] EXCEPT !.state = to] /\ \A q \in Pid \ {p} : child'[q] = child[q]
    BY <1>1
  <1>3. child[p] \in [state : ChildStates, jid : Nat, bg : BOOLEAN]
    BY <1>1
  <1>4. child' \in [Pid -> [state : ChildStates, jid : Nat, bg : BOOLEAN]]
    BY <1>1, <1>3
  <1> QED BY <1>1, <1>2, <1>3, <1>4

(* A live child stays one, or ends, or stops and so counts as paused; main *)
(* may have got out of its wait for it.                                    *)
LEMMA MoveKeeps ==
  ASSUME ShInv, NEW p \in Pid, NEW from \in SUBSET {"run", "stopped", "told"},
         NEW to \in {"run", "stopped", "told", "zombie"}, ChildState(p, from, to),
         paused \subseteq paused',
         to \in {"stopped", "told"} => child[p].jid \in paused',
         joblist' = joblist, jid' = jid,
         \/ shpc' = shpc /\ at' = at
         \/ shpc' = "prompt" /\ (shpc = "wait" /\ at \in Pid => at = p /\ to = "told"),
         said' \in SUBSET (1 .. jid),
         \A n \in (said' \ said) \ paused' : \A q \in Pid :
            child[q].jid = n => ~Alive(q)
  PROVE  ShInv'
  <1>1. /\ child' \in [Pid -> [state : ChildStates, jid : Nat, bg : BOOLEAN]]
        /\ \A q \in Pid \ {p} : child'[q] = child[q]
        /\ child[p].state \in from
        /\ child'[p].state = to /\ child'[p].jid = child[p].jid /\ child'[p].bg = child[p].bg
    BY ChildMoves DEF ChildStates
  <1>2. Alive(p) /\ \A q \in Pid : Alive(q)' => Alive(q)
    <2>1. Alive(p)
      BY <1>1 DEF Alive
    <2>2. ASSUME NEW q \in Pid, q # p, Alive(q)' PROVE Alive(q)
      BY <1>1, <2>2 DEF Alive
    <2> QED BY <2>1, <2>2
  <1>3. \A q \in Pid : child'[q].jid = child[q].jid /\ child'[q].bg = child[q].bg
    BY <1>1
  <1>4. ShTyped' /\ ShPlaces'
    BY <1>1 DEF ShInv, ShTyped, ShPlaces
  <1>5. JobsOrdered'
    BY <1>3 DEF ShInv, JobsOrdered
  <1>6. ChildrenKnown'
    <2>1. ChildrenKnown
      BY DEF ShInv
    <2> SUFFICES ASSUME NEW q \in Pid
          PROVE  /\ child'[q].state = "none" => ~child'[q].bg
                 /\ child'[q].state \in {"stopped", "told"} => child'[q].jid \in paused'
                 /\ Alive(q)' /\ ~child'[q].bg =>
                      (shpc' = "wait" /\ at' = q) \/ child'[q].jid \in paused'
                 /\ child'[q].bg => \E i \in 1 .. Len(joblist) :
                                       joblist[i].jid = child'[q].jid /\ joblist[i].pid = q
      BY DEF ChildrenKnown, Jobs
    <2>2. child'[q].state = "none" => ~child'[q].bg
      BY <1>1, <2>1 DEF ChildrenKnown
    <2>3. child'[q].state \in {"stopped", "told"} => child'[q].jid \in paused'
      BY <1>1, <2>1 DEF ChildrenKnown
    <2>4. child'[q].bg => \E i \in 1 .. Len(joblist) :
                            joblist[i].jid = child'[q].jid /\ joblist[i].pid = q
      BY <1>3, <2>1 DEF ChildrenKnown, Jobs
    <2>5. ASSUME Alive(q)', ~child'[q].bg
          PROVE  (shpc' = "wait" /\ at' = q) \/ child'[q].jid \in paused'
      <3>1. (shpc = "wait" /\ at = q) \/ child[q].jid \in paused
        BY <1>2, <1>3, <2>1, <2>5 DEF ChildrenKnown
      <3>2. CASE child[q].jid \in paused
        BY <1>3, <3>2
      <3>3. CASE shpc = "wait" /\ at = q
        <4>1. CASE shpc' = shpc /\ at' = at
          BY <3>3, <4>1
        <4>2. CASE q = p /\ to = "told"
          BY <1>3, <4>2
        <4> QED BY <3>3, <4>1, <4>2
      <3> QED BY <3>1, <3>2, <3>3
    <2> QED BY <2>2, <2>3, <2>4, <2>5
  <1>7. SaidIsOver'
    <2> SUFFICES ASSUME NEW n \in said' \ paused', NEW q \in Pid, child'[q].jid = n, Alive(q)'
                 PROVE  FALSE
      BY DEF SaidIsOver
    <2>1. Alive(q) /\ child[q].jid = n
      BY <1>2, <1>3
    <2>2. CASE n \in said
      BY <2>1, <2>2 DEF ShInv, SaidIsOver
    <2>3. CASE n \notin said
      BY <2>1, <2>3
    <2> QED BY <2>2, <2>3
  <1> QED BY <1>4, <1>5, <1>6, <1>7 DEF ShInv

LEMMA ChildStepKeeps == ShInv /\ ChildStep => ShInv'
  <1> SUFFICES ASSUME ShInv, ChildStep PROVE ShInv'
    OBVIOUS
  <1>1. UNCHANGED << joblist, jid, shpc, at, said >> /\ said \in SUBSET (1 .. jid)
    BY DEF ChildStep, ShInv, JobsOrdered
  <1>2. PICK p \in Pid :
          \/ ChildState(p, {"run", "stopped", "told"}, "zombie") /\ UNCHANGED paused
          \/ ChildState(p, {"run"}, "stopped") /\ paused' = paused \cup {child[p].jid}
          \/ ChildState(p, {"stopped", "told"}, "run") /\ UNCHANGED paused
    BY DEF ChildStep
  <1>3. CASE ChildState(p, {"run", "stopped", "told"}, "zombie") /\ UNCHANGED paused
    BY <1>1, <1>3, MoveKeeps
  <1>4. CASE ChildState(p, {"run"}, "stopped") /\ paused' = paused \cup {child[p].jid}
    BY <1>1, <1>4, MoveKeeps
  <1>5. CASE ChildState(p, {"stopped", "told"}, "run") /\ UNCHANGED paused
    BY <1>1, <1>5, MoveKeeps
  <1> QED BY <1>2, <1>3, <1>4, <1>5

(* Lines that start nobody.                                                *)
LEMMA QuietLinesKeep ==
  ShInv /\ (LoneAmpersand \/ ShExit \/ ListJobs) => ShInv'
  <1> SUFFICES ASSUME ShInv, LoneAmpersand \/ ShExit \/ ListJobs PROVE ShInv'
    OBVIOUS
  <1>1. /\ child' = child /\ joblist' = joblist /\ paused' = paused /\ said' = said
        /\ jid' \in {jid, jid + 1} /\ shpc = "prompt"
        /\ shpc' \in {"prompt", "j", "ended"} /\ (shpc' = "j" => at' = 1)
    BY DEF LoneAmpersand, ShExit, ListJobs, NewLine, Line, ShGoto
  <1>2. jid \in Nat /\ said \subseteq 1 .. jid
    BY DEF ShInv, ShTyped, JobsOrdered
  <1>3. jid' \in Nat /\ jid' >= jid /\ said' \in SUBSET (1 .. jid')
    BY <1>1, <1>2
  <1>4. /\ FewerChildren
        /\ child' \in [Pid -> [state : ChildStates, jid : Nat, bg : BOOLEAN]]
    BY <1>1 DEF FewerChildren, ShInv, ShTyped
  <1> QED BY <1>1, <1>3, <1>4, FewerKeep

LEMMA WaitForegroundKeeps == ShInv /\ WaitForeground => ShInv'
  <1> SUFFICES ASSUME ShInv, WaitForeground PROVE ShInv'
    OBVIOUS
  <1>1. /\ at \in Pid /\ shpc = "wait" /\ shpc' = "prompt"
        /\ UNCHANGED << joblist, jid, said, paused >>
        /\ said \in SUBSET (1 .. jid) /\ jid \in Nat /\ jid' >= jid
    BY DEF ShInv, ShTyped, ShPlaces, JobsOrdered, WaitForeground, ShGoto
  <1>2. CASE child[at].state = "zombie" /\ Reap(at)
    <2>1. /\ child' \in [Pid -> [state : ChildStates, jid : Nat, bg : BOOLEAN]]
          /\ FewerChildren /\ child'[at] = NoChild
      BY <1>1, <1>2, ReapTyped
    <2>3. \A p \in Pid : shpc = "wait" /\ at = p /\ Alive(p)' => child[p].jid \in paused
      <3> SUFFICES ASSUME NEW p \in Pid, at = p, Alive(p)' PROVE FALSE
        OBVIOUS
      <3>1. child'[p] = NoChild
        BY <2>1
      <3> QED BY <3>1 DEF Alive, NoChild
    <2> QED BY <1>1, <2>1, <2>3, FewerKeep
  <1>3. CASE ChildState(at, {"stopped"}, "told")
    <2>1. child[at].jid \in paused
      BY <1>1, <1>3 DEF ChildState, ShInv, ChildrenKnown
    <2> QED BY <1>1, <1>3, <2>1, MoveKeeps
  <1> QED BY <1>2, <1>3 DEF WaitForeground

(* A new child, in the foreground or with an entry of its own.             *)
LEMMA NewChildKeeps ==
  ASSUME ShInv, NEW p \in Pid, NEW bg \in BOOLEAN,
         child[p] = NoChild, child' = [child EXCEPT ![p] = Started(bg)],
         shpc = "prompt", jid' = jid + 1, said' = said, paused' = paused,
         bg => /\ joblist' = Append(joblist, [jid |-> jid', pid |-> p])
               /\ shpc' = shpc,
         ~bg => joblist' = joblist /\ shpc' = "wait" /\ at' = p
  PROVE  ShInv'
  <1>1. /\ jid \in Nat /\ jid' \in Nat \ {0} /\ joblist \in Seq(Job)
        /\ child \in [Pid -> [state : ChildStates, jid : Nat, bg : BOOLEAN]]
        /\ JobsOrdered /\ ChildrenKnown /\ SaidIsOver
    BY DEF ShInv, ShTyped
  <1>2. /\ child' \in [Pid -> [state : ChildStates, jid : Nat, bg : BOOLEAN]]
        /\ \A q \in Pid \ {p} : child'[q] = child[q]
        /\ child'[p].state = "run" /\ child'[p].jid = jid + 1 /\ child'[p].bg = bg
    <2>1. Started(bg) \in [state : ChildStates, jid : Nat, bg : BOOLEAN]
      BY <1>1 DEF Started, ChildStates
    <2>2. child'[p] = Started(bg)
      BY <1>1
    <2>3. Started(bg).state = "run" /\ Started(bg).jid = jid + 1 /\ Started(bg).bg = bg
      BY DEF Started
    <2>4. child' \in [Pid -> [state : ChildStates, jid : Nat, bg : BOOLEAN]]
      BY <1>1, <2>1
    <2> QED BY <1>1, <2>2, <2>3, <2>4
  <1>3. /\ joblist' \in Seq(Job) /\ Len(joblist) \in Nat
        /\ Len(joblist') = Len(joblist) + (IF bg THEN 1 ELSE 0)
        /\ \A i \in 1 .. Len(joblist) : joblist'[i] = joblist[i]
        /\ bg => joblist'[Len(joblist) + 1] = [jid |-> jid + 1, pid |-> p]
    <2>1. [jid |-> jid', pid |-> p] \in Job
      BY <1>1 DEF Job
    <2>2. Len(joblist) \in Nat
      BY <1>1, LenProperties
    <2>3. CASE bg
      <3> DEFINE job == [jid |-> jid', pid |-> p]
      <3>1. joblist' = Append(joblist, job) /\ job \in Job /\ job = [jid |-> jid + 1, pid |-> p]
        BY <2>1, <2>3
      <3> HIDE DEF job
      <3>2. /\ Append(joblist, job) \in Seq(Job) /\ Len(Append(joblist, job)) = Len(joblist) + 1
            /\ \A i \in 1 .. Len(joblist) : Append(joblist, job)[i] = joblist[i]
            /\ Append(joblist, job)[Len(joblist) + 1] = job
        BY <1>1, <3>1, AppendProperties
      <3> QED BY <2>2, <2>3, <3>1, <3>2
    <2>4. CASE ~bg
      BY <1>1, <2>2, <2>4
    <2> QED BY <2>2, <2>3, <2>4
  <1>4. ShTyped'
    BY <1>1, <1>2, <1>3 DEF ShTyped
  <1>5. ShPlaces'
    BY DEF ShPlaces
  <1>6. \A i \in 1 .. Len(joblist') : joblist'[i].jid \in Nat /\ joblist'[i].jid <= jid + 1
    <2> SUFFICES ASSUME NEW i \in 1 .. Len(joblist')
                 PROVE  joblist'[i].jid \in Nat /\ joblist'[i].jid <= jid + 1
      OBVIOUS
    <2>1. CASE i \in 1 .. Len(joblist)
      <3>1. joblist[i].jid \in Nat /\ joblist[i].jid <= jid
        BY <1>1, <2>1, EntryTyped DEF JobsOrdered
      <3> QED BY <1>1, <1>3, <2>1, <3>1
    <2>2. CASE i \notin 1 .. Len(joblist)
      <3>1. bg /\ i = Len(joblist) + 1
        BY <1>3, <2>2
      <3> QED BY <1>1, <1>3, <3>1
    <2> QED BY <2>1, <2>2
  <1>7. JobsOrdered'
    <2>1. ASSUME NEW i \in 1 .. Len(joblist'), NEW k \in 1 .. Len(joblist'), i < k
          PROVE  joblist'[i].jid < joblist'[k].jid
      <3>1. i \in 1 .. Len(joblist) /\ joblist[i].jid \in Nat /\ joblist[i].jid <= jid
        <4>1. i \in 1 .. Len(joblist)
          BY <1>3, <2>1
        <4> QED BY <1>1, <4>1, EntryTyped DEF JobsOrdered
      <3>2. CASE k \in 1 .. Len(joblist)
        BY <1>1, <1>3, <2>1, <3>1, <3>2 DEF JobsOrdered
      <3>3. CASE k \notin 1 .. Len(joblist)
        <4>1. joblist'[k].jid = jid + 1
          BY <1>3, <3>3
        <4> QED BY <1>1, <1>3, <3>1, <4>1
      <3> QED BY <3>2, <3>3
    <2>2. \A q \in Pid : child'[q].jid <= jid'
      <3>1. \A q \in Pid : child[q].jid \in Nat /\ child[q].jid <= jid
        BY <1>1 DEF JobsOrdered
      <3> QED BY <1>1, <1>2, <3>1
    <2>3. said' \subseteq 1 .. jid'
      BY <1>1 DEF JobsOrdered
    <2> QED BY <1>6, <2>1, <2>2, <2>3 DEF JobsOrdered
  <1>8. ChildrenKnown'
    <2> SUFFICES ASSUME NEW q \in Pid
          PROVE  /\ child'[q].state = "none" => ~child'[q].bg
                 /\ child'[q].state \in {"stopped", "told"} => child'[q].jid \in paused
                 /\ Alive(q)' /\ ~child'[q].bg =>
                      (shpc' = "wait" /\ at' = q) \/ child'[q].jid \in paused
                 /\ child'[q].bg => \E i \in 1 .. Len(joblist') :
                                       joblist'[i].jid = child'[q].jid /\ joblist'[i].pid = q
      BY DEF ChildrenKnown, Jobs
    <2>1. CASE q = p
      <3>1. child'[q].bg => \E i \in 1 .. Len(joblist') :
                              joblist'[i].jid = child'[q].jid /\ joblist'[i].pid = q
        <4> SUFFICES ASSUME bg
                     PROVE  \E i \in 1 .. Len(joblist') :
                              joblist'[i].jid = child'[q].jid /\ joblist'[i].pid = q
          BY <1>2, <2>1
        <4>1. Len(joblist) + 1 \in 1 .. Len(joblist')
          BY <1>3
        <4>2. /\ joblist'[Len(joblist) + 1].jid = child'[q].jid
              /\ joblist'[Len(joblist) + 1].pid = q
          <5>1. joblist'[Len(joblist) + 1] = [jid |-> jid + 1, pid |-> p]
            BY <1>3
          <5>2. child'[q].jid = jid + 1
            BY <1>2, <2>1
          <5> DEFINE job == [jid |-> jid + 1, pid |-> p]
          <5>3. job.jid = jid + 1 /\ job.pid = p
            OBVIOUS
          <5> HIDE DEF job
          <5>4. joblist'[Len(joblist) + 1] = job
            BY <5>1 DEF job
          <5> QED BY <2>1, <5>2, <5>3, <5>4
        <4> WITNESS Len(joblist) + 1 \in 1 .. Len(joblist')
        <4> QED BY <4>2
      <3> QED BY <1>2, <2>1, <3>1
    <2>2. CASE q # p
      <3>1. child'[q] = child[q]
        BY <1>2, <2>2
      <3>2. child[q].bg => \E i \in 1 .. Len(joblist') :
                              joblist'[i].jid = child'[q].jid /\ joblist'[i].pid = q
        <4> SUFFICES ASSUME child[q].bg
                     PROVE  \E i \in 1 .. Len(joblist') :
                              joblist'[i].jid = child'[q].jid /\ joblist'[i].pid = q
          OBVIOUS
        <4>1. PICK i \in 1 .. Len(joblist) : joblist[i].jid = child[q].jid /\ joblist[i].pid = q
          BY <1>1 DEF ChildrenKnown, Jobs
        <4>2. i \in 1 .. Len(joblist') /\ joblist'[i] = joblist[i]
          BY <1>3
        <4> QED BY <3>1, <4>1, <4>2
      <3>3. Alive(q)' /\ ~child'[q].bg => child'[q].jid \in paused
        BY <1>1, <3>1 DEF ChildrenKnown, Alive
      <3> QED BY <1>1, <3>1, <3>2, <3>3 DEF ChildrenKnown
    <2> QED BY <2>1, <2>2
  <1>9. SaidIsOver'
    <2> SUFFICES ASSUME NEW n \in said \ paused, NEW q \in Pid, child'[q].jid = n, Alive(q)'
                 PROVE  FALSE
      BY DEF SaidIsOver
    <2>1. n \in 1 .. jid
      BY <1>1 DEF JobsOrdered
    <2>2. q # p
      BY <1>1, <1>2, <2>1
    <2>3. Alive(q) /\ child[q].jid = n
      BY <1>2, <2>2 DEF Alive
    <2> QED BY <1>1, <2>3 DEF SaidIsOver
  <1> QED BY <1>4, <1>5, <1>7, <1>8, <1>9 DEF ShInv

LEMMA RunKeeps == ShInv /\ (RunForeground \/ RunBackground) => ShInv'
  <1> SUFFICES ASSUME ShInv, RunForeground \/ RunBackground PROVE ShInv'
    OBVIOUS
  <1>1. shpc = "prompt" /\ jid' = jid + 1 /\ said' = said /\ paused' = paused
    BY DEF RunForeground, RunBackground, NewLine, Line
  <1>2. ASSUME NEW p \in Pid, child[p] = NoChild, child' = [child EXCEPT ![p] = Started(FALSE)],
               ShGoto("wait", p), joblist' = joblist
        PROVE  ShInv'
    BY <1>1, <1>2, NewChildKeeps DEF ShGoto
  <1>3. ASSUME NEW p \in Pid, child[p] = NoChild, child' = [child EXCEPT ![p] = Started(TRUE)],
               joblist' = Append(joblist, [jid |-> jid', pid |-> p]), shpc' = shpc
        PROVE  ShInv'
    BY <1>1, <1>3, NewChildKeeps
  <1>4. CASE UNCHANGED << child, shpc, at >> /\ joblist' = joblist
    <2>1. jid \in Nat /\ said \subseteq 1 .. jid
      BY DEF ShInv, ShTyped, JobsOrdered
    <2>2. jid' \in Nat /\ jid' >= jid /\ said' \in SUBSET (1 .. jid')
      BY <1>1, <2>1
    <2>3. /\ FewerChildren
          /\ child' \in [Pid -> [state : ChildStates, jid : Nat, bg : BOOLEAN]]
      BY <1>4 DEF FewerChildren, ShInv, ShTyped
    <2> QED BY <1>1, <1>4, <2>2, <2>3, FewerKeep
  <1> QED BY <1>2, <1>3, <1>4 DEF RunForeground, RunBackground

LEMMA ListJobKeeps == ShInv /\ ListJob => ShInv'
  <1> SUFFICES ASSUME ShInv, ListJob PROVE ShInv'
    OBVIOUS
  <1>1. /\ shpc = "j" /\ at \in Nat \ {0} /\ UNCHANGED << jid, said, paused >>
        /\ jid \in Nat /\ said \in SUBSET (1 .. jid)
    BY DEF ListJob, ShInv, ShTyped, ShPlaces, JobsOrdered
  <1>2. CASE child' = child /\ joblist' = joblist /\ (ShGoto("prompt", 0) \/ ShGoto("j", at + 1))
    <2>1. /\ FewerChildren
          /\ child' \in [Pid -> [state : ChildStates, jid : Nat, bg : BOOLEAN]]
      BY <1>2 DEF FewerChildren, ShInv, ShTyped
    <2>2. shpc' \in {"prompt", "j"} /\ (shpc' = "j" => at' \in Nat \ {0}) /\ jid' >= jid
      BY <1>1, <1>2 DEF ShGoto
    <2> QED BY <1>1, <1>2, <2>1, <2>2, FewerKeep
  <1>3. CASE /\ at <= Len(joblist) /\ ~StillThere(joblist[at].pid)
             /\ Reap(joblist[at].pid) /\ joblist' = RemoveAt(joblist, at)
             /\ UNCHANGED << shpc, at >>
    <2>1. Len(joblist) \in Nat
      BY LenProperties DEF ShInv, ShTyped
    <2>2. at \in 1 .. Len(joblist)
      BY <1>1, <1>3, <2>1
    <2> QED BY <1>1, <1>3, <2>2, EntryGone DEF StillThere
  <1> QED BY <1>2, <1>3 DEF ListJob

(* myw of a number that is in no entry: whoever has it is over, or paused. *)
LEMMA WaitForJobKeeps == ShInv /\ (\E n \in 1 .. MaxJid : WaitForJob(n)) => ShInv'
  <1> SUFFICES ASSUME ShInv, NEW n, WaitForJob(n) PROVE ShInv'
    OBVIOUS
  <1>1. /\ shpc = "prompt" /\ n \in 1 .. jid /\ UNCHANGED << jid, paused >>
        /\ jid \in Nat /\ jid' >= jid /\ said \in SUBSET (1 .. jid) /\ ChildrenKnown
    BY DEF WaitForJob, Line, ShInv, ShTyped, JobsOrdered
  <1>2. ASSUME child' = child PROVE /\ FewerChildren
              /\ child' \in [Pid -> [state : ChildStates, jid : Nat, bg : BOOLEAN]]
    BY <1>2 DEF FewerChildren, ShInv, ShTyped
  <1>3. CASE /\ Jobs(n) = {} /\ said' = said \cup {n}
             /\ UNCHANGED << joblist, child, shpc, at >>
    <2>1. \A p \in Pid : child'[p].jid = n /\ Alive(p)' => n \in paused
      BY <1>1, <1>3 DEF ChildrenKnown, Alive
    <2> QED BY <1>1, <1>2, <1>3, <2>1, FewerKeep
  <1>4. ASSUME NEW k \in Jobs(n), ShGoto("myw", k), UNCHANGED << joblist, child, said >>
        PROVE  ShInv'
    <2>1. k \in 1 .. Len(joblist)
      BY DEF Jobs
    <2> QED BY <1>1, <1>2, <1>4, <2>1, FewerKeep DEF ShGoto
  <1>5. ASSUME NEW k \in Jobs(n), ~Alive(joblist[k].pid), Reap(joblist[k].pid),
               joblist' = RemoveAt(joblist, k), said' = said \cup {n}, UNCHANGED << shpc, at >>
        PROVE  ShInv'
    <2>1. k \in 1 .. Len(joblist) /\ joblist[k].jid = n
      BY DEF Jobs
    <2> QED BY <1>1, <1>5, <2>1, EntryGone
  <1> QED BY <1>3, <1>4, <1>5 DEF WaitForJob

LEMMA JobWaitedKeeps == ShInv /\ JobWaited => ShInv'
  <1> SUFFICES ASSUME ShInv, JobWaited PROVE ShInv'
    OBVIOUS
  <1> DEFINE p == joblist[at].pid
             n == joblist[at].jid
  <1>1. /\ shpc = "myw" /\ at \in 1 .. Len(joblist) /\ shpc' = "prompt"
        /\ said' = said \cup {n} /\ UNCHANGED << joblist, jid, paused >>
        /\ jid \in Nat /\ jid' >= jid /\ said \in SUBSET (1 .. jid)
        /\ ChildrenKnown /\ JobsOrdered
    BY DEF JobWaited, ShGoto, ShInv, ShTyped, ShPlaces, JobsOrdered
  <1>2. p \in Pid /\ n \in 1 .. jid
    <2>1. p \in Pid /\ n \in Nat \ {0} /\ n <= jid
      BY <1>1, EntryTyped DEF JobsOrdered
    <2> QED BY <1>1, <2>1
  <1>3. ASSUME NEW q \in Pid, q # p, child[q].jid = n, Alive(q) PROVE n \in paused
    <2> SUFFICES ASSUME child[q].bg PROVE FALSE
      BY <1>1, <1>3 DEF ChildrenKnown
    <2>1. PICK i \in 1 .. Len(joblist) : joblist[i].jid = n /\ joblist[i].pid = q
      BY <1>1, <1>3 DEF ChildrenKnown, Jobs
    <2>2. i = at
      BY <1>1, <2>1, OneNumber
    <2> QED BY <1>3, <2>1, <2>2
  <1>4. CASE child[p].state = "zombie" /\ Reap(p)
    <2>1. /\ child' \in [Pid -> [state : ChildStates, jid : Nat, bg : BOOLEAN]]
          /\ FewerChildren /\ child'[p] = NoChild
          /\ \A q \in Pid \ {p} : child'[q] = child[q]
      BY <1>2, <1>4, ReapTyped
    <2>2. \A q \in Pid : child'[q].jid = n /\ Alive(q)' => n \in paused
      <3> SUFFICES ASSUME NEW q \in Pid, child'[q].jid = n, Alive(q)' PROVE n \in paused
        OBVIOUS
      <3>1. q # p
        BY <2>1 DEF Alive, NoChild
      <3>2. child[q].jid = n /\ Alive(q)
        BY <2>1, <3>1 DEF Alive
      <3> QED BY <1>3, <3>1, <3>2
    <2> QED BY <1>1, <1>2, <2>1, <2>2, FewerKeep
  <1>5. CASE ChildState(p, {"stopped"}, "told")
    <2>1. child[p].jid \in paused
      BY <1>1, <1>2, <1>5 DEF ChildState, ChildrenKnown
    <2>2. \A q \in Pid : child[q].jid = n /\ Alive(q) => n \in paused
      BY <1>3, <2>1
    <2>3. \A m \in (said' \ said) \ paused' : \A q \in Pid : child[q].jid = m => ~Alive(q)
      BY <1>1, <2>2
    <2> HIDE DEF p, n
    <2> QED BY <1>1, <1>2, <1>5, <2>1, <2>3, MoveKeeps
  <1> QED BY <1>4, <1>5 DEF JobWaited

LEMMA ShNextKeeps == ShInv /\ [ShNext]_shvars => ShInv'
  <1>1. ShInv /\ UNCHANGED shvars => ShInv'
    BY DEF shvars, ShInv, ShTyped, ShPlaces, JobsOrdered, ChildrenKnown, SaidIsOver, Alive, Jobs
  <1> QED BY <1>1, ChildStepKeeps, QuietLinesKeep, WaitForegroundKeeps, RunKeeps, ListJobKeeps,
             WaitForJobKeeps, JobWaitedKeeps DEF ShNext

(* The shell's list has every background job that has not been waited for, *)
(* once, under its own pid, and "myw" tells no lies, although ended jobs   *)
(* stay in the list and their pids are given away again (mysh.c's joblist, *)
(* deletion in "j" and "myw").                                             *)
THEOREM JobsListed == ShInit /\ [][ShNext]_shvars => []JobsAreListed
  <1>1. ShInv => JobsAreListed
    <2> SUFFICES ASSUME ShInv PROVE JobsAreListed
      OBVIOUS
    <2>1. Len(joblist) \in Nat
      BY LenProperties DEF ShInv, ShTyped
    <2>2. \A k \in 2 .. Len(joblist) : joblist[k - 1].jid < joblist[k].jid
      <3> SUFFICES ASSUME NEW k \in 2 .. Len(joblist)
                   PROVE  joblist[k - 1].jid < joblist[k].jid
        OBVIOUS
      <3>1. k - 1 \in 1 .. Len(joblist) /\ k \in 1 .. Len(joblist) /\ k - 1 < k
        BY <2>1
      <3> QED BY <3>1 DEF ShInv, JobsOrdered
    <2>3. \A p \in Pid : child[p].bg => \E k \in Jobs(child[p].jid) : joblist[k].pid = p
      BY DEF ShInv, ChildrenKnown
    <2>4. \A n \in said \ paused : \A p \in Pid : child[p].jid = n => ~Alive(p)
      BY DEF ShInv, SaidIsOver
    <2> QED BY <2>2, <2>3, <2>4 DEF JobsAreListed
  <1> QED BY <1>1, ShInitInv, ShNextKeeps, PTL

---------------------------------------------------------------------------
(***************************************************************************)
(* Stats.  The entry with a client's pid is the one that stats_init gave   *)
(* it, and it is there to give it back, or it has failed - or there is no  *)
(* server any more.                                                        *)
(***************************************************************************)
StatsInv ==
  /\ pid \in [Entry -> Client \cup {EmptyEntry, ZeroEntry}]
  /\ pc \in [Client -> Pcs] /\ addr \in [Client -> Entry \cup {0}]
  /\ server \in {"start", "sem", "loop", "serve", "gone"}
  /\ server \in {"start", "sem"} =>
        \A c \in Client : pc[c] \in {"start", "handler", "gone"}
  /\ \A c \in Client : pc[c] = "init" => addr[c] \in Entry
  /\ \A c \in Client : \A i \in Entry : pid[i] = c =>
        /\ i = addr[c] /\ server \notin {"start", "sem"}
        /\ \/ pc[c] \in {"run", "handler", "attached_u", "search_u", "failed"}
           \/ pc[c] = "gone" /\ server = "gone"

LEMMA StatsInitInv == StatsAssumption /\ StatsInit => StatsInv
  <1> SUFFICES ASSUME StatsAssumption, StatsInit PROVE StatsInv
    OBVIOUS
  <1> USE DEF StatsAssumption, StatsInit
  <1>1. \A c \in Client : \A i \in Entry : pid[i] # c
    OBVIOUS
  <1>2. \A c \in Client : pc[c] = "start"
    OBVIOUS
  <1>3. pc \in [Client -> Pcs]
    BY DEF Pcs
  <1> QED BY <1>1, <1>2, <1>3 DEF StatsInv

(* Steps of the server, which has let nobody in before it has cleared the  *)
(* first entry.                                                            *)
LEMMA ServerKeeps ==
  ASSUME StatsAssumption, StatsInv,
         MakeSem \/ MakeTable \/ ClearEntry \/ ServerInt
  PROVE  StatsInv'
  <1>1. pc' = pc /\ addr' = addr
    BY DEF MakeSem, MakeTable, ClearEntry, ServerInt
  <1>2. CASE MakeSem \/ MakeTable \/ ServerInt
    <2>1. /\ pid' = pid /\ server' \in {"sem", "loop", "gone"}
          /\ server' \in {"start", "sem"} => server \in {"start", "sem"}
          /\ server # "gone"
      BY <1>2 DEF MakeSem, MakeTable, ServerInt
    <2> QED BY <1>1, <2>1 DEF StatsInv
  <1>3. CASE ClearEntry
    <2>1. /\ server = "loop" /\ server' \in {"loop", "serve"}
          /\ pid' = [pid EXCEPT ![cleared + 1] = EmptyEntry]
      BY <1>3 DEF ClearEntry
    <2>2. EmptyEntry \notin Client
      BY DEF StatsAssumption
    <2>3. pid' \in [Entry -> Client \cup {EmptyEntry, ZeroEntry}]
      BY <2>1 DEF StatsInv
    <2>4. \A i \in Entry : pid'[i] = pid[i] \/ pid'[i] = EmptyEntry
      BY <2>1 DEF StatsInv
    <2> QED BY <1>1, <2>1, <2>2, <2>3, <2>4 DEF StatsInv
  <1> QED BY <1>2, <1>3

(* A client goes on and leaves the table as it is.                         *)
LEMMA ClientGoes ==
  ASSUME StatsInv, NEW c \in Client, NEW to \in Pcs,
         pc' = [pc EXCEPT ![c] = to],
         pid' = pid, server' = server,
         addr' = addr \/ (pc[c] = "search" /\ \E i \in Entry : addr' = [addr EXCEPT ![c] = i]),
         to = "init" => addr'[c] \in Entry,
         server \in {"start", "sem"} => to \in {"handler", "gone"},
         pc[c] \in {"run", "handler", "attached_u", "search_u", "failed"} =>
           \/ to \in {"run", "handler", "attached_u", "search_u", "failed"}
           \/ to = "gone" /\ server = "gone"
           \/ \A i \in Entry : pid[i] # c,
         pc[c] = "gone" => FALSE
  PROVE  StatsInv'
  <1>1. /\ pc' \in [Client -> Pcs] /\ pc'[c] = to
        /\ \A d \in Client \ {c} : pc'[d] = pc[d]
    BY DEF StatsInv
  <1>2. /\ addr' \in [Client -> Entry \cup {0}]
        /\ \A d \in Client \ {c} : addr'[d] = addr[d]
    BY DEF StatsInv
  <1>3. ASSUME NEW d \in Client, NEW i \in Entry, pid[i] = d
        PROVE  /\ i = addr'[d] /\ server \notin {"start", "sem"}
               /\ \/ pc'[d] \in {"run", "handler", "attached_u", "search_u", "failed"}
                  \/ pc'[d] = "gone" /\ server = "gone"
    <2>1. /\ i = addr[d] /\ server \notin {"start", "sem"}
          /\ \/ pc[d] \in {"run", "handler", "attached_u", "search_u", "failed"}
             \/ pc[d] = "gone" /\ server = "gone"
      BY <1>3 DEF StatsInv
    <2>2. CASE d # c
      BY <1>1, <1>2, <2>1, <2>2
    <2>3. CASE d = c
      <3>1. addr' = addr
        BY <2>1, <2>3
      <3> QED BY <1>1, <1>3, <2>1, <2>3, <3>1
    <2> QED BY <2>2, <2>3
  <1> QED BY <1>1, <1>2, <1>3 DEF StatsInv

(* A client that fails leaves its entry as it is. *)
LEMMA FailsKeeps ==
  ASSUME StatsInv, NEW c \in Client, Fails(c) PROVE StatsInv'
  <1>1. /\ pid' = pid /\ server' = server /\ addr' = addr
        /\ pc[c] = "run" /\ pc' = [pc EXCEPT ![c] = "failed"]
    BY DEF Fails
  <1>2. "failed" \in Pcs /\ server \notin {"start", "sem"}
    BY <1>1 DEF Pcs, StatsInv
  <1> QED BY <1>1, <1>2, ClientGoes

(* The instance's Min is the library's.                                    *)
LEMMA StatsMin ==
  ASSUME NEW T \in SUBSET Nat, T # {} PROVE Min(T) \in T
  <1>1. Min(T) = Min(T)
    BY DEF Min, Min
  <1> QED BY <1>1, MinInSet

LEMMA SearchKeeps ==
  ASSUME StatsInv, NEW c \in Client, Search(c) PROVE StatsInv'
  <1>1. pc[c] = "search" /\ pid' = pid /\ server' = server /\ server \notin {"start", "sem"}
    BY DEF Search, StatsInv
  <1>2. CASE FreeEntries # {}
    <2>1. FreeEntries \in SUBSET Nat
      BY DEF FreeEntries, Entry
    <2>2. Min(FreeEntries) \in FreeEntries
      BY <1>2, <2>1, StatsMin
    <2>3. Min(FreeEntries) \in Entry
      BY <2>2 DEF FreeEntries
    <2>4. addr' = [addr EXCEPT ![c] = Min(FreeEntries)] /\ pc' = [pc EXCEPT ![c] = "init"]
      BY <1>2 DEF Search
    <2>5. addr'[c] \in Entry
      BY <2>3, <2>4 DEF StatsInv
    <2>6. "init" \in Pcs
      BY DEF Pcs
    <2> QED BY <1>1, <2>3, <2>4, <2>5, <2>6, ClientGoes
  <1>3. CASE FreeEntries = {}
    <2>1. pc' = [pc EXCEPT ![c] = "full"] /\ addr' = addr
      BY <1>3 DEF Search
    <2>2. "full" \in Pcs
      BY DEF Pcs
    <2> QED BY <1>1, <2>1, <2>2, ClientGoes
  <1> QED BY <1>2, <1>3

(* The other steps that leave the table alone.  A client that is not yet   *)
(* running has its pid in no entry, one that is running has it in addr.    *)
LEMMA QuietKeeps ==
  ASSUME StatsInv, NEW c \in Client,
         \/ Attach(c, "start", "attached") \/ sem_wait(c, "attached", "search")
         \/ GiveUp(c) \/ Interrupt(c)
         \/ Attach(c, "handler", "attached_u") \/ sem_wait(c, "attached_u", "search_u")
  PROVE  StatsInv'
  <1>0. PICK to \in Pcs : pc' = [pc EXCEPT ![c] = to]
    BY DEF Pcs, Attach, sem_wait, GiveUp, Interrupt
  <1>1. /\ pid' = pid /\ server' = server /\ addr' = addr
        /\ pc' = [pc EXCEPT ![c] = to] /\ pc'[c] = to
    BY <1>0 DEF StatsInv, Attach, sem_wait, GiveUp, Interrupt
  <1>2. to # "init" /\ pc[c] # "gone"
    BY <1>1 DEF StatsInv, Attach, sem_wait, GiveUp, Interrupt
  <1>3. server \in {"start", "sem"} => to \in {"handler", "gone"}
    BY <1>1 DEF StatsInv, Attach, sem_wait, GiveUp, Interrupt, NamesExist
  <1>4. server \in {"start", "sem", "loop", "serve", "gone"}
    BY DEF StatsInv
  <1>5. CASE pc[c] = "handler"
    <2>1. to \in {"attached_u", "gone"} /\ (to = "gone" => ~ NamesExist)
      BY <1>1, <1>5 DEF StatsInv, Attach, sem_wait, GiveUp, Interrupt
    <2>2. to = "gone" /\ server \in {"start", "sem"} => \A i \in Entry : pid[i] # c
      BY DEF StatsInv
    <2>3. \/ to = "attached_u"
          \/ to = "gone" /\ server = "gone"
          \/ \A i \in Entry : pid[i] # c
      BY <1>4, <2>1, <2>2 DEF NamesExist
    <2>4. pc[c] \in {"run", "handler", "attached_u", "search_u", "failed"} =>
            \/ to \in {"run", "handler", "attached_u", "search_u", "failed"}
            \/ to = "gone" /\ server = "gone"
            \/ \A i \in Entry : pid[i] # c
      BY <2>3
    <2> QED BY <1>1, <1>2, <1>3, <2>4, ClientGoes
  <1>6. CASE pc[c] # "handler"
    <2>1. /\ pc[c] \in {"run", "attached_u", "search_u"} => to \in {"handler", "search_u"}
          /\ pc[c] # "failed"
      BY <1>1, <1>6 DEF StatsInv, Attach, sem_wait, GiveUp, Interrupt
    <2>2. pc[c] \in {"run", "handler", "attached_u", "search_u", "failed"} =>
            \/ to \in {"run", "handler", "attached_u", "search_u", "failed"}
            \/ to = "gone" /\ server = "gone"
            \/ \A i \in Entry : pid[i] # c
      BY <1>6, <2>1
    <2> QED BY <1>1, <1>2, <1>3, <2>2, ClientGoes
  <1> QED BY <1>5, <1>6

LEMMA SetPidKeeps ==
  ASSUME StatsAssumption, StatsInv, NEW c \in Client, SetPid(c) PROVE StatsInv'
  <1>1. /\ pc[c] = "init" /\ pid' = [pid EXCEPT ![addr[c]] = c]
        /\ pc' = [pc EXCEPT ![c] = "run"] /\ server' = server /\ addr' = addr
    BY DEF SetPid
  <1>2. addr[c] \in Entry /\ server \notin {"start", "sem"}
    BY <1>1 DEF StatsInv
  <1>3. /\ pid' \in [Entry -> Client \cup {EmptyEntry, ZeroEntry}]
        /\ pc' \in [Client -> Pcs] /\ pc'[c] = "run"
        /\ \A d \in Client \ {c} : pc'[d] = pc[d]
        /\ \A i \in Entry : pid'[i] = IF i = addr[c] THEN c ELSE pid[i]
    BY <1>1, <1>2 DEF StatsInv, Pcs
  <1>4. \A i \in Entry : pid[i] # c
    BY <1>1 DEF StatsInv
  <1>5. ASSUME NEW d \in Client, NEW i \in Entry, pid'[i] = d
        PROVE  /\ i = addr'[d] /\ server' \notin {"start", "sem"}
               /\ \/ pc'[d] \in {"run", "handler", "attached_u", "search_u", "failed"}
                  \/ pc'[d] = "gone" /\ server' = "gone"
    <2>1. CASE i = addr[c]
      BY <1>1, <1>2, <1>3, <1>5, <2>1
    <2>2. CASE i # addr[c]
      <3>1. pid[i] = d /\ d # c
        BY <1>3, <1>4, <1>5, <2>2
      <3>2. /\ i = addr[d] /\ server \notin {"start", "sem"}
            /\ \/ pc[d] \in {"run", "handler", "attached_u", "search_u", "failed"}
               \/ pc[d] = "gone" /\ server = "gone"
        BY <3>1 DEF StatsInv
      <3> QED BY <1>1, <1>3, <3>1, <3>2
    <2> QED BY <2>1, <2>2
  <1>6. \A d \in Client : pc'[d] = "init" => addr'[d] \in Entry
    BY <1>1, <1>3 DEF StatsInv
  <1> QED BY <1>1, <1>2, <1>3, <1>5, <1>6 DEF StatsInv

(* A client has one entry at most, so that the one it clears was its last. *)
LEMMA UnlinkKeeps ==
  ASSUME StatsAssumption, StatsInv, NEW c \in Client, Unlink(c) PROVE StatsInv'
  <1>1. /\ pc[c] = "search_u" /\ pc' = [pc EXCEPT ![c] = "gone"]
        /\ server' = server /\ addr' = addr
    BY DEF Unlink
  <1>2. /\ pid' \in [Entry -> Client \cup {EmptyEntry, ZeroEntry}]
        /\ \A i \in Entry : pid'[i] \in {pid[i], EmptyEntry} /\ pid'[i] # c
    <2>1. CASE Mine(c) = {}
      <3>1. pid' = pid
        BY <2>1 DEF Unlink
      <3> QED BY <2>1, <3>1 DEF StatsInv, Mine
    <2>2. CASE Mine(c) # {}
      <3> DEFINE m == Min(Mine(c))
      <3>1. pid' = [pid EXCEPT ![m] = EmptyEntry]
        BY <2>2 DEF Unlink
      <3>2. Mine(c) \in SUBSET Nat
        BY DEF Mine, Entry
      <3>3. m \in Mine(c)
        BY <2>2, <3>2, StatsMin
      <3> HIDE DEF m
      <3>4. m \in Entry /\ pid[m] = c
        BY <3>3 DEF Mine
      <3>5. \A i \in Entry : pid[i] = c => i = addr[c]
        BY DEF StatsInv
      <3>6. \A i \in Entry : pid[i] = c => i = m
        BY <3>4, <3>5
      <3>7. EmptyEntry \notin Client
        BY DEF StatsAssumption
      <3> QED BY <3>1, <3>4, <3>6, <3>7 DEF StatsInv
    <2> QED BY <2>1, <2>2
  <1>3. /\ pc' \in [Client -> Pcs] /\ pc'[c] = "gone"
        /\ \A d \in Client \ {c} : pc'[d] = pc[d]
    BY <1>1 DEF StatsInv, Pcs
  <1>4. EmptyEntry \notin Client
    BY DEF StatsAssumption
  <1>5. ASSUME NEW d \in Client, NEW i \in Entry, pid'[i] = d
        PROVE  /\ i = addr'[d] /\ server' \notin {"start", "sem"}
               /\ \/ pc'[d] \in {"run", "handler", "attached_u", "search_u", "failed"}
                  \/ pc'[d] = "gone" /\ server' = "gone"
    <2>1. pid[i] = d /\ d # c
      BY <1>2, <1>4, <1>5
    <2>2. /\ i = addr[d] /\ server \notin {"start", "sem"}
          /\ \/ pc[d] \in {"run", "handler", "attached_u", "search_u", "failed"}
             \/ pc[d] = "gone" /\ server = "gone"
      BY <2>1 DEF StatsInv
    <2> QED BY <1>1, <1>3, <2>1, <2>2
  <1>6. \A d \in Client : pc'[d] = "init" => addr'[d] \in Entry
    BY <1>1, <1>3 DEF StatsInv
  <1>7. server \in {"start", "sem"} => \A d \in Client : pc'[d] \in {"start", "handler", "gone"}
    BY <1>3 DEF StatsInv
  <1> QED BY <1>1, <1>2, <1>3, <1>5, <1>6, <1>7 DEF StatsInv

LEMMA StatsNextKeeps ==
  StatsAssumption /\ StatsInv /\ [StatsNext]_(statsvars) => StatsInv'
  <1> SUFFICES ASSUME StatsAssumption, StatsInv, [StatsNext]_(statsvars) PROVE StatsInv'
    OBVIOUS
  <1>1. CASE Serve \/ ServerInt
    BY <1>1, ServerKeeps DEF Serve
  <1>2. ASSUME NEW c \in Client, Advance(c) \/ Fails(c) \/ Interrupt(c) PROVE StatsInv'
    BY <1>2, QuietKeeps, SearchKeeps, SetPidKeeps, UnlinkKeeps, FailsKeeps DEF Advance
  <1>3. CASE UNCHANGED statsvars
    BY <1>3 DEF statsvars, StatsInv
  <1> QED BY <1>1, <1>2, <1>3 DEF StatsNext

(* What the server prints belongs to a client that is still there, and has *)
(* no second entry (stats_init, stats_unlink and the client's SIGINT       *)
(* handler) - or to one that failed after it had set its pid.              *)
THEOREM PidsAlive == StatsSpec => []PidIsAlive
  <1>1. StatsInv => PidIsAlive
    BY DEF StatsInv, PidIsAlive, Present, Mine
  <1>2. StatsInit => StatsInv
    BY StatsAssumption, StatsInitInv
  <1>3. StatsInv /\ [StatsNext]_statsvars => StatsInv'
    BY StatsAssumption, StatsNextKeeps
  <1> QED BY <1>1, <1>2, <1>3, PTL DEF StatsSpec

---------------------------------------------------------------------------
(* Indexes of the ring. *)

(* The counts that are kept modulo UWrap can be added to as if they were   *)
(* not, and the size of the ring divides UWrap.                            *)
LEMMA PlusPlus ==
  ASSUME NEW d \in Nat \ {0}, NEW a \in Int, NEW n \in Int
  PROVE  ((a % d) + n) % d = (a + n) % d
  <1> DEFINE k == a \div d
             s == a % d
  <1>1. k \in Int /\ s \in 0 .. d - 1 /\ a = d * k + s
    BY Divide
  <1> HIDE DEF k, s
  <1>2. s + n \in Int /\ d * k \in Int
    BY <1>1, Product
  <1>3. (s + n + d * k) % d = (s + n) % d
    BY <1>1, <1>2, RemainderMoves
  <1>4. s + n + d * k = a + n
    BY <1>1, <1>2
  <1> QED BY <1>3, <1>4 DEF s

LEMMA DividesDivides ==
  ASSUME ConsoleAssumption, NEW a \in Int
  PROVE  (a % UWrap) % INPUT_BUF = a % INPUT_BUF
  <1> DEFINE k == a \div UWrap
             s == a % UWrap
             q == UWrap \div INPUT_BUF
  <1>0. INPUT_BUF \in Nat \ {0} /\ UWrap \in Nat \ {0} /\ UWrap % INPUT_BUF = 0
    BY DEF ConsoleAssumption
  <1>1. k \in Int /\ s \in 0 .. UWrap - 1 /\ a = UWrap * k + s
    BY <1>0, Divide
  <1>2. q \in Int /\ UWrap = INPUT_BUF * q + 0
    BY <1>0, Divide
  <1> HIDE DEF k, s, q
  <1>3. INPUT_BUF * q = UWrap
    BY <1>0, <1>2, Product
  <1>4. q * k \in Int /\ UWrap * k = INPUT_BUF * (q * k)
    <2>1. q * k \in Int
      BY <1>1, <1>2
    <2>2. (INPUT_BUF * q) * k = INPUT_BUF * (q * k)
      BY <1>0, <1>1, <1>2
    <2> QED BY <1>3, <2>1, <2>2
  <1>5. a = s + INPUT_BUF * (q * k)
    <2>1. UWrap * k \in Int
      BY <1>0, <1>1, Product
    <2> QED BY <1>1, <1>4, <2>1
  <1>6. (s + INPUT_BUF * (q * k)) % INPUT_BUF = s % INPUT_BUF
    <2>1. s \in Int /\ q * k \in Int
      BY <1>0, <1>1, <1>4
    <2> QED BY <1>0, <2>1, RemainderMoves
  <1> QED BY <1>5, <1>6 DEF s

LEMMA Small ==
  ASSUME NEW d \in Nat \ {0}, NEW n \in 0 .. d - 1
  PROVE  n % d = n
  BY Wrap

(* Indexes n apart.                                                        *)
LEMMA Ahead ==
  ASSUME NEW d \in Nat \ {0}, NEW a \in Int, NEW n \in Int, NEW m \in Int
  PROVE  (((a + n) % d) - ((a + m) % d)) % d = (n - m) % d
  <1> DEFINE A == a + n
             B == a + m
             x == A % d
             y == B % d
             k == B \div d
  <1>0. A \in Int /\ B \in Int /\ A - B = n - m
    OBVIOUS
  <1> HIDE DEF A, B
  <1>1. x \in Int /\ y \in 0 .. d - 1 /\ k \in Int /\ B = d * k + y
    BY <1>0, Divide
  <1>2. (x + (0 - y)) % d = (A + (0 - y)) % d
    <2>1. 0 - y \in Int
      BY <1>1
    <2> HIDE DEF y
    <2> QED BY <1>0, <2>1, PlusPlus
  <1> HIDE DEF x, y, k
  <1>3. d * k \in Int /\ A + (0 - y) = (n - m) + d * k /\ x - y = x + (0 - y) /\ n - m \in Int
    BY <1>0, <1>1, Product
  <1>4. ((n - m) + d * k) % d = (n - m) % d
    BY <1>1, <1>3, RemainderMoves
  <1>5. (x - y) % d = (n - m) % d
    BY <1>2, <1>3, <1>4
  <1>6. x = (a + n) % d /\ y = (a + m) % d
    BY DEF x, y, A, B
  <1> QED BY <1>5, <1>6

---------------------------------------------------------------------------
(* The ring has the text that is not read yet and then the line.           *)

Text == Char \ {"^U", "^H"}
Rpcs == {"user", "reading", "tosleep", "asleep", "woken"}

RingInv ==
  /\ r \in 0 .. UWrap - 1 /\ ring \in [0 .. INPUT_BUF - 1 -> Char]
  /\ unread \in Seq(Text) /\ line \in Seq(Text \ {"newline", "^D"})
  /\ Len(unread) + Len(line) <= INPUT_BUF
  /\ w = Plus(r, Len(unread)) /\ e = Plus(r, Len(unread) + Len(line))
  /\ \A i \in 1 .. Len(unread) : ring[(r + i - 1) % INPUT_BUF] = unread[i]
  /\ \A i \in 1 .. Len(line) : ring[(r + Len(unread) + i - 1) % INPUT_BUF] = line[i]

ReaderInv ==
  /\ rpc \in [Reader -> Rpcs] /\ inputlock \in Reader \cup {Unlocked}
  /\ given \in [Reader -> Seq(Char \ {"^D"})]
  /\ \A p \in Reader :
       /\ rpc[p] \in {"reading", "tosleep"} => inputlock = p
       /\ rpc[p] \in {"tosleep", "asleep"} => unread = << >>
       /\ \A i \in 1 .. Len(given[p]) :
            given[p][i] = "newline" => i = Len(given[p]) /\ rpc[p] = "user"

ConInv == RingInv /\ ReaderInv

(* What the indexes say.                                                   *)
LEMMA Indexes ==
  ASSUME ConsoleAssumption, RingInv
  PROVE  /\ INPUT_BUF \in Nat \ {0} /\ UWrap \in Nat \ {0} /\ UWrap > INPUT_BUF
         /\ r \in Int /\ Len(unread) \in Nat /\ Len(line) \in Nat
         /\ (w - r) % UWrap = Len(unread) /\ (e - w) % UWrap = Len(line)
         /\ (e - r) % UWrap = Len(unread) + Len(line)
         /\ \A n \in Int : /\ Plus(r, n) % INPUT_BUF = (r + n) % INPUT_BUF
                           /\ Plus(w, n) = Plus(r, Len(unread) + n)
                           /\ Plus(e, n) = Plus(r, Len(unread) + Len(line) + n)
         /\ r = Plus(r, 0)
  <1> DEFINE U == Len(unread)
             L == Len(line)
  <1>1. /\ INPUT_BUF \in Nat \ {0} /\ UWrap \in Nat \ {0} /\ UWrap > INPUT_BUF
        /\ r \in Int /\ U \in Nat /\ L \in Nat /\ U + L <= INPUT_BUF
        /\ r \in 0 .. UWrap - 1
        /\ w = (r + U) % UWrap /\ e = (r + (U + L)) % UWrap
    BY DEF ConsoleAssumption, RingInv, Plus
  <1> HIDE DEF U, L
  <1>2. r = (r + 0) % UWrap
    BY <1>1, Small
  <1>3. (w - r) % UWrap = (U - 0) % UWrap
    BY <1>1, <1>2, Ahead
  <1>4. (e - r) % UWrap = (U + L - 0) % UWrap
    BY <1>1, <1>2, Ahead
  <1>5. (e - w) % UWrap = (U + L - U) % UWrap
    BY <1>1, Ahead
  <1>6. /\ U - 0 = U /\ U + L - 0 = U + L /\ U + L - U = L
        /\ U \in 0 .. UWrap - 1 /\ U + L \in 0 .. UWrap - 1 /\ L \in 0 .. UWrap - 1
    BY <1>1
  <1>7. U % UWrap = U /\ (U + L) % UWrap = U + L /\ L % UWrap = L
    BY <1>1, <1>6, Small
  <1>8. ASSUME NEW n \in Int
        PROVE  /\ Plus(r, n) % INPUT_BUF = (r + n) % INPUT_BUF
               /\ Plus(w, n) = Plus(r, U + n)
               /\ Plus(e, n) = Plus(r, U + L + n)
    <2>0. /\ r + n \in Int /\ r + U \in Int /\ r + (U + L) \in Int
          /\ r + U + n = r + (U + n) /\ r + (U + L) + n = r + (U + L + n)
      BY <1>1
    <2>1. Plus(r, n) % INPUT_BUF = (r + n) % INPUT_BUF
      BY <2>0, DividesDivides DEF Plus
    <2>2. (w + n) % UWrap = (r + U + n) % UWrap
      BY <1>1, <2>0, PlusPlus
    <2>3. (e + n) % UWrap = (r + (U + L) + n) % UWrap
      BY <1>1, <2>0, PlusPlus
    <2> QED BY <2>0, <2>1, <2>2, <2>3 DEF Plus
  <1>9. /\ (w - r) % UWrap = U /\ (e - w) % UWrap = L /\ (e - r) % UWrap = U + L
        /\ r = Plus(r, 0)
    BY <1>2, <1>3, <1>4, <1>5, <1>6, <1>7 DEF Plus
  <1> QED BY <1>1, <1>8, <1>9 DEF U, L

LEMMA RingInitInv == ConsoleAssumption /\ ConInit => ConInv
  <1> SUFFICES ASSUME ConsoleAssumption, ConInit PROVE ConInv
    OBVIOUS
  <1>1. INPUT_BUF \in Nat \ {0} /\ UWrap \in Nat /\ UWrap > INPUT_BUF
    BY DEF ConsoleAssumption
  <1>2. /\ r = 0 /\ w = 0 /\ e = 0 /\ unread = << >> /\ line = << >>
        /\ ring = [i \in 0 .. INPUT_BUF - 1 |-> "a"]
        /\ Len(unread) = 0 /\ Len(line) = 0
    BY DEF ConInit
  <1>3. Plus(0, 0) = 0
    BY <1>1, Small DEF Plus
  <1>4. RingInv
    BY <1>1, <1>2, <1>3 DEF RingInv, Char
  <1>5. ReaderInv
    BY <1>2 DEF ConInit, ReaderInv, Rpcs
  <1> QED BY <1>4, <1>5 DEF ConInv

---------------------------------------------------------------------------
(* Typing. *)

(* The line has room for another character if the ring has, and the end of *)
(* the line or of the ring makes it readable.                              *)
LEMMA EndsWhen ==
  ASSUME ConsoleAssumption, RingInv, NEW c \in Text, Room
  PROVE  /\ Len(unread) + Len(line) < INPUT_BUF
         /\ Ends(c) <=> \/ Len(unread) + Len(line) + 1 = INPUT_BUF
                       \/ c \in {"newline", "^D"}
  <1> DEFINE T == Len(unread) + Len(line)
  <1>1. /\ INPUT_BUF \in Nat \ {0} /\ UWrap \in Nat \ {0} /\ UWrap > INPUT_BUF
        /\ r \in Int /\ T \in Nat /\ (e - r) % UWrap = T
        /\ Plus(e, 1) = Plus(r, T + 1)
    BY Indexes
  <1> HIDE DEF T
  <1>2. T < INPUT_BUF
    BY <1>1 DEF Room
  <1>3. Plus(r, T + 1) = Plus(r, INPUT_BUF) <=> T + 1 = INPUT_BUF
    <2>1. ASSUME T + 1 # INPUT_BUF PROVE Plus(r, T + 1) # Plus(r, INPUT_BUF)
      <3> DEFINE a == r + (T + 1)
                 b == r + INPUT_BUF
      <3>1. a \in Int /\ b \in Int /\ a < b /\ b < a + UWrap
        BY <1>1, <1>2, <2>1
      <3> HIDE DEF a, b
      <3>2. a % UWrap # b % UWrap
        BY <1>1, <3>1, RemaindersDiffer
      <3> QED BY <3>2 DEF a, b, Plus
    <2> QED BY <2>1
  <1> QED BY <1>1, <1>2, <1>3 DEF Ends, T

(* A character goes behind those that the ring has and changes none of     *)
(* them.                                                                   *)
LEMMA CellsApart ==
  ASSUME ConsoleAssumption, r \in Int, NEW i \in Nat, NEW j \in Nat,
         i < INPUT_BUF, j < INPUT_BUF, i # j
  PROVE  /\ (r + i) % INPUT_BUF \in 0 .. INPUT_BUF - 1
         /\ (r + i) % INPUT_BUF # (r + j) % INPUT_BUF
  <1> DEFINE a == r + i
             b == r + j
  <1>1. INPUT_BUF \in Nat \ {0}
    BY DEF ConsoleAssumption
  <1>2. a \in Int /\ b \in Int /\ (a < b \/ b < a) /\ b < a + INPUT_BUF /\ a < b + INPUT_BUF
    BY <1>1
  <1> HIDE DEF a, b
  <1>3. a % INPUT_BUF # b % INPUT_BUF /\ a % INPUT_BUF \in 0 .. INPUT_BUF - 1
    BY <1>1, <1>2, RemaindersDiffer, Divide
  <1> QED BY <1>3 DEF a, b

LEMMA EnterKeepsRing ==
  ASSUME ConsoleAssumption, RingInv, NEW c \in Text, Enter(c), r' = r
  PROVE  RingInv'
  <1> DEFINE U == Len(unread)
             L == Len(line)
             x == (r + (U + L)) % INPUT_BUF
  <1>1. /\ INPUT_BUF \in Nat \ {0} /\ UWrap \in Nat \ {0} /\ UWrap > INPUT_BUF
        /\ r \in Int /\ U \in Nat /\ L \in Nat
        /\ e = Plus(r, U + L) /\ w = Plus(r, U)
        /\ Plus(r, U + L) % INPUT_BUF = (r + (U + L)) % INPUT_BUF
        /\ Plus(e, 1) = Plus(r, U + L + 1)
    <2>1. U + L \in Int
      BY Indexes
    <2> QED BY <2>1, Indexes DEF RingInv
  <1>2. U + L < INPUT_BUF /\ (Ends(c) <=> U + L + 1 = INPUT_BUF \/ c \in {"newline", "^D"})
    BY EndsWhen DEF Enter
  <1>3. /\ unread \in Seq(Text) /\ line \in Seq(Text \ {"newline", "^D"})
        /\ line \in Seq(Text)
        /\ ring \in [0 .. INPUT_BUF - 1 -> Char]
        /\ \A i \in 1 .. U : ring[(r + i - 1) % INPUT_BUF] = unread[i]
        /\ \A i \in 1 .. L : ring[(r + U + i - 1) % INPUT_BUF] = line[i]
        /\ r \in 0 .. UWrap - 1
    BY DEF RingInv
  <1>4. ring' = [ring EXCEPT ![x] = c] /\ e' = Plus(r, U + L + 1) /\ x \in 0 .. INPUT_BUF - 1
    <2>1. ring' = [ring EXCEPT ![x] = c] /\ e' = Plus(r, U + L + 1)
      BY <1>1 DEF Enter
    <2>2. r + (U + L) \in Int
      BY <1>1
    <2> QED BY <1>1, <2>1, <2>2, Divide
  <1>5. ring' \in [0 .. INPUT_BUF - 1 -> Char]
    BY <1>3, <1>4 DEF Text
  <1>6. ASSUME NEW i \in 0 .. U + L - 1
        PROVE  ring'[(r + i) % INPUT_BUF] = ring[(r + i) % INPUT_BUF]
    <2>1. i \in Nat /\ U + L \in Nat /\ i < INPUT_BUF /\ i # U + L
      BY <1>1, <1>2
    <2>2. (r + i) % INPUT_BUF \in 0 .. INPUT_BUF - 1 /\ (r + i) % INPUT_BUF # x
      BY <1>1, <1>2, <2>1, CellsApart
    <2> QED BY <1>3, <1>4, <2>2
  <1>7. \A i \in 1 .. U : ring'[(r + i - 1) % INPUT_BUF] = unread[i]
    <2> TAKE i \in 1 .. U
    <2>1. i - 1 \in 0 .. U + L - 1 /\ r + i - 1 = r + (i - 1)
      BY <1>1
    <2> QED BY <1>3, <1>6, <2>1
  <1>8. \A i \in 1 .. L : ring'[(r + U + i - 1) % INPUT_BUF] = line[i]
    <2> TAKE i \in 1 .. L
    <2>1. U + i - 1 \in 0 .. U + L - 1 /\ r + U + i - 1 = r + (U + i - 1)
      BY <1>1
    <2> QED BY <1>3, <1>6, <2>1
  <1>9. ring'[(r + (U + L)) % INPUT_BUF] = c
    BY <1>3, <1>4
  <1> DEFINE text == Append(line, c)
  <1>10. /\ text \in Seq(Text) /\ Len(text) = L + 1 /\ text[L + 1] = c
         /\ \A i \in 1 .. L : text[i] = line[i]
    BY <1>3
  <1>11. \A i \in 1 .. L + 1 : ring'[(r + U + i - 1) % INPUT_BUF] = text[i]
    <2> TAKE i \in 1 .. L + 1
    <2>1. CASE i \in 1 .. L
      BY <1>8, <1>10, <2>1
    <2>2. CASE i = L + 1
      <3>1. r + U + i - 1 = r + (U + L)
        BY <1>1, <2>2
      <3> HIDE DEF text
      <3> QED BY <1>9, <1>10, <2>2, <3>1
    <2>3. L \in Nat
      BY <1>1
    <2>4. i \in 1 .. L \/ i = L + 1
      BY <2>3
    <2> QED BY <2>1, <2>2, <2>4
  <1> HIDE DEF x
  <1>12. CASE Ends(c)
    <2>1. /\ w' = Plus(r, U + L + 1) /\ unread' = unread \o text /\ line' = << >>
      BY <1>1, <1>2, <1>12 DEF Enter
    <2> HIDE DEF text
    <2>2. /\ unread' \in Seq(Text) /\ Len(unread') = U + (L + 1) /\ Len(line') = 0
          /\ \A i \in 1 .. U : unread'[i] = unread[i]
          /\ \A i \in 1 .. L + 1 : unread'[U + i] = text[i]
          /\ line' \in Seq(Text \ {"newline", "^D"})
      <3>1. /\ Len(unread \o text) = Len(unread) + Len(text)
            /\ \A i \in 1 .. Len(unread) + Len(text) :
                  (unread \o text)[i] = IF i <= Len(unread) THEN unread[i] ELSE text[i - Len(unread)]
        <4>1. unread \in Seq(Text) /\ text \in Seq(Text)
          BY <1>3, <1>10
        <4> QED BY <4>1, ConcatProperties
      <3>2. unread \o text \in Seq(Text)
        BY <1>3, <1>10, ConcatProperties
      <3>3. \A i \in 1 .. U : unread'[i] = unread[i]
        BY <1>1, <1>10, <2>1, <3>1
      <3>4. \A i \in 1 .. L + 1 : unread'[U + i] = text[i]
        BY <1>1, <1>10, <2>1, <3>1
      <3> QED BY <1>1, <1>10, <2>1, <3>1, <3>2, <3>3, <3>4
    <2>3. \A i \in 1 .. U + (L + 1) : ring'[(r + i - 1) % INPUT_BUF] = unread'[i]
      <3> TAKE i \in 1 .. U + (L + 1)
      <3>1. CASE i \in 1 .. U
        BY <1>7, <2>2, <3>1
      <3>2. CASE i \notin 1 .. U
        <4> DEFINE j == i - U
        <4>1. j \in 1 .. L + 1 /\ U + j = i /\ r + U + j - 1 = r + i - 1
          BY <1>1, <3>2
        <4> HIDE DEF j
        <4> QED BY <1>11, <2>2, <4>1
      <3> QED BY <3>1, <3>2
    <2>4. U + (L + 1) <= INPUT_BUF /\ U + (L + 1) + 0 = U + L + 1 /\ U + (L + 1) = U + L + 1
      BY <1>1, <1>2
    <2>5. Len(unread') = U + L + 1 /\ Len(line') = 0 /\ U + L + 1 + 0 = U + L + 1
      BY <1>1, <2>2, <2>4
    <2>6. w' = Plus(r, Len(unread')) /\ e' = Plus(r, Len(unread') + Len(line'))
      BY <1>4, <2>1, <2>5
    <2>7. r' \in 0 .. UWrap - 1 /\ Len(unread') + Len(line') <= INPUT_BUF
      BY <1>3, <2>4, <2>5
    <2>8. \A i \in 1 .. Len(unread') : ring'[(r' + i - 1) % INPUT_BUF] = unread'[i]
      BY <2>3, <2>4, <2>5
    <2>9. \A i \in 1 .. Len(line') : ring'[(r' + Len(unread') + i - 1) % INPUT_BUF] = line'[i]
      BY <2>5
    <2> QED BY <1>5, <2>2, <2>6, <2>7, <2>8, <2>9 DEF RingInv, Plus
  <1>13. CASE ~ Ends(c)
    <2>1. /\ w' = w /\ unread' = unread /\ line' = text
      BY <1>1, <1>2, <1>13 DEF Enter
    <2>2. text \in Seq(Text \ {"newline", "^D"})
      BY <1>2, <1>3, <1>13
    <2> HIDE DEF text
    <2>3. U + (L + 1) <= INPUT_BUF /\ U + (L + 1) = U + L + 1
      BY <1>1, <1>2
    <2>5. Len(unread') = U /\ Len(line') = L + 1
      BY <1>10, <2>1
    <2>6. w' = Plus(r, Len(unread')) /\ e' = Plus(r, Len(unread') + Len(line'))
      BY <1>1, <1>4, <2>1, <2>3, <2>5
    <2>7. r' \in 0 .. UWrap - 1 /\ Len(unread') + Len(line') <= INPUT_BUF
      BY <1>3, <2>3, <2>5
    <2>8. \A i \in 1 .. Len(unread') : ring'[(r' + i - 1) % INPUT_BUF] = unread'[i]
      BY <1>7, <2>1, <2>5
    <2>9. \A i \in 1 .. Len(line') : ring'[(r' + Len(unread') + i - 1) % INPUT_BUF] = line'[i]
      BY <1>11, <2>1, <2>5
    <2> QED BY <1>3, <1>5, <2>1, <2>2, <2>6, <2>7, <2>8, <2>9 DEF RingInv, Plus
  <1> QED BY <1>12, <1>13

(* Erasing takes from the line only.                                       *)
LEMMA CutKeepsRing ==
  ASSUME ConsoleAssumption, RingInv, NEW n \in 0 .. Len(line),
         e' = Plus(r, Len(unread) + n), line' = SubSeq(line, 1, n),
         UNCHANGED << ring, r, w, unread >>
  PROVE  RingInv'
  <1>1. Len(line) \in Nat /\ Len(unread) \in Nat /\ n \in Nat
    <2>1. Len(line) \in Nat /\ Len(unread) \in Nat
      BY Indexes
    <2> QED BY <2>1
  <1>2. line' \in Seq(Text \ {"newline", "^D"}) /\ Len(line') = n
        /\ \A i \in 1 .. n : line'[i] = line[i]
    BY <1>1 DEF RingInv
  <1>3. INPUT_BUF \in Nat
    BY DEF ConsoleAssumption
  <1>4. /\ r' = r /\ w' = w /\ unread' = unread /\ ring' = ring
        /\ e' = Plus(r, Len(unread) + n)
    OBVIOUS
  <1>5. /\ Len(unread') + Len(line') <= INPUT_BUF /\ r' \in 0 .. UWrap - 1
        /\ ring' \in [0 .. INPUT_BUF - 1 -> Char] /\ unread' \in Seq(Text)
    BY <1>1, <1>2, <1>3, <1>4 DEF RingInv
  <1>6. w' = Plus(r, Len(unread')) /\ e' = Plus(r, Len(unread') + Len(line'))
    BY <1>2, <1>4 DEF RingInv
  <1>7. \A i \in 1 .. Len(unread') : ring'[(r' + i - 1) % INPUT_BUF] = unread'[i]
    BY <1>4 DEF RingInv
  <1>8. \A i \in 1 .. Len(line') : ring'[(r' + Len(unread') + i - 1) % INPUT_BUF] = line'[i]
    <2>1. \A i \in 1 .. n : i \in 1 .. Len(line)
      BY <1>1
    <2> QED BY <1>2, <1>4, <2>1 DEF RingInv
  <1> QED BY <1>2, <1>4, <1>5, <1>6, <1>7, <1>8 DEF RingInv, Plus

LEMMA EraseKeepsRing ==
  ASSUME ConsoleAssumption, RingInv, Erase, UNCHANGED << ring, r, w, unread >>
  PROVE  RingInv'
  <1> DEFINE L == Len(line)
  <1>1. L \in Nat /\ (e - w) % UWrap = L /\ line \in Seq(Text \ {"newline", "^D"})
    BY Indexes DEF RingInv
  <1>2. CASE L = 0
    <2>1. e = w
      BY <1>1, <1>2, Indexes DEF RingInv
    <2>2. line = << >>
      BY <1>1, <1>2, EmptySeq
    <2>3. e' = e /\ line' = line
      BY <2>1, <2>2 DEF Erase
    <2> QED BY <2>3 DEF RingInv, Plus
  <1>3. CASE L # 0
    <2>1. e # w
      <3>1. INPUT_BUF \in Nat \ {0} /\ UWrap \in Nat \ {0} /\ w \in Int
        BY Indexes, Divide DEF RingInv, Plus
      <3>2. (w - w) % UWrap = 0
        BY <3>1
      <3> QED BY <1>1, <1>3, <3>2
    <2>2. line # << >>
      BY <1>3
    <2>3. e' = Plus(e, -1) /\ line' = SubSeq(line, 1, L - 1)
      BY <2>1, <2>2 DEF Erase, Front
    <2>4. -1 \in Int /\ Len(unread) \in Nat /\ Len(unread) + L + (-1) = Len(unread) + (L - 1)
      BY <1>1, Indexes
    <2>5. e' = Plus(r, Len(unread) + (L - 1))
      BY <2>3, <2>4, Indexes
    <2>6. L - 1 \in 0 .. L
      BY <1>1, <1>3
    <2> QED BY <2>3, <2>5, <2>6, CutKeepsRing
  <1> QED BY <1>2, <1>3

(* There is no newline in the line, so that ^U goes back to w.             *)
LEMMA KillLineKeepsRing ==
  ASSUME ConsoleAssumption, RingInv, KillLine, UNCHANGED << ring, r, w, unread >>
  PROVE  RingInv'
  <1> DEFINE U == Len(unread)
             L == Len(line)
             cells == {n \in 0 .. (e - w) % UWrap :
                         \A m \in 1 .. n : ring[Plus(e, -m) % INPUT_BUF] # "newline"}
             most == CHOOSE n \in cells : \A m \in cells : m <= n
  <1>1. /\ INPUT_BUF \in Nat \ {0} /\ r \in Int /\ U \in Nat /\ L \in Nat /\ (e - w) % UWrap = L
    BY Indexes
  <1>2. ASSUME NEW m \in 1 .. L
        PROVE  ring[Plus(e, -m) % INPUT_BUF] # "newline"
    <2> DEFINE i == L - m + 1
    <2>1. /\ i \in 1 .. L /\ -m \in Int /\ U + L + (-m) \in Int
          /\ r + (U + L + (-m)) = r + U + i - 1
      BY <1>1
    <2>2. Plus(e, -m) = Plus(r, U + L + (-m))
      BY <2>1, Indexes
    <2>3. Plus(r, U + L + (-m)) % INPUT_BUF = (r + (U + L + (-m))) % INPUT_BUF
      BY <2>1, Indexes
    <2> HIDE DEF i
    <2>4. ring[(r + U + i - 1) % INPUT_BUF] = line[i] /\ line[i] # "newline"
      BY <2>1 DEF RingInv
    <2>5. Plus(e, -m) % INPUT_BUF = (r + U + i - 1) % INPUT_BUF
      BY <2>1, <2>2, <2>3
    <2> QED BY <2>4, <2>5
  <1>3. cells = 0 .. L
    <2>1. \A n \in 0 .. L : \A m \in 1 .. n : m \in 1 .. L
      BY <1>1
    <2>2. \A n \in 0 .. L : \A m \in 1 .. n : ring[Plus(e, -m) % INPUT_BUF] # "newline"
      BY <1>2, <2>1
    <2> QED BY <1>1, <2>2
  <1>4. e' = Plus(e, -most) /\ line' = << >>
    BY DEF KillLine
  <1> HIDE DEF cells
  <1>5. L \in cells /\ (\A m \in cells : m <= L) /\ (\A n \in cells : L <= n => n = L)
    BY <1>1, <1>3
  <1>6. most = L
    BY <1>5
  <1> HIDE DEF most
  <1>7. -L \in Int /\ U + L + (-L) = U + 0 /\ 0 \in 0 .. L
    BY <1>1
  <1>8. e' = Plus(r, U + 0)
    BY <1>4, <1>6, <1>7, Indexes
  <1>9. line' = SubSeq(line, 1, 0)
    BY <1>4
  <1> QED BY <1>7, <1>8, <1>9, CutKeepsRing

(* Reading takes the first character of the text.                          *)
LEMMA FirstChar ==
  ASSUME ConsoleAssumption, RingInv, r # w
  PROVE  /\ unread # << >> /\ Len(unread) \in Nat \ {0}
         /\ ring[r % INPUT_BUF] = Head(unread) /\ Head(unread) \in Text
  <1>1. Len(unread) # 0
    BY Indexes DEF RingInv
  <1>2. Len(unread) \in Nat /\ r \in Int /\ unread \in Seq(Text)
    BY Indexes DEF RingInv
  <1>3. 1 \in 1 .. Len(unread) /\ r + 1 - 1 = r
    BY <1>1, <1>2
  <1>4. ring[(r + 1 - 1) % INPUT_BUF] = unread[1]
    BY <1>3 DEF RingInv
  <1> QED BY <1>1, <1>2, <1>3, <1>4

LEMMA TakeKeepsRing ==
  ASSUME ConsoleAssumption, RingInv, r # w, r' = Plus(r, 1), unread' = Tail(unread),
         UNCHANGED << ring, w, e, line >>
  PROVE  RingInv'
  <1> DEFINE U == Len(unread)
             L == Len(line)
             q == Plus(r, 1)
  <1>1. /\ INPUT_BUF \in Nat \ {0} /\ UWrap \in Nat \ {0}
        /\ r \in Int /\ U \in Nat \ {0} /\ L \in Nat
    BY Indexes, FirstChar
  <1>2. /\ unread' \in Seq(Text) /\ Len(unread') = U - 1
        /\ \A i \in 1 .. U - 1 : unread'[i] = unread[i + 1]
    <2>1. unread \in Seq(Text) /\ unread # << >>
      BY FirstChar DEF RingInv
    <2> QED BY <1>1, <2>1
  <1>3. q \in 0 .. UWrap - 1
    BY <1>1, Divide DEF Plus
  <1>4. ASSUME NEW n \in Int
        PROVE  /\ Plus(q, n) = Plus(r, n + 1)
               /\ (q + n) % INPUT_BUF = (r + (n + 1)) % INPUT_BUF
    <2> DEFINE a == r + 1
               x == a % UWrap
    <2>1. a \in Int /\ a + n = r + (n + 1)
      BY <1>1
    <2> HIDE DEF a
    <2>2. (x + n) % UWrap = (a + n) % UWrap /\ x \in Int
      <3>1. (x + n) % UWrap = (a + n) % UWrap
        BY <1>1, <2>1, PlusPlus
      <3>2. x \in 0 .. UWrap - 1
        BY <1>1, <2>1, Divide
      <3> HIDE DEF x
      <3> QED BY <1>1, <3>1, <3>2
    <2>3. x % INPUT_BUF = a % INPUT_BUF
      BY <2>1, DividesDivides
    <2> HIDE DEF x
    <2>4. ((x % INPUT_BUF) + n) % INPUT_BUF = (x + n) % INPUT_BUF
      BY <1>1, <2>2, PlusPlus
    <2>5. ((a % INPUT_BUF) + n) % INPUT_BUF = (a + n) % INPUT_BUF
      BY <1>1, <2>1, PlusPlus
    <2>6. q = x
      BY DEF x, a, Plus
    <2> HIDE DEF q
    <2> QED BY <2>1, <2>2, <2>3, <2>4, <2>5, <2>6 DEF Plus
  <1>5. w' = Plus(q, U - 1) /\ e' = Plus(q, U - 1 + L)
    <2>1. U - 1 \in Int /\ U - 1 + L \in Int /\ U - 1 + 1 = U /\ U - 1 + L + 1 = U + L
      BY <1>1
    <2>2. Plus(q, U - 1) = Plus(r, U) /\ Plus(q, U - 1 + L) = Plus(r, U + L)
      <3> HIDE DEF q
      <3> QED BY <1>4, <2>1
    <2> QED BY <2>2 DEF RingInv
  <1> HIDE DEF q
  <1>6. \A i \in 1 .. U - 1 : ring[(q + i - 1) % INPUT_BUF] = unread'[i]
    <2> TAKE i \in 1 .. U - 1
    <2>1. /\ i - 1 \in Int /\ q + i - 1 = q + (i - 1) /\ r + (i - 1 + 1) = r + (i + 1) - 1
          /\ i + 1 \in 1 .. U
      BY <1>1, <1>3
    <2>2. (q + i - 1) % INPUT_BUF = (r + (i + 1) - 1) % INPUT_BUF
      BY <1>4, <2>1
    <2>3. ring[(r + (i + 1) - 1) % INPUT_BUF] = unread[i + 1]
      BY <2>1 DEF RingInv
    <2> QED BY <1>2, <2>2, <2>3
  <1>7. \A i \in 1 .. L : ring[(q + (U - 1) + i - 1) % INPUT_BUF] = line[i]
    <2> TAKE i \in 1 .. L
    <2>1. /\ U - 1 + i - 1 \in Int /\ q + (U - 1) + i - 1 = q + (U - 1 + i - 1)
          /\ r + (U - 1 + i - 1 + 1) = r + U + i - 1
      BY <1>1, <1>3
    <2>2. (q + (U - 1) + i - 1) % INPUT_BUF = (r + U + i - 1) % INPUT_BUF
      BY <1>4, <2>1
    <2>3. ring[(r + U + i - 1) % INPUT_BUF] = line[i]
      BY DEF RingInv
    <2> QED BY <2>2, <2>3
  <1>8. r' = q /\ ring' = ring /\ line' = line
    BY DEF q
  <1>9. Len(unread') + Len(line') <= INPUT_BUF
    BY <1>1, <1>2, <1>8 DEF RingInv
  <1>10. w' = Plus(r', Len(unread')) /\ e' = Plus(r', Len(unread') + Len(line'))
    BY <1>2, <1>5, <1>8
  <1>11. \A i \in 1 .. Len(unread') : ring'[(r' + i - 1) % INPUT_BUF] = unread'[i]
    BY <1>2, <1>6, <1>8
  <1>12. \A i \in 1 .. Len(line') : ring'[(r' + Len(unread') + i - 1) % INPUT_BUF] = line'[i]
    BY <1>2, <1>7, <1>8
  <1>13. ring' \in [0 .. INPUT_BUF - 1 -> Char] /\ line' \in Seq(Text \ {"newline", "^D"})
    BY <1>8 DEF RingInv
  <1> QED BY <1>2, <1>3, <1>8, <1>9, <1>10, <1>11, <1>12, <1>13 DEF RingInv, Plus

---------------------------------------------------------------------------
(* Every step keeps the ring and the readers in order. *)

LEMMA TypedKeeps ==
  ASSUME ConsoleAssumption, ConInv, NEW c \in Char, Typed(c) PROVE ConInv'
  <1>1. /\ inputlock = Unlocked /\ Unlocked \notin Reader /\ RingInv /\ ReaderInv
        /\ UNCHANGED << r, inputlock, wants, target, given, slain >>
    BY DEF Typed, ConInv, ConsoleAssumption
  <1>2. \A p \in Reader : rpc[p] \notin {"reading", "tosleep"}
    BY <1>1 DEF ReaderInv
  <1>3. CASE c = "^U"
    <2>1. KillLine /\ UNCHANGED << ring, w, rpc, unread >>
      BY <1>3 DEF Typed
    <2>2. RingInv'
      BY <1>1, <2>1, KillLineKeepsRing
    <2> QED BY <1>1, <2>1, <2>2 DEF ConInv, ReaderInv
  <1>4. CASE c = "^H"
    <2>1. Erase /\ UNCHANGED << ring, w, rpc, unread >>
      BY <1>4 DEF Typed
    <2>2. RingInv'
      BY <1>1, <2>1, EraseKeepsRing
    <2> QED BY <1>1, <2>1, <2>2 DEF ConInv, ReaderInv
  <1>5. CASE c \notin {"^U", "^H"} /\ Enter(c)
    <2>1. c \in Text
      BY <1>5 DEF Text
    <2>2. RingInv'
      BY <1>1, <1>5, <2>1, EnterKeepsRing
    <2>3. CASE Ends(c)
      <3>1. rpc' = [p \in Reader |-> IF rpc[p] = "asleep" THEN "woken" ELSE rpc[p]]
        BY <1>5, <2>3 DEF Enter
      <3>2. rpc' \in [Reader -> Rpcs] /\ \A p \in Reader : rpc'[p] \notin {"reading", "tosleep", "asleep"}
        BY <1>1, <1>2, <3>1 DEF ReaderInv, Rpcs
      <3>3. \A p \in Reader : rpc[p] = "user" => rpc'[p] = "user"
        BY <3>1
      <3> QED BY <1>1, <2>2, <3>2, <3>3 DEF ConInv, ReaderInv
    <2>4. CASE ~ Ends(c)
      <3>1. rpc' = rpc
        BY <1>5, <2>4 DEF Enter
      <3>2. unread' = unread
        <4>1. /\ Len(unread) + Len(line) < INPUT_BUF
              /\ Ends(c) <=> \/ Len(unread) + Len(line) + 1 = INPUT_BUF
                            \/ c \in {"newline", "^D"}
          BY <1>1, <1>5, <2>1, EndsWhen DEF Enter
        <4> QED BY <1>5, <2>4, <4>1 DEF Enter
      <3> QED BY <1>1, <2>2, <3>1, <3>2 DEF ConInv, ReaderInv
    <2> QED BY <2>3, <2>4
  <1>6. CASE c \notin {"^U", "^H"} /\ UNCHANGED << ring, w, e, rpc, unread, line >>
    BY <1>1, <1>6 DEF ConInv, RingInv, ReaderInv, Plus
  <1> QED BY <1>3, <1>4, <1>5, <1>6 DEF Typed

(* A reader goes on: what it may do to its place, the lock and its text.   *)
LEMMA ReaderGoes ==
  ASSUME ConsoleAssumption, ReaderInv, NEW p \in Reader, NEW to \in Rpcs,
         rpc' = [rpc EXCEPT ![p] = to],
         inputlock' \in {p, Unlocked}, inputlock \in {p, Unlocked},
         to \in {"reading", "tosleep"} => inputlock' = p,
         unread' = unread \/ unread # << >>,
         to \in {"tosleep", "asleep"} => unread' = << >>,
         NEW got \in Seq(Char \ {"^D"}), given' = [given EXCEPT ![p] = got],
         \A i \in 1 .. Len(got) : got[i] = "newline" => i = Len(got) /\ to = "user"
  PROVE  ReaderInv'
  <1>1. /\ rpc' \in [Reader -> Rpcs] /\ rpc'[p] = to
        /\ \A q \in Reader \ {p} : rpc'[q] = rpc[q]
    BY DEF ReaderInv
  <1>2. /\ given' \in [Reader -> Seq(Char \ {"^D"})] /\ given'[p] = got
        /\ \A q \in Reader \ {p} : given'[q] = given[q]
    BY DEF ReaderInv
  <1>3. Unlocked \notin Reader
    BY DEF ConsoleAssumption
  <1>4. ASSUME NEW q \in Reader
        PROVE  /\ rpc'[q] \in {"reading", "tosleep"} => inputlock' = q
               /\ rpc'[q] \in {"tosleep", "asleep"} => unread' = << >>
               /\ \A i \in 1 .. Len(given'[q]) :
                    given'[q][i] = "newline" => i = Len(given'[q]) /\ rpc'[q] = "user"
    <2>1. CASE q = p
      BY <1>1, <1>2, <2>1
    <2>2. CASE q # p
      <3>1. /\ rpc[q] \notin {"reading", "tosleep"}
            /\ rpc[q] = "asleep" => unread = << >>
        BY <1>3, <2>2 DEF ReaderInv
      <3>2. \A i \in 1 .. Len(given[q]) :
                    given[q][i] = "newline" => i = Len(given[q]) /\ rpc[q] = "user"
        BY DEF ReaderInv
      <3> QED BY <1>1, <1>2, <2>2, <3>1, <3>2
    <2> QED BY <2>1, <2>2
  <1>5. inputlock' \in Reader \cup {Unlocked}
    OBVIOUS
  <1> QED BY <1>1, <1>2, <1>4, <1>5 DEF ReaderInv

(* The same when the reader has got nothing in this step.                  *)
LEMMA ReaderWalks ==
  ASSUME ConsoleAssumption, ReaderInv, NEW p \in Reader, NEW to \in Rpcs,
         rpc[p] # "user",
         rpc' = [rpc EXCEPT ![p] = to], given' = given, unread' = unread,
         inputlock' \in {p, Unlocked}, inputlock \in {p, Unlocked},
         to \in {"reading", "tosleep"} => inputlock' = p,
         to \in {"tosleep", "asleep"} => unread = << >>
  PROVE  ReaderInv'
  <1>1. given[p] \in Seq(Char \ {"^D"}) /\ given' = [given EXCEPT ![p] = given[p]]
    BY DEF ReaderInv
  <1>2. \A i \in 1 .. Len(given[p]) : given[p][i] = "newline" => i = Len(given[p]) /\ to = "user"
    BY DEF ReaderInv
  <1> QED BY <1>1, <1>2, ReaderGoes

LEMMA ReadKeeps ==
  ASSUME ConsoleAssumption, ConInv, NEW p \in Reader, NEW n \in Asked, Read(p, n) PROVE ConInv'
  <1>1. /\ rpc' = [rpc EXCEPT ![p] = "reading"] /\ given' = [given EXCEPT ![p] = << >>]
        /\ inputlock' = p /\ inputlock = Unlocked /\ unread' = unread
        /\ UNCHANGED << ring, r, w, e, unread, line >>
    BY DEF Read
  <1>2. RingInv /\ ReaderInv
    BY DEF ConInv
  <1>3. /\ << >> \in Seq(Char \ {"^D"}) /\ "reading" \in Rpcs
        /\ \A i \in 1 .. Len(<< >>) : << >>[i] = "newline" => i = Len(<< >>) /\ "reading" = "user"
    BY DEF Rpcs
  <1>4. ReaderInv'
    BY <1>1, <1>2, <1>3, ReaderGoes
  <1>5. RingInv'
    BY <1>1, <1>2 DEF RingInv, Plus
  <1> QED BY <1>4, <1>5 DEF ConInv

LEMMA WalksKeep ==
  ASSUME ConsoleAssumption, ConInv, NEW p \in Reader,
         ReadNothing(p) \/ SleepOnInput(p) \/ Resume(p)
  PROVE  ConInv'
  <1>1. /\ given' = given /\ unread' = unread
        /\ UNCHANGED << ring, r, w, e, unread, line >>
    BY DEF ReadNothing, SleepOnInput, Resume
  <1>2. RingInv /\ ReaderInv
    BY DEF ConInv
  <1>3. RingInv'
    BY <1>1, <1>2 DEF RingInv, Plus
  <1>4. rpc[p] # "user"
    BY DEF ReadNothing, SleepOnInput, Resume
  <1>5. rpc[p] \in {"reading", "tosleep"} => inputlock = p
    BY <1>2 DEF ReaderInv
  <1>6. "user" \in Rpcs /\ "reading" \in Rpcs /\ "tosleep" \in Rpcs /\ "asleep" \in Rpcs
    BY DEF Rpcs
  <1>7. CASE rpc[p] = "reading" /\ Done(p)
    <2>1. rpc' = [rpc EXCEPT ![p] = "user"] /\ inputlock' = Unlocked /\ inputlock = p
      BY <1>5, <1>7 DEF Done
    <2> QED BY <1>1, <1>2, <1>3, <1>4, <1>6, <2>1, ReaderWalks DEF ConInv
  <1>8. CASE rpc[p] = "reading" /\ r = w /\ rpc' = [rpc EXCEPT ![p] = "tosleep"] /\ UNCHANGED inputlock
    <2>1. unread = << >>
      <3>1. Len(unread) \in Nat /\ (w - r) % UWrap = Len(unread) /\ r \in Int
            /\ UWrap \in Nat \ {0} /\ unread \in Seq(Text)
        BY <1>2, Indexes DEF RingInv
      <3>2. (r - r) % UWrap = 0
        BY <3>1
      <3>3. Len(unread) = 0
        BY <1>8, <3>1, <3>2
      <3> QED BY <3>1, <3>3, EmptySeq
    <2>2. inputlock = p /\ inputlock' = p
      BY <1>5, <1>8
    <2> QED BY <1>1, <1>2, <1>3, <1>4, <1>6, <1>8, <2>1, <2>2, ReaderWalks DEF ConInv
  <1>9. CASE SleepOnInput(p)
    <2>1. /\ rpc' = [rpc EXCEPT ![p] = "asleep"] /\ inputlock' = Unlocked /\ inputlock = p
          /\ rpc[p] = "tosleep"
      BY <1>5, <1>9 DEF SleepOnInput
    <2>2. unread = << >>
      BY <1>2, <2>1 DEF ReaderInv
    <2> QED BY <1>1, <1>2, <1>3, <1>4, <1>6, <2>1, <2>2, ReaderWalks DEF ConInv
  <1>10. CASE Resume(p)
    <2>1. rpc' = [rpc EXCEPT ![p] = "reading"] /\ inputlock' = p /\ inputlock = Unlocked
      BY <1>10 DEF Resume
    <2> QED BY <1>1, <1>2, <1>3, <1>4, <1>6, <2>1, ReaderWalks DEF ConInv
  <1> QED BY <1>7, <1>8, <1>9, <1>10 DEF ReadNothing

LEMMA ReadCharKeeps ==
  ASSUME ConsoleAssumption, ConInv, NEW p \in Reader, ReadChar(p) PROVE ConInv'
  <1> DEFINE c == ring[r % INPUT_BUF]
  <1>1. RingInv /\ ReaderInv
    BY DEF ConInv
  <1>2. rpc[p] = "reading" /\ r # w /\ UNCHANGED << ring, w, e, line >>
    BY DEF ReadChar
  <1>3. inputlock = p
    BY <1>1, <1>2 DEF ReaderInv
  <1>4. unread # << >> /\ c \in Text
    BY <1>1, <1>2, FirstChar
  <1>5. CASE r' = r /\ unread' = unread
    <2>1. Done(p) /\ given' = given
      <3>1. r # Plus(r, 1)
        <4>1. INPUT_BUF \in Nat \ {0} /\ UWrap \in Nat \ {0} /\ r \in Int /\ r = r % UWrap
              /\ UWrap > INPUT_BUF
          <5>1. r = Plus(r, 0) /\ INPUT_BUF \in Nat \ {0} /\ UWrap \in Nat \ {0} /\ r \in Int
                /\ UWrap > INPUT_BUF
            BY <1>1, Indexes
          <5>2. r + 0 = r
            BY <5>1
          <5> QED BY <5>1, <5>2 DEF Plus
        <4> DEFINE b == r + 1
        <4>2. b \in Int /\ r < b /\ b < r + UWrap
          BY <4>1
        <4> HIDE DEF b
        <4>3. r % UWrap # b % UWrap
          BY <4>1, <4>2, RemaindersDiffer
        <4> QED BY <4>1, <4>3 DEF b, Plus
      <3> QED BY <1>5, <3>1 DEF ReadChar
    <2>2. rpc' = [rpc EXCEPT ![p] = "user"] /\ inputlock' = Unlocked /\ "user" \in Rpcs
      BY <2>1 DEF Done, Rpcs
    <2>3. ReaderInv'
      BY <1>1, <1>2, <1>3, <1>5, <2>1, <2>2, ReaderWalks
    <2>4. RingInv'
      BY <1>1, <1>2, <1>5 DEF RingInv, Plus
    <2> QED BY <2>3, <2>4 DEF ConInv
  <1>6. CASE r' = Plus(r, 1) /\ unread' = Tail(unread)
    <2>1. RingInv'
      BY <1>1, <1>2, <1>6, TakeKeepsRing
    <2>2. given[p] \in Seq(Char \ {"^D"})
          /\ \A i \in 1 .. Len(given[p]) : given[p][i] # "newline"
      BY <1>1, <1>2 DEF ReaderInv
    <2>3. "user" \in Rpcs /\ "reading" \in Rpcs
      BY DEF Rpcs
    <2>4. CASE c = "^D"
      <3>1. Done(p) /\ given' = given
        BY <2>4 DEF ReadChar
      <3>2. rpc' = [rpc EXCEPT ![p] = "user"] /\ inputlock' = Unlocked
        BY <3>1 DEF Done
      <3>3. given' = [given EXCEPT ![p] = given[p]]
        BY <1>1, <3>1 DEF ReaderInv
      <3>4. \A i \in 1 .. Len(given[p]) :
               given[p][i] = "newline" => i = Len(given[p]) /\ "user" = "user"
        BY <2>2
      <3>5. ReaderInv'
        BY <1>1, <1>3, <1>4, <2>2, <2>3, <3>2, <3>3, <3>4, ReaderGoes
      <3> QED BY <2>1, <3>5 DEF ConInv
    <2>5. CASE c # "^D"
      <3> DEFINE got == Append(given[p], c)
      <3>1. given' = [given EXCEPT ![p] = got]
            /\ IF c = "newline" THEN Done(p) ELSE UNCHANGED << rpc, inputlock >>
        BY <2>5 DEF ReadChar
      <3>2. /\ got \in Seq(Char \ {"^D"}) /\ Len(got) = Len(given[p]) + 1
            /\ \A i \in 1 .. Len(given[p]) : got[i] # "newline"
            /\ got[Len(given[p]) + 1] = c
        <4> HIDE DEF c
        <4> QED BY <1>4, <2>2, <2>5 DEF Text
      <3>3. \A i \in 1 .. Len(got) : got[i] = "newline" => i = Len(got) /\ c = "newline"
        <4>1. \A i \in 1 .. Len(got) : i \in 1 .. Len(given[p]) \/ i = Len(given[p]) + 1
          BY <2>2, <3>2
        <4> HIDE DEF got, c
        <4> QED BY <3>2, <4>1
      <3> HIDE DEF got, c
      <3>4. CASE c = "newline"
        <4>1. rpc' = [rpc EXCEPT ![p] = "user"] /\ inputlock' = Unlocked
          BY <3>1, <3>4 DEF Done
        <4>2. \A i \in 1 .. Len(got) : got[i] = "newline" => i = Len(got) /\ "user" = "user"
          BY <3>3
        <4>3. ReaderInv'
          BY <1>1, <1>3, <1>4, <2>3, <3>1, <3>2, <4>1, <4>2, ReaderGoes
        <4> QED BY <2>1, <4>3 DEF ConInv
      <3>5. CASE c # "newline"
        <4>1. rpc' = [rpc EXCEPT ![p] = "reading"] /\ inputlock' = p
          BY <1>1, <1>2, <1>3, <3>1, <3>5 DEF ReaderInv
        <4>2. \A i \in 1 .. Len(got) : got[i] = "newline" => i = Len(got) /\ "reading" = "user"
          BY <3>3, <3>5
        <4>3. ReaderInv'
          BY <1>1, <1>3, <1>4, <2>3, <3>1, <3>2, <4>1, <4>2, ReaderGoes
        <4> QED BY <2>1, <4>3 DEF ConInv
      <3> QED BY <3>4, <3>5
    <2> QED BY <2>4, <2>5
  <1>7. \/ r' = r /\ unread' = unread
        \/ r' = Plus(r, 1) /\ unread' = Tail(unread)
    BY DEF ReadChar
  <1> QED BY <1>5, <1>6, <1>7

LEMMA SlayKeeps ==
  ASSUME ConsoleAssumption, ConInv, NEW p \in Reader, Slay(p) PROVE ConInv'
  <1>1. /\ UNCHANGED << ring, r, w, e, inputlock, given, unread, line >>
        /\ rpc' = [rpc EXCEPT ![p] = IF rpc[p] = "asleep" THEN "woken" ELSE rpc[p]]
    BY DEF Slay, ConInv, ReaderInv
  <1>2. RingInv /\ ReaderInv
    BY DEF ConInv
  <1>3. /\ rpc' \in [Reader -> Rpcs]
        /\ \A q \in Reader : rpc'[q] = rpc[q] \/ (rpc[q] = "asleep" /\ rpc'[q] = "woken")
    BY <1>1, <1>2 DEF ReaderInv, Rpcs
  <1>4. RingInv'
    BY <1>1, <1>2 DEF RingInv, Plus
  <1>5. ReaderInv'
    BY <1>1, <1>2, <1>3 DEF ReaderInv
  <1> QED BY <1>4, <1>5 DEF ConInv

LEMMA ConNextKeeps == ConsoleAssumption /\ ConInv /\ [ConNext]_convars => ConInv'
  <1> SUFFICES ASSUME ConsoleAssumption, ConInv, [ConNext]_convars PROVE ConInv'
    OBVIOUS
  <1>1. ASSUME NEW c \in Char, Typed(c) PROVE ConInv'
    BY <1>1, TypedKeeps
  <1>2. ASSUME NEW p \in Reader, \E n \in Asked : Read(p, n) PROVE ConInv'
    BY <1>2, ReadKeeps
  <1>3. ASSUME NEW p \in Reader, ReadNothing(p) \/ SleepOnInput(p) \/ Resume(p) PROVE ConInv'
    BY <1>3, WalksKeep
  <1>4. ASSUME NEW p \in Reader, ReadChar(p) \/ Slay(p) PROVE ConInv'
    BY <1>4, ReadCharKeeps, SlayKeeps
  <1>5. CASE UNCHANGED convars
    BY <1>5 DEF convars, readvars, ConInv, RingInv, ReaderInv, Plus
  <1> QED BY <1>1, <1>2, <1>3, <1>4, <1>5 DEF ConNext

LEMMA RingIsText == ConsoleAssumption /\ ConInv => LinesKept
  <1> SUFFICES ASSUME ConsoleAssumption, ConInv PROVE LinesKept
    OBVIOUS
  <1> DEFINE U == Len(unread)
             L == Len(line)
  <1>0. RingInv /\ ReaderInv
    BY DEF ConInv
  <1>1. /\ r \in Int /\ U \in Nat /\ L \in Nat
        /\ (w - r) % UWrap = U /\ (e - w) % UWrap = L
    BY <1>0, Indexes
  <1>2. unread \in Seq(Text) /\ line \in Seq(Text \ {"newline", "^D"})
    BY <1>0 DEF RingInv
  <1>3. Cells(r, w) = unread
    <2>1. \A i \in 1 .. U : ring[Plus(r, i - 1) % INPUT_BUF] = unread[i]
      <3> TAKE i \in 1 .. U
      <3>1. i - 1 \in Int /\ r + (i - 1) = r + i - 1
        BY <1>1
      <3>2. Plus(r, i - 1) % INPUT_BUF = (r + (i - 1)) % INPUT_BUF
        BY <1>0, <3>1, Indexes
      <3> QED BY <1>0, <3>1, <3>2 DEF RingInv
    <2>2. unread = [i \in 1 .. U |-> unread[i]]
      BY <1>2
    <2> QED BY <1>1, <2>1, <2>2 DEF Cells
  <1>4. Cells(w, e) = line
    <2>1. \A i \in 1 .. L : ring[Plus(w, i - 1) % INPUT_BUF] = line[i]
      <3> TAKE i \in 1 .. L
      <3>1. i - 1 \in Int /\ U + (i - 1) \in Int /\ r + (U + (i - 1)) = r + U + i - 1
        BY <1>1
      <3>2. Plus(w, i - 1) = Plus(r, U + (i - 1))
        BY <1>0, <3>1, Indexes
      <3>3. Plus(r, U + (i - 1)) % INPUT_BUF = (r + (U + (i - 1))) % INPUT_BUF
        BY <1>0, <3>1, Indexes
      <3> QED BY <1>0, <3>1, <3>2, <3>3 DEF RingInv
    <2>2. line = [i \in 1 .. L |-> line[i]]
      BY <1>2
    <2> QED BY <1>1, <2>1, <2>2 DEF Cells
  <1>5. \A p \in Reader :
       /\ \A i \in 1 .. Len(given[p]) :
            given[p][i] # "^D" /\ (given[p][i] = "newline" => i = Len(given[p]))
       /\ rpc[p] = "asleep" => unread = << >>
    <2> TAKE p \in Reader
    <2>1. given[p] \in Seq(Char \ {"^D"})
      BY <1>0 DEF ReaderInv
    <2>2. \A i \in 1 .. Len(given[p]) : given[p][i] # "^D"
      BY <2>1
    <2> QED BY <1>0, <2>2 DEF ReaderInv
  <1> QED BY <1>3, <1>4, <1>5 DEF LinesKept

(* However the indexes wrap around and whoever reads, the ring keeps the   *)
(* text that was ended and the line as it was edited, a read gives at most *)
(* one line, and nobody sleeps while there is text (consoleintr and        *)
(* consoleread).                                                           *)
THEOREM LinesStay == ConInit /\ [][ConNext]_convars => []LinesKept
  <1>1. ConInit => ConInv
    BY ConsoleAssumption, RingInitInv
  <1>2. ConInv /\ [ConNext]_convars => ConInv'
    BY ConsoleAssumption, ConNextKeeps
  <1>3. ConInv => LinesKept
    BY ConsoleAssumption, RingIsText
  <1> QED BY <1>1, <1>2, <1>3, PTL

---------------------------------------------------------------------------
(* Memory.  Every page has one place: what it is used for (K), by whom (A) *)
(* and where there (B).                                                    *)

Kinds == {"free", "lost", "dir", "table", "user", "stack", "setup"}

\* What setupkvm has so far.
Got(p) == IF Builds(p) /\ ~Ready(p) THEN call[p].got ELSE << >>

ListsOwned(K) ==
  /\ freelist \subseteq Frame /\ lost \subseteq Frame /\ DOMAIN spaces \subseteq Frame
  /\ \A f \in Frame : /\ K[f] = "free" <=> f \in freelist
                      /\ K[f] = "lost" <=> f \in lost
                      /\ K[f] = "dir" <=> f \in DOMAIN spaces

TablesOwned(K, A) ==
  /\ \A d \in DOMAIN spaces : \A f \in spaces[d].tables :
       f \in Frame /\ K[f] = "table" /\ A[f] = d
  /\ \A f \in Frame : K[f] = "table" => A[f] \in DOMAIN spaces /\ f \in spaces[A[f]].tables

UsersOwned(K, A, B) ==
  /\ \A d \in DOMAIN spaces : \A v \in DOMAIN spaces[d].map :
       /\ v \in Nat /\ spaces[d].map[v] \in Frame
       /\ K[spaces[d].map[v]] = "user" /\ A[spaces[d].map[v]] = d /\ B[spaces[d].map[v]] = v
  /\ \A f \in Frame : K[f] = "user" =>
       /\ A[f] \in DOMAIN spaces /\ B[f] \in DOMAIN spaces[A[f]].map
       /\ spaces[A[f]].map[B[f]] = f

StacksOwned(K, A) ==
  /\ \A p \in Slots : kstack[p] # 0 =>
       kstack[p] \in Frame /\ K[kstack[p]] = "stack" /\ A[kstack[p]] = p
  /\ \A f \in Frame : K[f] = "stack" => A[f] \in Slots /\ kstack[A[f]] = f

SetupOwned(K, A, B) ==
  /\ \A p \in Slots : \A i \in 1 .. Len(Got(p)) :
       Got(p)[i] \in Frame /\ K[Got(p)[i]] = "setup" /\ A[Got(p)[i]] = p /\ B[Got(p)[i]] = i
  /\ \A f \in Frame : K[f] = "setup" =>
       A[f] \in Slots /\ B[f] \in 1 .. Len(Got(A[f])) /\ Got(A[f])[B[f]] = f

Owned(K, A, B) ==
  /\ K \in [Frame -> Kinds] /\ A \in [Frame -> Nat] /\ B \in [Frame -> Nat]
  /\ ListsOwned(K) /\ TablesOwned(K, A) /\ UsersOwned(K, A, B)
  /\ StacksOwned(K, A) /\ SetupOwned(K, A, B)

SpacesTyped ==
  /\ spaces = [d \in DOMAIN spaces |-> spaces[d]]
  /\ \A d \in DOMAIN spaces :
       /\ spaces[d] = [tables |-> spaces[d].tables, map |-> spaces[d].map,
                       emptied |-> spaces[d].emptied]
       /\ spaces[d].emptied \in BOOLEAN

SlotsTyped ==
  /\ kstack \in [Slots -> Nat] /\ pgdir \in [Slots -> Nat]
  /\ sz \in [Slots -> 0 .. USERTOP] /\ thread \in [Slots -> BOOLEAN]

SbrkCall == [op : {"sbrk"}, old : 0 .. USERTOP, new : 0 .. USERTOP, at : Nat]
ForkCall == [op : {"fork"}, np : Slots, got : Seq(Frame), at : Nat, size : 0 .. USERTOP]
ExecCall == [op : {"exec"}, got : Seq(Frame), at : Nat, size : 0 .. USERTOP]

CallsTyped == call \in [Slots -> {NoCall} \cup SbrkCall \cup ForkCall \cup ExecCall]

MemTyped == SpacesTyped /\ SlotsTyped /\ CallsTyped

IsFork(p) == call[p].op = "fork"

\* Which slots, spaces and calls belong together.
Settled(p) ==
  /\ pgdir[p] # 0 => pgdir[p] \in DOMAIN spaces /\ kstack[p] # 0
  /\ pgdir[p] = 0 => call[p] = NoCall
  /\ \A q \in Slots : pgdir[p] = pgdir[q] /\ pgdir[p] # 0 => sz[p] = sz[q]

ExecAlone(p) == call[p].op = "exec" => \A q \in Slots : pgdir[q] = pgdir[p] => q = p

BuildsOwn(p) ==
  Builds(p) =>
    /\ Len(call[p].got) <= 1 + NTables
    /\ Ready(p) =>
         /\ New(p) \in DOMAIN spaces
         /\ \A q \in Slots : pgdir[q] # New(p)
         /\ \A q \in Slots \ {p} : Builds(q) /\ Ready(q) => New(q) # New(p)

ForksOwn(p) ==
  IsFork(p) =>
    /\ kstack[call[p].np] # 0 /\ pgdir[call[p].np] = 0
    /\ \A q \in Slots \ {p} : IsFork(q) => call[q].np # call[p].np

SlotsRight ==
  \A p \in Slots : Settled(p) /\ ExecAlone(p) /\ BuildsOwn(p) /\ ForksOwn(p)

\* Which pages a space has, at rest and while a call changes or makes it.
RestSize(p) ==
  /\ pgdir[p] # 0 /\ ~spaces[pgdir[p]].emptied
  /\ \A q \in Slots : pgdir[q] = pgdir[p] => call[q].op # "sbrk"
  => DOMAIN spaces[pgdir[p]].map = 0 .. Pages(sz[p]) - 1

SbrkSize(p) ==
  call[p].op = "sbrk" =>
    /\ ~spaces[pgdir[p]].emptied
    /\ call[p].new > call[p].old =>
         /\ call[p].old = sz[p]
         /\ \E k \in Nat :
              /\ call[p].at = k * PGSIZE
              /\ Pages(call[p].old) <= k /\ k <= Pages(call[p].new)
              /\ DOMAIN spaces[pgdir[p]].map = 0 .. k - 1
    /\ call[p].new <= call[p].old =>
         DOMAIN spaces[pgdir[p]].map = 0 .. Pages(call[p].old) - 1

ForkSize(p) == IsFork(p) => ~spaces[pgdir[p]].emptied /\ sz[p] = call[p].size

BuildSize(p) ==
  Builds(p) =>
    \E k \in Nat :
      /\ call[p].at = k * PGSIZE /\ k <= Pages(call[p].size)
      /\ Ready(p) => DOMAIN spaces[New(p)].map = 0 .. k - 1
      /\ ~Ready(p) => k = 0

Sized(p) == RestSize(p) /\ SbrkSize(p) /\ ForkSize(p) /\ BuildSize(p)
SizesRight == \A p \in Slots : Sized(p)

MemInv ==
  /\ MemTyped /\ SlotsRight /\ (~Racing => SizesRight) /\ ~stopped /\ ~twice
  /\ \E K, A, B : Owned(K, A, B)

---------------------------------------------------------------------------
(* Numbers of pages. *)

LEMMA MemNumbers ==
  ASSUME MemoryAssumption
  PROVE  /\ PGSIZE \in Nat \ {0} /\ NTables \in Nat /\ USERTOP \in Nat
         /\ Frame \subseteq Nat \ {0} /\ 0 \notin Frame /\ Slots \subseteq Nat
         /\ Width \in Nat /\ USERTOP < Width /\ PGSIZE <= USERTOP /\ Sbrk \subseteq Int
         /\ Images \subseteq 0 .. USERTOP
  BY DEF MemoryAssumption

\* The pages below size s are those that begin below it.
LEMMA PagesBelow ==
  ASSUME MemoryAssumption, NEW s \in Nat, NEW v \in Nat
  PROVE  /\ Pages(s) \in Nat /\ v * PGSIZE \in Nat
         /\ v * PGSIZE < s <=> v < Pages(s)
         /\ (v * PGSIZE) \div PGSIZE = v
  <1> DEFINE x == s + PGSIZE - 1
             n == Pages(s)
             rest == x % PGSIZE
  <1>1. PGSIZE \in Nat \ {0}
    BY MemNumbers
  <1>2. x \in Nat /\ x = s + PGSIZE - 1
    BY <1>1
  <1>3. n = x \div PGSIZE
    BY DEF Pages
  <1> HIDE DEF x, n, rest
  <1>4. rest \in 0 .. PGSIZE - 1 /\ n \in Int /\ x = PGSIZE * n + rest
    BY <1>1, <1>2, <1>3, Divide DEF rest
  <1>5. PGSIZE * n \in Int /\ PGSIZE * v \in Int /\ v * PGSIZE = PGSIZE * v
        /\ PGSIZE * n - PGSIZE * v = PGSIZE * (n - v)
    BY <1>1, <1>4, Product, Distribute
  <1>6. n >= 0
    <2> SUFFICES ASSUME n <= -1 PROVE FALSE
      BY <1>4
    <2>1. PGSIZE * n <= 0 - PGSIZE
      BY <1>1, <1>4, Product
    <2> QED BY <1>1, <1>2, <1>4, <1>5, <2>1
  <1>7. v * PGSIZE >= 0
    <2>1. v = 0 \/ v >= 1
      OBVIOUS
    <2>2. PGSIZE * v = 0 \/ PGSIZE * v >= PGSIZE
      BY <1>1, <2>1, Product
    <2> QED BY <1>1, <1>5, <2>2
  <1>8. v < n => v * PGSIZE < s
    <2> SUFFICES ASSUME v < n PROVE v * PGSIZE < s
      OBVIOUS
    <2>1. n - v \in Int /\ n - v >= 1
      BY <1>4
    <2>2. PGSIZE * (n - v) >= PGSIZE
      BY <1>1, <2>1, Product
    <2> QED BY <1>1, <1>2, <1>4, <1>5, <2>2
  <1>9. ~ (v < n) => ~ (v * PGSIZE < s)
    <2> SUFFICES ASSUME n <= v PROVE v * PGSIZE >= s
      BY <1>1, <1>4, <1>5
    <2>1. n - v \in Int /\ (n - v = 0 \/ n - v <= -1)
      BY <1>4
    <2>2. PGSIZE * (n - v) <= 0
      <3>1. PGSIZE * (n - v) = 0 \/ PGSIZE * (n - v) <= 0 - PGSIZE
        BY <1>1, <2>1, Product
      <3> QED BY <1>1, <1>5, <3>1
    <2> QED BY <1>1, <1>2, <1>4, <1>5, <2>2
  <1>10. (v * PGSIZE) \div PGSIZE = v
    <2> DEFINE y == v * PGSIZE
               j == y \div PGSIZE
               t == y % PGSIZE
    <2>1. y \in Int
      BY <1>5
    <2>2. t \in 0 .. PGSIZE - 1 /\ j \in Int /\ y = PGSIZE * j + t
      BY <1>1, <2>1, Divide
    <2>3. y = PGSIZE * v + 0
      BY <1>1, <1>5
    <2> HIDE DEF j, t, y
    <2>4. j = v
      <3>1. t \in Int /\ 0 \in Int /\ v \in Int /\ t - 0 < PGSIZE /\ 0 - t < PGSIZE
        BY <1>1, <2>2
      <3> QED BY <1>1, <2>2, <2>3, <3>1, Apart
    <2> QED BY <2>4 DEF j, y
  <1> QED BY <1>4, <1>5, <1>6, <1>7, <1>8, <1>9, <1>10 DEF n

\* A larger size has no fewer pages.
LEMMA PagesGrow ==
  ASSUME MemoryAssumption, NEW s \in Nat, NEW t \in Nat, s <= t
  PROVE  Pages(s) <= Pages(t)
  <1> DEFINE n == Pages(s)
             m == Pages(t)
  <1>1. n \in Nat /\ m \in Nat
    BY PagesBelow
  <1>2. CASE n = 0
    BY <1>1, <1>2
  <1>3. CASE n # 0
    <2> DEFINE v == n - 1
    <2>1. v \in Nat /\ v < n
      BY <1>1, <1>3
    <2> HIDE DEF v, m
    <2>2. v * PGSIZE < s
      BY <2>1, PagesBelow
    <2>3. v * PGSIZE \in Nat
      BY <2>1, PagesBelow
    <2>4. v * PGSIZE < t
      BY <2>2, <2>3
    <2>5. v < m
      BY <2>1, <2>4, PagesBelow DEF m
    <2> QED BY <1>1, <2>1, <2>5 DEF v, m
  <1> QED BY <1>2, <1>3

---------------------------------------------------------------------------
(* Changes of the spaces. *)

LEMMA ExtendedView ==
  ASSUME NEW m, NEW x, NEW y
  PROVE  /\ DOMAIN Extended(m, x, y) = DOMAIN m \cup {x}
         /\ Extended(m, x, y)[x] = y
         /\ \A u \in DOMAIN m : u # x => Extended(m, x, y)[u] = m[u]
  BY DEF Extended

LEMMA RestrictView ==
  ASSUME NEW m, NEW S
  PROVE  DOMAIN Restrict(m, S) = S /\ \A u \in S : Restrict(m, S)[u] = m[u]
  BY DEF Restrict

\* One space gets other entries.
Maps(d, mp, b) ==
  /\ DOMAIN spaces' = DOMAIN spaces
  /\ \A c \in DOMAIN spaces : c # d => spaces'[c] = spaces[c]
  /\ spaces'[d].tables = spaces[d].tables /\ spaces'[d].map = mp /\ spaces'[d].emptied = b

Remapped(d, mp) == [spaces EXCEPT ![d].map = mp]
Emptied(d, mp, b) == [[spaces EXCEPT ![d].map = mp] EXCEPT ![d].emptied = b]

\* What an assignment to one space's entries does.
LEMMA MapsView ==
  ASSUME SpacesTyped, NEW d \in DOMAIN spaces, NEW mp, NEW b, b \in BOOLEAN,
         \/ spaces' = Remapped(d, mp) /\ b = spaces[d].emptied
         \/ spaces' = Emptied(d, mp, b)
  PROVE  SpacesTyped' /\ Maps(d, mp, b)
  <1> DEFINE T == spaces[d].tables
             U == spaces[d].emptied
             s1 == [spaces EXCEPT ![d].map = mp]
  <1>1. spaces[d] = [tables |-> T, map |-> spaces[d].map, emptied |-> U] /\ U \in BOOLEAN
    BY DEF SpacesTyped
  <1> HIDE DEF T, U
  <1>2. [spaces[d] EXCEPT !.map = mp] = [tables |-> T, map |-> mp, emptied |-> U]
    BY <1>1
  <1>3. /\ s1 = [spaces EXCEPT ![d] = [tables |-> T, map |-> mp, emptied |-> U]]
    BY <1>2
  <1>4. /\ DOMAIN s1 = DOMAIN spaces /\ s1 = [c \in DOMAIN s1 |-> s1[c]]
        /\ s1[d] = [tables |-> T, map |-> mp, emptied |-> U]
        /\ \A c \in DOMAIN spaces : c # d => s1[c] = spaces[c]
    BY <1>3 DEF SpacesTyped
  <1> HIDE DEF s1
  <1>5. CASE spaces' = s1 /\ b = U
    BY <1>1, <1>4, <1>5 DEF SpacesTyped, Maps, T
  <1>6. CASE spaces' = [s1 EXCEPT ![d].emptied = b]
    <2>1. [s1[d] EXCEPT !.emptied = b] = [tables |-> T, map |-> mp, emptied |-> b]
      BY <1>4
    <2>2. spaces' = [s1 EXCEPT ![d] = [tables |-> T, map |-> mp, emptied |-> b]]
      BY <1>6, <2>1
    <2>3. /\ DOMAIN spaces' = DOMAIN spaces /\ spaces' = [c \in DOMAIN spaces' |-> spaces'[c]]
          /\ spaces'[d] = [tables |-> T, map |-> mp, emptied |-> b]
          /\ \A c \in DOMAIN spaces : c # d => spaces'[c] = spaces[c]
      BY <1>4, <2>2
    <2> QED BY <2>3 DEF SpacesTyped, Maps, T
  <1> QED BY <1>5, <1>6 DEF s1, U, Remapped, Emptied

\* There is one more space, with no entries yet.
Gains(d, tabs) ==
  /\ DOMAIN spaces' = DOMAIN spaces \cup {d}
  /\ \A c \in DOMAIN spaces : c # d => spaces'[c] = spaces[c]
  /\ spaces'[d].tables = tabs /\ spaces'[d].map = << >> /\ ~spaces'[d].emptied

\* What setupkvm's last page does.
LEMMA GainsView ==
  ASSUME SpacesTyped, NEW d, NEW tabs, spaces' = Extended(spaces, d, Space(tabs, << >>))
  PROVE  SpacesTyped' /\ Gains(d, tabs)
  <1>1. /\ DOMAIN spaces' = DOMAIN spaces \cup {d} /\ spaces'[d] = Space(tabs, << >>)
        /\ \A c \in DOMAIN spaces : c # d => spaces'[c] = spaces[c]
    BY DEF Extended
  <1>2. spaces' = [c \in DOMAIN spaces' |-> spaces'[c]]
    BY DEF Extended
  <1>3. spaces'[d] = [tables |-> tabs, map |-> << >>, emptied |-> FALSE]
    BY <1>1 DEF Space
  <1>4. Gains(d, tabs)
    BY <1>1, <1>3 DEF Gains
  <1>5. SpacesTyped'
    <2>1. SUFFICES ASSUME NEW c \in DOMAIN spaces'
                   PROVE  /\ spaces'[c] = [tables |-> spaces'[c].tables, map |-> spaces'[c].map,
                                           emptied |-> spaces'[c].emptied]
                          /\ spaces'[c].emptied \in BOOLEAN
      BY <1>2 DEF SpacesTyped
    <2>2. CASE c = d
      <3>1. [tables |-> tabs, map |-> << >>, emptied |-> FALSE].emptied \in BOOLEAN
        OBVIOUS
      <3> QED BY <1>3, <2>2, <3>1
    <2>3. CASE c # d
      BY <1>1, <2>1, <2>3 DEF SpacesTyped
    <2> QED BY <2>2, <2>3
  <1> QED BY <1>4, <1>5

\* The spaces in D are no longer there.
LeftOut(D) ==
  /\ DOMAIN spaces' = DOMAIN spaces \ D
  /\ \A c \in DOMAIN spaces \ D : spaces'[c] = spaces[c]

\* What freevm does to the spaces.
LEMMA LeftOutView ==
  ASSUME SpacesTyped, NEW D, spaces' = SpacesBut(D)
  PROVE  SpacesTyped' /\ LeftOut(D)
  <1>1. LeftOut(D)
    BY RestrictView DEF SpacesBut, LeftOut
  <1>2. spaces' = [c \in DOMAIN spaces' |-> spaces'[c]]
    BY DEF SpacesBut, Restrict
  <1>3. SpacesTyped'
    BY <1>1, <1>2 DEF SpacesTyped, LeftOut
  <1> QED BY <1>1, <1>3

---------------------------------------------------------------------------
(* Pages that change hands. *)

Moved(K, A, B, K1, A1, B1, F) ==
  /\ K1 \in [Frame -> Kinds] /\ A1 \in [Frame -> Nat] /\ B1 \in [Frame -> Nat]
  /\ \A f \in Frame \ F : K1[f] = K[f] /\ A1[f] = A[f] /\ B1[f] = B[f]

\* When no page becomes a table or is one no more, the tables keep their owners.
LEMMA TablesStay ==
  ASSUME NEW K, NEW A, NEW B, NEW K1, NEW A1, NEW B1, NEW F,
         Moved(K, A, B, K1, A1, B1, F), TablesOwned(K, A),
         \A f \in Frame : f \in F => K[f] # "table" /\ K1[f] # "table",
         DOMAIN spaces' = DOMAIN spaces,
         \A d \in DOMAIN spaces : spaces'[d].tables = spaces[d].tables
  PROVE  TablesOwned(K1, A1)'
  BY DEF Moved, TablesOwned

LEMMA UsersStay ==
  ASSUME NEW K, NEW A, NEW B, NEW K1, NEW A1, NEW B1, NEW F,
         Moved(K, A, B, K1, A1, B1, F), UsersOwned(K, A, B),
         \A f \in Frame : f \in F => K[f] # "user" /\ K1[f] # "user",
         DOMAIN spaces' = DOMAIN spaces,
         \A d \in DOMAIN spaces : spaces'[d].map = spaces[d].map
  PROVE  UsersOwned(K1, A1, B1)'
  BY DEF Moved, UsersOwned

LEMMA StacksStay ==
  ASSUME NEW K, NEW A, NEW B, NEW K1, NEW A1, NEW B1, NEW F,
         Moved(K, A, B, K1, A1, B1, F), StacksOwned(K, A),
         \A f \in Frame : f \in F => K[f] # "stack" /\ K1[f] # "stack",
         kstack' = kstack
  PROVE  StacksOwned(K1, A1)'
  BY DEF Moved, StacksOwned

LEMMA SetupStay ==
  ASSUME NEW K, NEW A, NEW B, NEW K1, NEW A1, NEW B1, NEW F,
         Moved(K, A, B, K1, A1, B1, F), SetupOwned(K, A, B),
         \A f \in Frame : f \in F => K[f] # "setup" /\ K1[f] # "setup",
         \A p \in Slots : Got(p)' = Got(p)
  PROVE  SetupOwned(K1, A1, B1)'
  <1>1. SUFFICES
          /\ \A p \in Slots : \A i \in 1 .. Len(Got(p)) :
               /\ Got(p)[i] \in Frame /\ K1[Got(p)[i]] = "setup"
               /\ A1[Got(p)[i]] = p /\ B1[Got(p)[i]] = i
          /\ \A f \in Frame : K1[f] = "setup" =>
               A1[f] \in Slots /\ B1[f] \in 1 .. Len(Got(A1[f])) /\ Got(A1[f])[B1[f]] = f
    BY DEF SetupOwned
  <1>2. ASSUME NEW p \in Slots, NEW i \in 1 .. Len(Got(p))
        PROVE  /\ Got(p)[i] \in Frame /\ K1[Got(p)[i]] = "setup"
               /\ A1[Got(p)[i]] = p /\ B1[Got(p)[i]] = i
    <2>1. /\ Got(p)[i] \in Frame /\ K[Got(p)[i]] = "setup"
          /\ A[Got(p)[i]] = p /\ B[Got(p)[i]] = i
      BY DEF SetupOwned
    <2> QED BY <2>1 DEF Moved
  <1>3. ASSUME NEW f \in Frame, K1[f] = "setup"
        PROVE  A1[f] \in Slots /\ B1[f] \in 1 .. Len(Got(A1[f])) /\ Got(A1[f])[B1[f]] = f
    <2>1. K[f] = "setup" /\ A1[f] = A[f] /\ B1[f] = B[f]
      BY <1>3 DEF Moved
    <2> QED BY <2>1 DEF SetupOwned
  <1> QED BY <1>2, <1>3

SameGot == \A p \in Slots : Got(p)' = Got(p)

LEMMA OwnedSame ==
  ASSUME NEW K, NEW A, NEW B, Owned(K, A, B),
         UNCHANGED << freelist, lost, spaces, kstack >>, SameGot
  PROVE  Owned(K, A, B)'
  BY DEF Owned, ListsOwned, TablesOwned, UsersOwned, StacksOwned, SetupOwned, SameGot

\* kalloc for a user's page.
LEMMA TakesUser ==
  ASSUME MemoryAssumption, NEW K, NEW A, NEW B, Owned(K, A, B),
         NEW f \in freelist, NEW d \in DOMAIN spaces, NEW v \in Nat,
         v \notin DOMAIN spaces[d].map, NEW b,
         freelist' = freelist \ {f}, Maps(d, Extended(spaces[d].map, v, f), b),
         UNCHANGED << lost, kstack >>, SameGot
  PROVE  \E K1, A1, B1 : Owned(K1, A1, B1)'
  <1> DEFINE K1 == [g \in Frame |-> IF g = f THEN "user" ELSE K[g]]
             A1 == [g \in Frame |-> IF g = f THEN d ELSE A[g]]
             B1 == [g \in Frame |-> IF g = f THEN v ELSE B[g]]
  <1>1. f \in Frame /\ d \in Nat /\ K[f] = "free"
    BY MemNumbers DEF Owned, ListsOwned
  <1>2. /\ K \in [Frame -> Kinds] /\ A \in [Frame -> Nat] /\ B \in [Frame -> Nat]
        /\ ListsOwned(K) /\ TablesOwned(K, A) /\ UsersOwned(K, A, B)
        /\ StacksOwned(K, A) /\ SetupOwned(K, A, B)
    BY DEF Owned
  <1>3. /\ Moved(K, A, B, K1, A1, B1, {f})
        /\ K1[f] = "user" /\ A1[f] = d /\ B1[f] = v
    BY <1>1, <1>2 DEF Moved, Kinds
  <1> HIDE DEF K1, A1, B1
  <1>4. DOMAIN spaces' = DOMAIN spaces /\ \A c \in DOMAIN spaces : spaces'[c].tables = spaces[c].tables
    BY DEF Maps
  <1>5. ListsOwned(K1)'
    BY <1>1, <1>2, <1>3, <1>4 DEF Moved, ListsOwned
  <1>6. TablesOwned(K1, A1)'
    BY <1>1, <1>2, <1>3, <1>4, TablesStay
  <1>7. StacksOwned(K1, A1)'
    BY <1>1, <1>2, <1>3, StacksStay
  <1>8. SetupOwned(K1, A1, B1)'
    BY <1>1, <1>2, <1>3, SetupStay DEF SameGot
  <1>9. UsersOwned(K1, A1, B1)'
    <2>1. /\ DOMAIN spaces'[d].map = DOMAIN spaces[d].map \cup {v} /\ spaces'[d].map[v] = f
          /\ \A u \in DOMAIN spaces[d].map : spaces'[d].map[u] = spaces[d].map[u]
      BY DEF Extended, Maps
    <2>2. \A c \in DOMAIN spaces : c # d => spaces'[c].map = spaces[c].map
      BY DEF Maps
    <2>3. ASSUME NEW c \in DOMAIN spaces', NEW u \in DOMAIN spaces'[c].map
          PROVE  /\ u \in Nat /\ spaces'[c].map[u] \in Frame
                 /\ K1[spaces'[c].map[u]] = "user" /\ A1[spaces'[c].map[u]] = c
                 /\ B1[spaces'[c].map[u]] = u
      <3>1. CASE c = d /\ u = v
        BY <1>1, <1>3, <2>1, <3>1
      <3>2. CASE ~ (c = d /\ u = v)
        <4>1. c \in DOMAIN spaces /\ u \in DOMAIN spaces[c].map
              /\ spaces'[c].map[u] = spaces[c].map[u]
          BY <1>4, <2>1, <2>2, <2>3, <3>2
        <4>2. /\ u \in Nat /\ spaces[c].map[u] \in Frame /\ K[spaces[c].map[u]] = "user"
              /\ A[spaces[c].map[u]] = c /\ B[spaces[c].map[u]] = u
          BY <1>2, <4>1 DEF UsersOwned
        <4>3. spaces[c].map[u] # f
          BY <1>1, <4>2
        <4> QED BY <1>3, <4>1, <4>2, <4>3 DEF Moved
      <3> QED BY <3>1, <3>2
    <2>4. ASSUME NEW g \in Frame, K1[g] = "user"
          PROVE  /\ A1[g] \in DOMAIN spaces' /\ B1[g] \in DOMAIN spaces'[A1[g]].map
                 /\ spaces'[A1[g]].map[B1[g]] = g
      <3>1. CASE g = f
        BY <1>3, <1>4, <2>1, <3>1
      <3>2. CASE g # f
        <4>1. K[g] = "user" /\ A1[g] = A[g] /\ B1[g] = B[g]
          BY <1>3, <2>4, <3>2 DEF Moved
        <4>2. /\ A[g] \in DOMAIN spaces /\ B[g] \in DOMAIN spaces[A[g]].map
              /\ spaces[A[g]].map[B[g]] = g
          BY <1>2, <4>1 DEF UsersOwned
        <4> QED BY <1>4, <2>1, <2>2, <4>1, <4>2
      <3> QED BY <3>1, <3>2
    <2> QED BY <2>3, <2>4 DEF UsersOwned
  <1> QED BY <1>3, <1>5, <1>6, <1>7, <1>8, <1>9 DEF Owned, Moved

\* kalloc for a stack.
LEMMA TakesStack ==
  ASSUME MemoryAssumption, NEW K, NEW A, NEW B, Owned(K, A, B),
         NEW f \in freelist, NEW n \in Slots, kstack \in [Slots -> Nat], kstack[n] = 0,
         freelist' = freelist \ {f}, kstack' = [kstack EXCEPT ![n] = f],
         UNCHANGED << lost, spaces >>, SameGot
  PROVE  \E K1, A1, B1 : Owned(K1, A1, B1)'
  <1> DEFINE K1 == [g \in Frame |-> IF g = f THEN "stack" ELSE K[g]]
             A1 == [g \in Frame |-> IF g = f THEN n ELSE A[g]]
  <1>1. f \in Frame /\ n \in Nat /\ K[f] = "free"
    BY MemNumbers DEF Owned, ListsOwned
  <1>2. /\ K \in [Frame -> Kinds] /\ A \in [Frame -> Nat] /\ B \in [Frame -> Nat]
        /\ ListsOwned(K) /\ TablesOwned(K, A) /\ UsersOwned(K, A, B)
        /\ StacksOwned(K, A) /\ SetupOwned(K, A, B)
    BY DEF Owned
  <1>3. /\ Moved(K, A, B, K1, A1, B, {f})
        /\ K1[f] = "stack" /\ A1[f] = n
    BY <1>1, <1>2 DEF Moved, Kinds
  <1> HIDE DEF K1, A1
  <1>5. ListsOwned(K1)'
    BY <1>1, <1>2, <1>3 DEF Moved, ListsOwned
  <1>6. TablesOwned(K1, A1)'
    BY <1>1, <1>2, <1>3, TablesStay
  <1>7. UsersOwned(K1, A1, B)'
    BY <1>1, <1>2, <1>3, UsersStay
  <1>8. SetupOwned(K1, A1, B)'
    BY <1>1, <1>2, <1>3, SetupStay DEF SameGot
  <1>9. StacksOwned(K1, A1)'
    BY <1>1, <1>2, <1>3 DEF Moved, StacksOwned
  <1> QED BY <1>3, <1>5, <1>6, <1>7, <1>8, <1>9 DEF Owned, Moved

\* deallocuvm: some entries of a space go, and their pages are free.
LEMMA GivesUsers ==
  ASSUME MemoryAssumption, NEW K, NEW A, NEW B, Owned(K, A, B),
         NEW d \in DOMAIN spaces, NEW vs, vs \subseteq DOMAIN spaces[d].map, NEW mp, NEW b,
         DOMAIN mp = DOMAIN spaces[d].map \ vs,
         \A u \in DOMAIN mp : mp[u] = spaces[d].map[u],
         freelist' = freelist \cup PagesAt(d, vs), Maps(d, mp, b),
         UNCHANGED << lost, kstack >>, SameGot
  PROVE  PagesAt(d, vs) \cap freelist = {} /\ \E K1, A1, B1 : Owned(K1, A1, B1)'
  <1>0. PICK G : G = PagesAt(d, vs)
    OBVIOUS
  <1> DEFINE K1 == [g \in Frame |-> IF g \in G THEN "free" ELSE K[g]]
  <1>1. /\ K \in [Frame -> Kinds] /\ A \in [Frame -> Nat] /\ B \in [Frame -> Nat]
        /\ ListsOwned(K) /\ TablesOwned(K, A) /\ UsersOwned(K, A, B)
        /\ StacksOwned(K, A) /\ SetupOwned(K, A, B)
    BY DEF Owned
  <1>2. \A g : g \in G <=> g \in Frame /\ K[g] = "user" /\ A[g] = d /\ B[g] \in vs
    <2>1. ASSUME NEW u \in vs
          PROVE  /\ spaces[d].map[u] \in Frame /\ K[spaces[d].map[u]] = "user"
                 /\ A[spaces[d].map[u]] = d /\ B[spaces[d].map[u]] = u
      BY <1>1, <2>1 DEF UsersOwned
    <2>2. ASSUME NEW g \in Frame, K[g] = "user", A[g] = d, B[g] \in vs
          PROVE  spaces[d].map[B[g]] = g
      BY <1>1, <2>2 DEF UsersOwned
    <2>3. \A g : g \in G <=> \E u \in vs : g = spaces[d].map[u]
      BY <1>0 DEF PagesAt
    <2> HIDE DEF K1
    <2>4. ASSUME NEW g \in G
          PROVE  g \in Frame /\ K[g] = "user" /\ A[g] = d /\ B[g] \in vs
      BY <2>1, <2>3
    <2>5. ASSUME NEW g \in Frame, K[g] = "user", A[g] = d, B[g] \in vs
          PROVE  g \in G
      BY <2>2, <2>3, <2>5
    <2> QED BY <2>4, <2>5
  <1>3. /\ Moved(K, A, B, K1, A, B, G)
        /\ \A g \in Frame : K1[g] = IF g \in G THEN "free" ELSE K[g]
    BY <1>1, <1>2 DEF Moved, Kinds
  <1>4. freelist' = freelist \cup G
    BY <1>0
  <1> HIDE DEF K1
  <1>5. DOMAIN spaces' = DOMAIN spaces /\ \A c \in DOMAIN spaces : spaces'[c].tables = spaces[c].tables
    BY DEF Maps
  <1>6. ListsOwned(K1)'
    BY <1>1, <1>2, <1>3, <1>4, <1>5 DEF ListsOwned
  <1>7. TablesOwned(K1, A)'
    BY <1>1, <1>2, <1>3, <1>5, TablesStay
  <1>8. StacksOwned(K1, A)'
    BY <1>1, <1>2, <1>3, StacksStay
  <1>9. SetupOwned(K1, A, B)'
    BY <1>1, <1>2, <1>3, SetupStay DEF SameGot
  <1>10. UsersOwned(K1, A, B)'
    <2>1. /\ spaces'[d].map = mp
          /\ \A c \in DOMAIN spaces : c # d => spaces'[c].map = spaces[c].map
      BY DEF Maps
    <2>2. ASSUME NEW c \in DOMAIN spaces', NEW u \in DOMAIN spaces'[c].map
          PROVE  /\ u \in Nat /\ spaces'[c].map[u] \in Frame
                 /\ K1[spaces'[c].map[u]] = "user" /\ A[spaces'[c].map[u]] = c
                 /\ B[spaces'[c].map[u]] = u
      <3>1. /\ c \in DOMAIN spaces /\ u \in DOMAIN spaces[c].map
            /\ spaces'[c].map[u] = spaces[c].map[u]
            /\ c = d => u \notin vs
        BY <1>5, <2>1, <2>2
      <3>2. /\ u \in Nat /\ spaces[c].map[u] \in Frame /\ K[spaces[c].map[u]] = "user"
            /\ A[spaces[c].map[u]] = c /\ B[spaces[c].map[u]] = u
        BY <1>1, <3>1 DEF UsersOwned
      <3> QED BY <1>2, <1>3, <3>1, <3>2
    <2>3. ASSUME NEW g \in Frame, K1[g] = "user"
          PROVE  /\ A[g] \in DOMAIN spaces' /\ B[g] \in DOMAIN spaces'[A[g]].map
                 /\ spaces'[A[g]].map[B[g]] = g
      <3>1. K[g] = "user" /\ g \notin G
        BY <1>3, <2>3
      <3>2. /\ A[g] \in DOMAIN spaces /\ B[g] \in DOMAIN spaces[A[g]].map
            /\ spaces[A[g]].map[B[g]] = g
        BY <1>1, <3>1 DEF UsersOwned
      <3>3. A[g] = d => B[g] \notin vs
        BY <1>2, <3>1
      <3> QED BY <1>5, <2>1, <3>2, <3>3
    <2> QED BY <2>2, <2>3 DEF UsersOwned
  <1>11. G \cap freelist = {}
    BY <1>1, <1>2 DEF ListsOwned
  <1> QED BY <1>0, <1>1, <1>3, <1>6, <1>7, <1>8, <1>9, <1>10, <1>11 DEF Owned, Moved

\* setupkvm has one more page.
LEMMA TakesSetup ==
  ASSUME MemoryAssumption, NEW K, NEW A, NEW B, Owned(K, A, B),
         NEW f \in freelist, NEW p \in Slots, Got(p) \in Seq(Frame),
         freelist' = freelist \ {f}, Got(p)' = Append(Got(p), f),
         \A q \in Slots \ {p} : Got(q)' = Got(q),
         UNCHANGED << lost, spaces, kstack >>
  PROVE  \E K1, A1, B1 : Owned(K1, A1, B1)'
  <1>0. PICK n : n = Len(Got(p)) + 1
    OBVIOUS
  <1> DEFINE K1 == [g \in Frame |-> IF g = f THEN "setup" ELSE K[g]]
             A1 == [g \in Frame |-> IF g = f THEN p ELSE A[g]]
             B1 == [g \in Frame |-> IF g = f THEN n ELSE B[g]]
  <1>1. f \in Frame /\ p \in Nat /\ K[f] = "free" /\ n \in Nat
    BY <1>0, MemNumbers DEF Owned, ListsOwned
  <1>2. /\ K \in [Frame -> Kinds] /\ A \in [Frame -> Nat] /\ B \in [Frame -> Nat]
        /\ ListsOwned(K) /\ TablesOwned(K, A) /\ UsersOwned(K, A, B)
        /\ StacksOwned(K, A) /\ SetupOwned(K, A, B)
    BY DEF Owned
  <1>3. PICK g1 : g1 = Append(Got(p), f)
    OBVIOUS
  <1>4. /\ Len(g1) = n /\ Len(Got(p)) \in Nat /\ n = Len(Got(p)) + 1 /\ g1[n] = f
        /\ \A i \in 1 .. Len(Got(p)) : g1[i] = Got(p)[i]
    BY <1>0, <1>1, <1>3
  <1>5. /\ Moved(K, A, B, K1, A1, B1, {f})
        /\ K1[f] = "setup" /\ A1[f] = p /\ B1[f] = n
    BY <1>1, <1>2 DEF Moved, Kinds
  <1> HIDE DEF K1, A1, B1
  <1>6. ListsOwned(K1)'
    BY <1>1, <1>2, <1>5 DEF Moved, ListsOwned
  <1>7. TablesOwned(K1, A1)'
    BY <1>1, <1>2, <1>5, TablesStay
  <1>8. StacksOwned(K1, A1)'
    BY <1>1, <1>2, <1>5, StacksStay
  <1>9. UsersOwned(K1, A1, B1)'
    BY <1>1, <1>2, <1>5, UsersStay
  <1>10. SetupOwned(K1, A1, B1)'
    <2>0. Got(p)' = g1
      BY <1>3
    <2>1. ASSUME NEW q \in Slots, NEW i \in 1 .. Len(Got(q)')
          PROVE  /\ Got(q)'[i] \in Frame /\ K1[Got(q)'[i]] = "setup"
                 /\ A1[Got(q)'[i]] = q /\ B1[Got(q)'[i]] = i
      <3>1. CASE q = p /\ i = n
        BY <1>1, <1>4, <1>5, <2>0, <3>1
      <3>2. CASE ~ (q = p /\ i = n)
        <4>1. i \in 1 .. Len(Got(q)) /\ Got(q)'[i] = Got(q)[i]
          BY <1>4, <2>0, <2>1, <3>2
        <4>2. /\ Got(q)[i] \in Frame /\ K[Got(q)[i]] = "setup"
              /\ A[Got(q)[i]] = q /\ B[Got(q)[i]] = i
          BY <1>2, <4>1 DEF SetupOwned
        <4>3. Got(q)[i] # f
          BY <1>1, <4>2
        <4> QED BY <1>5, <4>1, <4>2, <4>3 DEF Moved
      <3> QED BY <3>1, <3>2
    <2>2. ASSUME NEW g \in Frame, K1[g] = "setup"
          PROVE  A1[g] \in Slots /\ B1[g] \in 1 .. Len(Got(A1[g])') /\ Got(A1[g])'[B1[g]] = g
      <3>1. CASE g = f
        BY <1>1, <1>4, <1>5, <2>0, <3>1
      <3>2. CASE g # f
        <4>1. K[g] = "setup" /\ A1[g] = A[g] /\ B1[g] = B[g]
          BY <1>5, <2>2, <3>2 DEF Moved
        <4>2. A[g] \in Slots /\ B[g] \in 1 .. Len(Got(A[g])) /\ Got(A[g])[B[g]] = g
          BY <1>2, <4>1 DEF SetupOwned
        <4>3. CASE A[g] = p
          BY <1>4, <2>0, <4>1, <4>2, <4>3
        <4>4. CASE A[g] # p
          BY <4>1, <4>2, <4>4
        <4> QED BY <4>3, <4>4
      <3> QED BY <3>1, <3>2
    <2> QED BY <2>1, <2>2 DEF SetupOwned
  <1> QED BY <1>5, <1>6, <1>7, <1>8, <1>9, <1>10 DEF Owned, Moved

Unstacked(S) ==
  kstack' = [n \in Slots |-> IF n \in S THEN 0 ELSE kstack[n]]
Stacks(S) == {kstack[n] : n \in S}

\* Stacks that are given back.
StacksGo(S, F, K, A, K1) ==
  /\ S \subseteq Slots /\ Unstacked(S) /\ Stacks(S) \subseteq F
  /\ \A g \in Frame : g \in F => K1[g] # "stack" /\ (K[g] = "stack" => A[g] \in S)

\* Some slots give back their stacks.
LEMMA GivesStacks ==
  ASSUME NEW K, NEW A, NEW B, NEW K1, NEW A1, NEW B1, NEW F, NEW S,
         Moved(K, A, B, K1, A1, B1, F), StacksOwned(K, A), StacksGo(S, F, K, A, K1)
  PROVE  StacksOwned(K1, A1)'
  <1>0. \A g \in Frame : g \in F => K1[g] # "stack" /\ (K[g] = "stack" => A[g] \in S)
    BY DEF StacksGo
  <1>1. \A n \in Slots : kstack'[n] = IF n \in S THEN 0 ELSE kstack[n]
    BY DEF Unstacked, StacksGo
  <1>2. \A n \in S : kstack[n] \in F
    BY DEF Stacks, StacksGo
  <1>3. ASSUME NEW n \in Slots, kstack'[n] # 0
        PROVE  kstack'[n] \in Frame /\ K1[kstack'[n]] = "stack" /\ A1[kstack'[n]] = n
    <2>1. n \notin S /\ kstack'[n] = kstack[n] /\ kstack[n] # 0
      BY <1>1, <1>3
    <2>2. kstack[n] \in Frame /\ K[kstack[n]] = "stack" /\ A[kstack[n]] = n
      BY <2>1 DEF StacksOwned
    <2>3. kstack[n] \notin F
      BY <1>0, <2>1, <2>2
    <2> QED BY <2>1, <2>2, <2>3 DEF Moved
  <1>4. ASSUME NEW f \in Frame, K1[f] = "stack"
        PROVE  A1[f] \in Slots /\ kstack'[A1[f]] = f
    <2>1. f \notin F
      BY <1>0, <1>4
    <2>2. K[f] = "stack" /\ A1[f] = A[f]
      BY <1>4, <2>1 DEF Moved
    <2>3. A[f] \in Slots /\ kstack[A[f]] = f
      BY <2>2 DEF StacksOwned
    <2>4. A[f] \notin S
      BY <1>2, <2>1, <2>3
    <2> QED BY <1>1, <2>2, <2>3, <2>4
  <1> QED BY <1>3, <1>4 DEF StacksOwned

\* The stacks of some slots are the pages that have them for their owners.
LEMMA StacksView ==
  ASSUME NEW K, NEW A, StacksOwned(K, A), NEW S, S \subseteq Slots,
         \A n \in S : kstack[n] # 0
  PROVE  \A g : g \in Stacks(S) <=> g \in Frame /\ K[g] = "stack" /\ A[g] \in S
  <1>1. \A n \in S : kstack[n] \in Frame /\ K[kstack[n]] = "stack" /\ A[kstack[n]] = n
    BY DEF StacksOwned
  <1>2. \A g \in Frame : K[g] = "stack" => kstack[A[g]] = g
    BY DEF StacksOwned
  <1>3. \A g : g \in Stacks(S) <=> \E n \in S : g = kstack[n]
    BY DEF Stacks
  <1> QED BY <1>1, <1>2, <1>3

\* setupkvm fails: what it has is lost, the stack is free.
LEMMA LosesSetup ==
  ASSUME MemoryAssumption, NEW K, NEW A, NEW B, Owned(K, A, B), NEW p \in Slots,
         NEW S, S \subseteq Slots, \A n \in S : kstack[n] # 0, Unstacked(S),
         NEW L, \A g : g \in L <=> \E i \in 1 .. Len(Got(p)) : g = Got(p)[i],
         lost' = lost \cup L, freelist' = freelist \cup Stacks(S),
         Len(Got(p)') = 0, \A q \in Slots \ {p} : Got(q)' = Got(q),
         UNCHANGED spaces
  PROVE  \E K1, A1, B1 : Owned(K1, A1, B1)'
  <1>1. /\ K \in [Frame -> Kinds] /\ A \in [Frame -> Nat] /\ B \in [Frame -> Nat]
        /\ ListsOwned(K) /\ TablesOwned(K, A) /\ UsersOwned(K, A, B)
        /\ StacksOwned(K, A) /\ SetupOwned(K, A, B)
    BY DEF Owned
  <1>2. PICK T : T = Stacks(S)
    OBVIOUS
  <1>3. \A g : g \in T <=> g \in Frame /\ K[g] = "stack" /\ A[g] \in S
    BY <1>1, <1>2, StacksView
  <1>4. \A g : g \in L <=> g \in Frame /\ K[g] = "setup" /\ A[g] = p
    <2>1. ASSUME NEW i \in 1 .. Len(Got(p))
          PROVE  Got(p)[i] \in Frame /\ K[Got(p)[i]] = "setup" /\ A[Got(p)[i]] = p
      BY <1>1 DEF SetupOwned
    <2>2. ASSUME NEW g \in Frame, K[g] = "setup", A[g] = p
          PROVE  \E i \in 1 .. Len(Got(p)) : g = Got(p)[i]
      BY <1>1, <2>2 DEF SetupOwned
    <2>3. ASSUME NEW g \in L
          PROVE  g \in Frame /\ K[g] = "setup" /\ A[g] = p
      BY <2>1
    <2>4. ASSUME NEW g \in Frame, K[g] = "setup", A[g] = p
          PROVE  g \in L
      BY <2>2, <2>4
    <2> QED BY <2>3, <2>4
  <1> DEFINE K1 == [g \in Frame |-> IF g \in L THEN "lost" ELSE IF g \in T THEN "free" ELSE K[g]]
             F == L \cup T
  <1>5. /\ Moved(K, A, B, K1, A, B, F)
        /\ \A g \in Frame : K1[g] = IF g \in L THEN "lost" ELSE IF g \in T THEN "free" ELSE K[g]
    BY <1>1 DEF Moved, Kinds
  <1>6. ASSUME NEW g \in Frame, g \in F
        PROVE  /\ K1[g] # "table" /\ K1[g] # "user" /\ K1[g] # "stack" /\ K1[g] # "setup"
               /\ K[g] # "table" /\ K[g] # "user" /\ (K[g] = "stack" => A[g] \in S)
    BY <1>3, <1>4, <1>5, <1>6
  <1> HIDE DEF K1
  <1>7. ListsOwned(K1)'
    BY <1>1, <1>2, <1>3, <1>4, <1>5 DEF ListsOwned
  <1>8. TablesOwned(K1, A)'
    BY <1>1, <1>5, <1>6, TablesStay
  <1>9. UsersOwned(K1, A, B)'
    BY <1>1, <1>5, <1>6, UsersStay
  <1>10. StacksOwned(K1, A)'
    <2>1. Stacks(S) \subseteq F
      BY <1>2
    <2> HIDE DEF F
    <2>2. \A g \in Frame : g \in F => K1[g] # "stack" /\ (K[g] = "stack" => A[g] \in S)
      BY <1>6
    <2>3. StacksGo(S, F, K, A, K1)
      BY <2>1, <2>2 DEF StacksGo
    <2> QED BY <1>1, <1>5, <2>3, GivesStacks
  <1>11. SetupOwned(K1, A, B)'
    <2>1. ASSUME NEW q \in Slots, NEW i \in 1 .. Len(Got(q)')
          PROVE  /\ Got(q)'[i] \in Frame /\ K1[Got(q)'[i]] = "setup"
                 /\ A[Got(q)'[i]] = q /\ B[Got(q)'[i]] = i
      <3>1. q # p /\ Got(q)' = Got(q)
        BY <2>1
      <3>2. /\ Got(q)[i] \in Frame /\ K[Got(q)[i]] = "setup"
            /\ A[Got(q)[i]] = q /\ B[Got(q)[i]] = i
        BY <1>1, <2>1, <3>1 DEF SetupOwned
      <3>3. Got(q)[i] \notin L /\ Got(q)[i] \notin T
        BY <1>3, <1>4, <3>1, <3>2
      <3>4. K1[Got(q)[i]] = "setup"
        BY <1>5, <3>2, <3>3
      <3> QED BY <3>1, <3>2, <3>4
    <2>2. ASSUME NEW g \in Frame, K1[g] = "setup"
          PROVE  A[g] \in Slots /\ B[g] \in 1 .. Len(Got(A[g])') /\ Got(A[g])'[B[g]] = g
      <3>1. K[g] = "setup" /\ g \notin L
        BY <1>5, <2>2
      <3>2. A[g] \in Slots /\ B[g] \in 1 .. Len(Got(A[g])) /\ Got(A[g])[B[g]] = g
        BY <1>1, <3>1 DEF SetupOwned
      <3>3. A[g] # p
        BY <1>4, <3>1
      <3> QED BY <3>2, <3>3
    <2> QED BY <2>1, <2>2 DEF SetupOwned
  <1> QED BY <1>1, <1>5, <1>7, <1>8, <1>9, <1>10, <1>11 DEF Owned, Moved

\* setupkvm is done: its pages are a space.
LEMMA MakesSpace ==
  ASSUME MemoryAssumption, NEW K, NEW A, NEW B, Owned(K, A, B), NEW p \in Slots,
         NEW f \in freelist, NEW d, NEW T, d \notin T,
         \A g : g \in T \cup {d} <=> g = f \/ \E i \in 1 .. Len(Got(p)) : g = Got(p)[i],
         freelist' = freelist \ {f}, Gains(d, T),
         Len(Got(p)') = 0, \A q \in Slots \ {p} : Got(q)' = Got(q),
         UNCHANGED << lost, kstack >>
  PROVE  d \notin DOMAIN spaces /\ \E K1, A1, B1 : Owned(K1, A1, B1)'
  <1>1. /\ K \in [Frame -> Kinds] /\ A \in [Frame -> Nat] /\ B \in [Frame -> Nat]
        /\ ListsOwned(K) /\ TablesOwned(K, A) /\ UsersOwned(K, A, B)
        /\ StacksOwned(K, A) /\ SetupOwned(K, A, B)
    BY DEF Owned
  <1>2. f \in Frame /\ K[f] = "free"
    BY <1>1 DEF ListsOwned
  <1>3. \A g : g \in T \cup {d} <=> g = f \/ (g \in Frame /\ K[g] = "setup" /\ A[g] = p)
    <2>1. ASSUME NEW i \in 1 .. Len(Got(p))
          PROVE  Got(p)[i] \in Frame /\ K[Got(p)[i]] = "setup" /\ A[Got(p)[i]] = p
      BY <1>1 DEF SetupOwned
    <2>2. ASSUME NEW g \in Frame, K[g] = "setup", A[g] = p
          PROVE  \E i \in 1 .. Len(Got(p)) : g = Got(p)[i]
      BY <1>1, <2>2 DEF SetupOwned
    <2>3. ASSUME NEW g \in T \cup {d}
          PROVE  g = f \/ (g \in Frame /\ K[g] = "setup" /\ A[g] = p)
      BY <2>1
    <2>4. ASSUME NEW g \in Frame, K[g] = "setup", A[g] = p
          PROVE  g \in T \cup {d}
      BY <2>2, <2>4
    <2> QED BY <2>3, <2>4
  <1>4. d \in Frame /\ d \in Nat /\ d \notin DOMAIN spaces
    <2>1. d = f \/ (d \in Frame /\ K[d] = "setup" /\ A[d] = p)
      BY <1>3
    <2>2. d \in Frame /\ K[d] # "dir"
      BY <1>2, <2>1
    <2> QED BY <1>1, <2>2, MemNumbers DEF ListsOwned
  <1> DEFINE F == T \cup {d}
             K1 == [g \in Frame |-> IF g = d THEN "dir" ELSE IF g \in T THEN "table" ELSE K[g]]
             A1 == [g \in Frame |-> IF g \in T THEN d ELSE A[g]]
  <1>5. /\ Moved(K, A, B, K1, A1, B, F)
        /\ \A g \in Frame :
             /\ K1[g] = IF g = d THEN "dir" ELSE IF g \in T THEN "table" ELSE K[g]
             /\ A1[g] = IF g \in T THEN d ELSE A[g]
    BY <1>1, <1>4 DEF Moved, Kinds
  <1>6. ASSUME NEW g \in Frame, g \in F
        PROVE  /\ K1[g] # "user" /\ K1[g] # "stack" /\ K1[g] # "setup"
               /\ K[g] # "user" /\ K[g] # "stack" /\ K[g] # "table"
               /\ K[g] # "dir" /\ K[g] # "lost" /\ (K[g] = "free" => g = f)
    BY <1>2, <1>3, <1>5, <1>6
  <1> HIDE DEF K1, A1
  <1>7. ListsOwned(K1)'
    <2>1. freelist' = freelist \ {f} /\ lost' = lost /\ DOMAIN spaces' = DOMAIN spaces \cup {d}
      BY DEF Gains
    <2>2. ASSUME NEW g \in Frame
          PROVE  /\ K1[g] = "free" <=> g \in freelist /\ g # f
                 /\ K1[g] = "lost" <=> g \in lost
                 /\ K1[g] = "dir" <=> g \in DOMAIN spaces \/ g = d
      <3>1. CASE g \in F
        BY <1>1, <1>5, <1>6, <3>1 DEF ListsOwned
      <3>2. CASE g \notin F
        BY <1>1, <1>3, <1>5, <3>2 DEF ListsOwned
      <3> QED BY <3>1, <3>2
    <2> QED BY <1>1, <1>4, <2>1, <2>2 DEF ListsOwned
  <1>8. TablesOwned(K1, A1)'
    <2>1. /\ DOMAIN spaces' = DOMAIN spaces \cup {d} /\ spaces'[d].tables = T
          /\ \A c \in DOMAIN spaces : spaces'[c].tables = spaces[c].tables
      BY <1>4 DEF Gains
    <2>2. ASSUME NEW c \in DOMAIN spaces, NEW g \in spaces[c].tables
          PROVE  g \in Frame /\ K1[g] = "table" /\ A1[g] = c
      <3>1. g \in Frame /\ K[g] = "table" /\ A[g] = c
        BY <1>1 DEF TablesOwned
      <3>2. g \notin F
        BY <1>6, <3>1
      <3> QED BY <1>5, <3>1, <3>2
    <2>3. ASSUME NEW g \in T
          PROVE  g \in Frame /\ K1[g] = "table" /\ A1[g] = d
      BY <1>2, <1>3, <1>5
    <2>4. ASSUME NEW g \in Frame, K1[g] = "table"
          PROVE  A1[g] \in DOMAIN spaces' /\ g \in spaces'[A1[g]].tables
      <3>1. CASE g \in T
        BY <1>5, <2>1, <3>1
      <3>2. CASE g \notin T
        <4>1. K[g] = "table" /\ A1[g] = A[g]
          BY <1>5, <2>4, <3>2
        <4>2. A[g] \in DOMAIN spaces /\ g \in spaces[A[g]].tables
          BY <1>1, <4>1 DEF TablesOwned
        <4> QED BY <2>1, <4>1, <4>2
      <3> QED BY <3>1, <3>2
    <2> QED BY <2>1, <2>2, <2>3, <2>4 DEF TablesOwned
  <1>9. UsersOwned(K1, A1, B)'
    <2>1. /\ DOMAIN spaces' = DOMAIN spaces \cup {d} /\ spaces'[d].map = << >>
          /\ \A c \in DOMAIN spaces : spaces'[c].map = spaces[c].map
      BY <1>4 DEF Gains
    <2>2. ASSUME NEW c \in DOMAIN spaces, NEW u \in DOMAIN spaces[c].map
          PROVE  /\ u \in Nat /\ spaces[c].map[u] \in Frame
                 /\ K1[spaces[c].map[u]] = "user" /\ A1[spaces[c].map[u]] = c
                 /\ B[spaces[c].map[u]] = u
      <3>1. /\ u \in Nat /\ spaces[c].map[u] \in Frame /\ K[spaces[c].map[u]] = "user"
            /\ A[spaces[c].map[u]] = c /\ B[spaces[c].map[u]] = u
        BY <1>1 DEF UsersOwned
      <3>2. spaces[c].map[u] \notin F
        BY <1>6, <3>1
      <3> QED BY <1>5, <3>1, <3>2
    <2>3. ASSUME NEW g \in Frame, K1[g] = "user"
          PROVE  /\ A1[g] \in DOMAIN spaces /\ B[g] \in DOMAIN spaces[A1[g]].map
                 /\ spaces[A1[g]].map[B[g]] = g
      <3>1. K[g] = "user" /\ A1[g] = A[g]
        BY <1>5, <1>6, <2>3
      <3> QED BY <1>1, <3>1 DEF UsersOwned
    <2>4. DOMAIN << >> = {}
      OBVIOUS
    <2> QED BY <2>1, <2>2, <2>3, <2>4 DEF UsersOwned
  <1>10. StacksOwned(K1, A1)'
    <2>1. \A g \in Frame : g \in F => K[g] # "stack" /\ K1[g] # "stack"
      BY <1>6
    <2> HIDE DEF F
    <2> QED BY <1>1, <1>5, <2>1, StacksStay
  <1>11. SetupOwned(K1, A1, B)'
    <2>1. ASSUME NEW q \in Slots, NEW i \in 1 .. Len(Got(q)')
          PROVE  /\ Got(q)'[i] \in Frame /\ K1[Got(q)'[i]] = "setup"
                 /\ A1[Got(q)'[i]] = q /\ B[Got(q)'[i]] = i
      <3>1. q # p /\ Got(q)' = Got(q)
        BY <2>1
      <3>2. /\ Got(q)[i] \in Frame /\ K[Got(q)[i]] = "setup"
            /\ A[Got(q)[i]] = q /\ B[Got(q)[i]] = i
        BY <1>1, <2>1, <3>1 DEF SetupOwned
      <3>3. Got(q)[i] \notin F
        BY <1>2, <1>3, <3>1, <3>2
      <3>4. K1[Got(q)[i]] = "setup" /\ A1[Got(q)[i]] = q
        BY <1>5, <3>2, <3>3
      <3> QED BY <3>1, <3>2, <3>4
    <2>2. ASSUME NEW g \in Frame, K1[g] = "setup"
          PROVE  A1[g] \in Slots /\ B[g] \in 1 .. Len(Got(A1[g])') /\ Got(A1[g])'[B[g]] = g
      <3>1. K[g] = "setup" /\ g \notin F /\ A1[g] = A[g]
        BY <1>5, <1>6, <2>2
      <3>2. A[g] \in Slots /\ B[g] \in 1 .. Len(Got(A[g])) /\ Got(A[g])[B[g]] = g
        BY <1>1, <3>1 DEF SetupOwned
      <3>3. A[g] # p
        BY <1>3, <3>1
      <3> QED BY <3>1, <3>2, <3>3
    <2> QED BY <2>1, <2>2 DEF SetupOwned
  <1> QED BY <1>4, <1>5, <1>7, <1>8, <1>9, <1>10, <1>11 DEF Owned, Moved


\* What freevm gives back: the pages that belong to the space.
LEMMA AllOfView ==
  ASSUME NEW K, NEW A, NEW B, Owned(K, A, B), NEW d \in DOMAIN spaces
  PROVE  \A g : g \in AllOf(d) <=>
           /\ g \in Frame
           /\ \/ K[g] = "dir" /\ g = d
              \/ K[g] = "table" /\ A[g] = d
              \/ K[g] = "user" /\ A[g] = d
  <1>1. ListsOwned(K) /\ TablesOwned(K, A) /\ UsersOwned(K, A, B)
    BY DEF Owned
  <1>2. d \in Frame /\ K[d] = "dir"
    BY <1>1 DEF ListsOwned
  <1>3. \A g : g \in spaces[d].tables <=> g \in Frame /\ K[g] = "table" /\ A[g] = d
    BY <1>1 DEF TablesOwned
  <1>4. \A g : g \in PagesAt(d, DOMAIN spaces[d].map) <=> g \in Frame /\ K[g] = "user" /\ A[g] = d
    <2>1. \A u \in DOMAIN spaces[d].map :
            /\ spaces[d].map[u] \in Frame /\ K[spaces[d].map[u]] = "user"
            /\ A[spaces[d].map[u]] = d
      BY <1>1 DEF UsersOwned
    <2>2. ASSUME NEW g \in Frame, K[g] = "user", A[g] = d
          PROVE  B[g] \in DOMAIN spaces[d].map /\ g = spaces[d].map[B[g]]
      BY <1>1, <2>2 DEF UsersOwned
    <2>3. \A g : g \in PagesAt(d, DOMAIN spaces[d].map) <=>
                   \E u \in DOMAIN spaces[d].map : g = spaces[d].map[u]
      BY DEF PagesAt
    <2> QED BY <2>1, <2>2, <2>3
  <1>5. \A g : g \in AllOf(d) <=> \/ g = d \/ g \in spaces[d].tables
                                 \/ g \in PagesAt(d, DOMAIN spaces[d].map)
    BY DEF AllOf
  <1> QED BY <1>2, <1>3, <1>4, <1>5

\* freevm, and kfree of a stack: all the pages of the spaces in D are free.
LEMMA GivesSpaces ==
  ASSUME MemoryAssumption, NEW K, NEW A, NEW B, Owned(K, A, B),
         NEW D, D \subseteq DOMAIN spaces, LeftOut(D),
         NEW S, S \subseteq Slots, \A n \in S : kstack[n] # 0, Unstacked(S),
         NEW G, \A g : g \in G <=> g \in Stacks(S) \/ \E d \in D : g \in AllOf(d),
         freelist' = freelist \cup G, lost' = lost, SameGot
  PROVE  G \cap freelist = {} /\ \E K1, A1, B1 : Owned(K1, A1, B1)'
  <1>1. /\ K \in [Frame -> Kinds] /\ A \in [Frame -> Nat] /\ B \in [Frame -> Nat]
        /\ ListsOwned(K) /\ TablesOwned(K, A) /\ UsersOwned(K, A, B)
        /\ StacksOwned(K, A) /\ SetupOwned(K, A, B)
    BY DEF Owned
  <1>2. \A g : g \in Stacks(S) <=> g \in Frame /\ K[g] = "stack" /\ A[g] \in S
    BY <1>1, StacksView
  <1>3. \A g : g \in G <=> /\ g \in Frame
                         /\ \/ K[g] = "stack" /\ A[g] \in S
                            \/ K[g] = "dir" /\ g \in D
                            \/ K[g] \in {"table", "user"} /\ A[g] \in D
    <2>1. ASSUME NEW d \in D
          PROVE  \A g : g \in AllOf(d) <=>
                   /\ g \in Frame
                   /\ \/ K[g] = "dir" /\ g = d
                      \/ K[g] = "table" /\ A[g] = d
                      \/ K[g] = "user" /\ A[g] = d
      BY AllOfView
    <2> QED BY <1>2, <2>1
  <1>4. ASSUME NEW g \in Frame, g \in G
        PROVE  /\ K[g] # "free" /\ K[g] # "lost" /\ K[g] # "setup"
               /\ K[g] = "stack" => A[g] \in S
               /\ K[g] \in {"table", "user"} => A[g] \in D
               /\ K[g] = "dir" => g \in D
    BY <1>3, <1>4
  <1> DEFINE K1 == [g \in Frame |-> IF g \in G THEN "free" ELSE K[g]]
  <1>5. /\ Moved(K, A, B, K1, A, B, G)
        /\ \A g \in Frame : K1[g] = IF g \in G THEN "free" ELSE K[g]
    BY <1>1 DEF Moved, Kinds
  <1> HIDE DEF K1
  <1>6. G \cap freelist = {}
    BY <1>1, <1>3 DEF ListsOwned
  <1>7. ListsOwned(K1)'
    <2>1. DOMAIN spaces' = DOMAIN spaces \ D
      BY DEF LeftOut
    <2>2. ASSUME NEW g \in Frame
          PROVE  /\ K1[g] = "free" <=> g \in freelist \/ g \in G
                 /\ K1[g] = "lost" <=> g \in lost
                 /\ K1[g] = "dir" <=> g \in DOMAIN spaces /\ g \notin D
      <3>1. K[g] = "dir" /\ g \in D => g \in G
        BY <1>3
      <3>2. /\ K[g] = "free" <=> g \in freelist
            /\ K[g] = "lost" <=> g \in lost
            /\ K[g] = "dir" <=> g \in DOMAIN spaces
        BY <1>1 DEF ListsOwned
      <3>3. CASE g \in G
        BY <1>4, <1>5, <3>2, <3>3
      <3>4. CASE g \notin G
        BY <1>5, <3>1, <3>2, <3>4
      <3> QED BY <3>3, <3>4
    <2>3. G \subseteq Frame
      BY <1>3
    <2> QED BY <1>1, <2>1, <2>2, <2>3 DEF ListsOwned
  <1>8. TablesOwned(K1, A)'
    <2>1. ASSUME NEW c \in DOMAIN spaces', NEW g \in spaces'[c].tables
          PROVE  g \in Frame /\ K1[g] = "table" /\ A[g] = c
      <3>1. c \in DOMAIN spaces /\ c \notin D /\ g \in spaces[c].tables
        BY <2>1 DEF LeftOut
      <3>2. g \in Frame /\ K[g] = "table" /\ A[g] = c
        BY <1>1, <3>1 DEF TablesOwned
      <3>3. g \notin G
        BY <1>4, <3>1, <3>2
      <3> QED BY <1>5, <3>2, <3>3
    <2>2. ASSUME NEW g \in Frame, K1[g] = "table"
          PROVE  A[g] \in DOMAIN spaces' /\ g \in spaces'[A[g]].tables
      <3>1. g \notin G /\ K[g] = "table"
        BY <1>5, <2>2
      <3>2. A[g] \in DOMAIN spaces /\ g \in spaces[A[g]].tables /\ A[g] \notin D
        BY <1>1, <1>3, <3>1 DEF TablesOwned
      <3> QED BY <3>2 DEF LeftOut
    <2> QED BY <2>1, <2>2 DEF TablesOwned
  <1>9. UsersOwned(K1, A, B)'
    <2>1. ASSUME NEW c \in DOMAIN spaces', NEW u \in DOMAIN spaces'[c].map
          PROVE  /\ u \in Nat /\ spaces'[c].map[u] \in Frame
                 /\ K1[spaces'[c].map[u]] = "user" /\ A[spaces'[c].map[u]] = c
                 /\ B[spaces'[c].map[u]] = u
      <3>1. c \in DOMAIN spaces /\ c \notin D /\ spaces'[c] = spaces[c]
        BY <2>1 DEF LeftOut
      <3>2. /\ u \in Nat /\ spaces[c].map[u] \in Frame /\ K[spaces[c].map[u]] = "user"
            /\ A[spaces[c].map[u]] = c /\ B[spaces[c].map[u]] = u
        BY <1>1, <2>1, <3>1 DEF UsersOwned
      <3>3. spaces[c].map[u] \notin G
        BY <1>4, <3>1, <3>2
      <3> QED BY <1>5, <3>1, <3>2, <3>3
    <2>2. ASSUME NEW g \in Frame, K1[g] = "user"
          PROVE  /\ A[g] \in DOMAIN spaces' /\ B[g] \in DOMAIN spaces'[A[g]].map
                 /\ spaces'[A[g]].map[B[g]] = g
      <3>1. g \notin G /\ K[g] = "user"
        BY <1>5, <2>2
      <3>2. /\ A[g] \in DOMAIN spaces /\ B[g] \in DOMAIN spaces[A[g]].map
            /\ spaces[A[g]].map[B[g]] = g
        BY <1>1, <3>1 DEF UsersOwned
      <3>3. A[g] \notin D
        BY <1>3, <3>1
      <3> QED BY <3>2, <3>3 DEF LeftOut
    <2> QED BY <2>1, <2>2 DEF UsersOwned
  <1>10. StacksOwned(K1, A)'
    <2>1. \A g \in Frame : g \in G => K1[g] # "stack" /\ (K[g] = "stack" => A[g] \in S)
      BY <1>4, <1>5
    <2>2. Stacks(S) \subseteq G
      OBVIOUS
    <2>3. StacksGo(S, G, K, A, K1)
      BY <2>1, <2>2 DEF StacksGo
    <2> QED BY <1>1, <1>5, <2>3, GivesStacks
  <1>11. SetupOwned(K1, A, B)'
    <2>1. \A g \in Frame : g \in G => K[g] # "setup" /\ K1[g] # "setup"
      BY <1>4, <1>5
    <2>2. \A q \in Slots : Got(q)' = Got(q)
      BY DEF SameGot
    <2> QED BY <1>1, <1>5, <2>1, <2>2, SetupStay
  <1> QED BY <1>1, <1>5, <1>6, <1>7, <1>8, <1>9, <1>10, <1>11 DEF Owned, Moved

---------------------------------------------------------------------------
(* The calls, and the least free page and slot. *)

\* What the record of a call holds.
LEMMA CallFields ==
  ASSUME CallsTyped, NEW p \in Slots
  PROVE  /\ call[p].op \in {"none", "sbrk", "fork", "exec"}
         /\ call[p].op = "none" <=> call[p] = NoCall
         /\ call[p].op = "sbrk" => /\ call[p].old \in 0 .. USERTOP /\ call[p].new \in 0 .. USERTOP
                                  /\ call[p].at \in Nat /\ call[p] \in SbrkCall
         /\ call[p].op \in {"fork", "exec"} => /\ call[p].got \in Seq(Frame) /\ call[p].at \in Nat
                                             /\ call[p].size \in 0 .. USERTOP
         /\ call[p].op = "fork" => call[p].np \in Slots /\ call[p] \in ForkCall
         /\ call[p].op = "exec" => call[p] \in ExecCall
  <1>1. call[p] \in {NoCall} \cup SbrkCall \cup ForkCall \cup ExecCall
    BY DEF CallsTyped
  <1>2. CASE call[p] = NoCall
    BY <1>2 DEF NoCall
  <1>3. CASE call[p] \in SbrkCall
    BY <1>3 DEF SbrkCall, NoCall
  <1>4. CASE call[p] \in ForkCall
    BY <1>4 DEF ForkCall, NoCall
  <1>5. CASE call[p] \in ExecCall
    BY <1>5 DEF ExecCall, NoCall
  <1> QED BY <1>1, <1>2, <1>3, <1>4, <1>5

LEMMA CallSet ==
  ASSUME CallsTyped, NEW p \in Slots,
         NEW c \in {NoCall} \cup SbrkCall \cup ForkCall \cup ExecCall,
         call' = [call EXCEPT ![p] = c]
  PROVE  CallsTyped' /\ call'[p] = c /\ \A q \in Slots : q # p => call'[q] = call[q]
  BY DEF CallsTyped, NoCall, SbrkCall, ForkCall, ExecCall

\* kalloc gives a page of the free list.
LEMMA KallocView ==
  ASSUME MemoryAssumption, NEW K, NEW A, NEW B, Owned(K, A, B), ~NoPage
  PROVE  Kalloc \in freelist /\ Kalloc \in Frame /\ Kalloc \in Nat /\ Kalloc # 0
  <1>1. freelist \subseteq Frame /\ freelist # {} /\ Frame \subseteq Nat \ {0}
    BY MemNumbers DEF Owned, ListsOwned, NoPage
  <1>2. freelist \in SUBSET Nat
    BY <1>1
  <1>3. Kalloc \in freelist
    BY <1>1, <1>2, MinInSet DEF Kalloc
  <1> QED BY <1>1, <1>3

\* The slot that allocproc takes is unused.
LEMMA UnusedView ==
  ASSUME MemoryAssumption, Unused # {}
  PROVE  Min(Unused) \in Slots /\ kstack[Min(Unused)] = 0
  <1>1. Unused \in SUBSET Nat
    BY MemNumbers DEF Unused
  <1>2. Min(Unused) \in Unused
    BY <1>1, MinInSet
  <1> QED BY <1>2 DEF Unused

\* A slot whose call and spaces stay as they are.
Alike(q) ==
  /\ call'[q] = call[q] /\ pgdir'[q] = pgdir[q] /\ sz'[q] = sz[q]
  /\ pgdir[q] # 0 => spaces'[pgdir[q]] = spaces[pgdir[q]]
  /\ Builds(q) /\ Ready(q) => spaces'[New(q)] = spaces[New(q)]

SbrkIn(d) == \E q \in Slots : pgdir[q] = d /\ call[q].op = "sbrk"

\* A process that the step does not concern keeps a right size.
LEMMA SizeStays ==
  ASSUME NEW q \in Slots, Sized(q), Settled(q), Alike(q),
         pgdir[q] # 0 /\ SbrkIn(pgdir[q]) => SbrkIn(pgdir[q])'
  PROVE  Sized(q)'
  <1>1. call'[q] = call[q] /\ pgdir'[q] = pgdir[q] /\ sz'[q] = sz[q]
    BY DEF Alike
  <1>2. Builds(q)' = Builds(q) /\ Ready(q)' = Ready(q) /\ New(q)' = New(q) /\ IsFork(q)' = IsFork(q)
    BY <1>1 DEF Builds, Ready, New, IsFork
  <1>3. CASE pgdir[q] = 0
    <2>1. call[q] = NoCall
      BY <1>3 DEF Settled
    <2>2. ~Builds(q) /\ ~IsFork(q) /\ call[q].op # "sbrk"
      BY <2>1 DEF Builds, IsFork, NoCall
    <2> QED BY <1>1, <1>2, <1>3, <2>2 DEF Sized, RestSize, SbrkSize, ForkSize, BuildSize
  <1>4. CASE pgdir[q] # 0
    <2>1. spaces'[pgdir[q]] = spaces[pgdir[q]]
      BY <1>4 DEF Alike
    <2>2. RestSize(q)'
      BY <1>1, <1>4, <2>1 DEF Sized, RestSize, SbrkIn
    <2>3. SbrkSize(q)'
      BY <1>1, <2>1 DEF Sized, SbrkSize
    <2>4. ForkSize(q)'
      BY <1>1, <1>2, <2>1 DEF Sized, ForkSize
    <2>5. BuildSize(q)'
      <3>1. CASE Builds(q) /\ Ready(q)
        BY <1>1, <1>2, <3>1 DEF Sized, BuildSize, Alike
      <3>2. CASE ~ (Builds(q) /\ Ready(q))
        BY <1>1, <1>2, <3>2 DEF Sized, BuildSize
      <3> QED BY <3>1, <3>2
    <2> QED BY <2>2, <2>3, <2>4, <2>5 DEF Sized
  <1> QED BY <1>3, <1>4

---------------------------------------------------------------------------
(* growproc. *)

\* What holds before a step.
Standing(p) ==
  /\ MemoryAssumption /\ MemInv /\ ~Racing /\ p \in Slots

LEMMA BeforeFacts ==
  ASSUME NEW p, Standing(p)
  PROVE  /\ SpacesTyped /\ SlotsTyped /\ CallsTyped /\ SlotsRight /\ SizesRight /\ ~stopped /\ ~twice
         /\ MemoryAssumption /\ p \in Slots /\ \E K, A, B : Owned(K, A, B)
         /\ kstack \in [Slots -> Nat] /\ pgdir \in [Slots -> Nat]
         /\ sz \in [Slots -> 0 .. USERTOP] /\ thread \in [Slots -> BOOLEAN]
         /\ \A q \in Slots : Settled(q) /\ ExecAlone(q) /\ BuildsOwn(q) /\ ForksOwn(q) /\ Sized(q)
  BY DEF Standing, MemInv, MemTyped, SlotsRight, SizesRight, SlotsTyped

LEMMA RunsFacts ==
  ASSUME NEW p, Standing(p), Runs(p)
  PROVE  /\ pgdir[p] # 0 /\ call[p] = NoCall /\ ~spaces[pgdir[p]].emptied
         /\ pgdir[p] \in DOMAIN spaces /\ kstack[p] # 0 /\ Got(p) = << >>
         /\ call[p].op = "none" /\ ~Builds(p) /\ ~IsFork(p)
  BY BeforeFacts DEF Runs, Settled, NoCall, Builds, IsFork, Got

LEMMA BeginSbrkKeeps ==
  ASSUME NEW p, Standing(p), NEW n \in Sbrk, BeginSbrk(p, n)
  PROVE  MemInv'
  <1> DEFINE c == [op |-> "sbrk", old |-> sz[p], new |-> NewSize(p, n), at |-> Pages(sz[p]) * PGSIZE]
  <1>1. /\ SpacesTyped /\ CallsTyped /\ SlotsRight /\ SizesRight /\ ~stopped /\ ~twice
        /\ MemoryAssumption /\ p \in Slots /\ sz \in [Slots -> 0 .. USERTOP]
    BY BeforeFacts
  <1>2. /\ pgdir[p] # 0 /\ call[p] = NoCall /\ ~spaces[pgdir[p]].emptied
        /\ call[p].op = "none" /\ ~Builds(p) /\ ~IsFork(p) /\ Got(p) = << >>
    BY RunsFacts DEF BeginSbrk
  <1>3. UNCHANGED << freelist, spaces, lost, twice, kstack, pgdir, sz, thread, stopped >>
    BY DEF BeginSbrk, tables, slotvars
  <1>4. sz[p] \in 0 .. USERTOP /\ NewSize(p, n) \in 0 .. USERTOP
    <2>1. PGSIZE \in Nat /\ USERTOP \in Nat /\ Width \in Nat /\ USERTOP < Width /\ n \in Int
      BY <1>1, MemNumbers
    <2>2. sz[p] \in 0 .. USERTOP
      BY <1>1
    <2>3. NewSize(p, n) \in 0 .. Width - 1
      BY <2>1, <2>2 DEF NewSize
    <2>4. NewSize(p, n) <= USERTOP \/ NewSize(p, n) < sz[p]
      BY DEF BeginSbrk
    <2> QED BY <2>1, <2>2, <2>3, <2>4
  <1>5. Pages(sz[p]) \in Nat /\ Pages(sz[p]) * PGSIZE \in Nat
    BY <1>1, <1>4, PagesBelow
  <1>6. c \in SbrkCall
    BY <1>4, <1>5 DEF SbrkCall
  <1>7. call' = [call EXCEPT ![p] = c]
    BY DEF BeginSbrk
  <1> HIDE DEF c
  <1>8. CallsTyped' /\ call'[p] = c /\ \A q \in Slots : q # p => call'[q] = call[q]
    BY <1>1, <1>6, <1>7, CallSet
  <1>9. c.op = "sbrk" /\ c.old = sz[p] /\ c.new = NewSize(p, n) /\ c.at = Pages(sz[p]) * PGSIZE
    BY DEF c
  <1>10. MemTyped'
    BY <1>3, <1>8, BeforeFacts DEF MemTyped, SpacesTyped, SlotsTyped
  <1>11. ~Builds(p)' /\ ~IsFork(p)' /\ \A q \in Slots : q # p =>
           /\ Builds(q)' = Builds(q) /\ Ready(q)' = Ready(q) /\ New(q)' = New(q)
           /\ IsFork(q)' = IsFork(q) /\ Got(q)' = Got(q)
    BY <1>8, <1>9 DEF Builds, Ready, New, IsFork, Got
  <1>12. SlotsRight'
    <2>1. ASSUME NEW q \in Slots PROVE Settled(q)'
      BY <1>1, <1>2, <1>3, <1>8 DEF SlotsRight, Settled
    <2>2. ASSUME NEW q \in Slots PROVE ExecAlone(q)'
      BY <1>1, <1>3, <1>8, <1>9 DEF SlotsRight, ExecAlone
    <2>3. ASSUME NEW q \in Slots PROVE BuildsOwn(q)'
      <3>1. q # p => BuildsOwn(q)
        BY <1>1 DEF SlotsRight
      <3> QED BY <1>2, <1>3, <1>8, <1>11, <3>1 DEF BuildsOwn
    <2>4. ASSUME NEW q \in Slots PROVE ForksOwn(q)'
      <3>1. q # p => ForksOwn(q)
        BY <1>1 DEF SlotsRight
      <3> QED BY <1>2, <1>3, <1>8, <1>11, <3>1 DEF ForksOwn
    <2> QED BY <2>1, <2>2, <2>3, <2>4 DEF SlotsRight
  <1>13. ASSUME ~Racing' PROVE SizesRight'
    <2>1. ASSUME NEW q \in Slots, q # p PROVE Sized(q)'
      <3>1. Sized(q) /\ Settled(q)
        BY <1>1 DEF SlotsRight, SizesRight
      <3>2. Alike(q)
        BY <1>3, <1>8, <2>1 DEF Alike
      <3>3. SbrkIn(pgdir[q]) => SbrkIn(pgdir[q])'
        BY <1>2, <1>3, <1>8, <1>9 DEF SbrkIn
      <3> QED BY <3>1, <3>2, <3>3, SizeStays
    <2>2. Sized(p)'
      <3>1. RestSize(p)' /\ ForkSize(p)' /\ BuildSize(p)'
        BY <1>1, <1>3, <1>8, <1>9, <1>11 DEF RestSize, ForkSize, BuildSize
      <3>2. \A q \in Slots : pgdir[q] = pgdir[p] => call[q].op # "sbrk"
        BY <1>1, <1>2, <1>3, <1>8, <1>9, <1>13 DEF Racing
      <3>3. DOMAIN spaces[pgdir[p]].map = 0 .. Pages(sz[p]) - 1
        BY <1>1, <1>2, <3>2 DEF SizesRight, Sized, RestSize
      <3>4. NewSize(p, n) > sz[p] => Pages(sz[p]) <= Pages(NewSize(p, n))
        BY <1>1, <1>4, PagesGrow
      <3>5. SbrkSize(p)'
        BY <1>2, <1>3, <1>5, <1>8, <1>9, <3>3, <3>4 DEF SbrkSize
      <3> QED BY <3>1, <3>5 DEF Sized
    <2> QED BY <2>1, <2>2 DEF SizesRight
  <1>14. \E K, A, B : Owned(K, A, B)'
    <2>1. SameGot
      BY <1>2, <1>11 DEF SameGot, Got
    <2>2. PICK K, A, B : Owned(K, A, B)
      BY BeforeFacts
    <2> QED BY <1>3, <2>1, <2>2, OwnedSame
  <1> QED BY <1>1, <1>3, <1>10, <1>12, <1>13, <1>14 DEF MemInv

\* Steps that begin nothing: every call is what it was, or over.
Kept(q) ==
  \/ call'[q] = NoCall
  \/ /\ call'[q] # NoCall /\ call[q] # NoCall /\ call'[q].op = call[q].op
     /\ Builds(q) => call'[q].got = call[q].got
     /\ IsFork(q) => call'[q].np = call[q].np /\ kstack'[call[q].np] # 0
     /\ Builds(q) /\ Ready(q) => New(q) \in DOMAIN spaces'

\* The slots stay right when only the calls and the spaces' entries change.
LEMMA SlotsKeep ==
  ASSUME SlotsRight, UNCHANGED << pgdir, sz >>,
         \A q \in Slots : Kept(q),
         \A q \in Slots : pgdir[q] # 0 => pgdir[q] \in DOMAIN spaces' /\ kstack'[q] # 0
  PROVE  SlotsRight'
  <1>1. ASSUME NEW q \in Slots
        PROVE  /\ Builds(q)' => Builds(q) /\ call'[q].got = call[q].got
               /\ Builds(q)' => (Ready(q)' = Ready(q) /\ New(q)' = New(q))
               /\ IsFork(q)' => IsFork(q) /\ call'[q].np = call[q].np /\ kstack'[call[q].np] # 0
               /\ Builds(q)' /\ Ready(q)' => New(q) \in DOMAIN spaces'
               /\ call'[q].op = "exec" => call[q].op = "exec"
               /\ call[q] = NoCall => call'[q] = NoCall
    <2>1. CASE call'[q] = NoCall
      BY <2>1 DEF NoCall, Builds, IsFork
    <2>2. CASE call'[q] # NoCall
      BY <2>2 DEF Kept, Builds, IsFork, Ready, New
    <2> QED BY <2>1, <2>2
  <1>2. ASSUME NEW q \in Slots PROVE Settled(q)'
    BY <1>1 DEF SlotsRight, Settled
  <1>3. ASSUME NEW q \in Slots PROVE ExecAlone(q)'
    BY <1>1 DEF SlotsRight, ExecAlone
  <1>4. ASSUME NEW q \in Slots PROVE BuildsOwn(q)'
    <2>1. BuildsOwn(q)
      BY DEF SlotsRight
    <2> QED BY <1>1, <2>1 DEF BuildsOwn
  <1>5. ASSUME NEW q \in Slots PROVE ForksOwn(q)'
    <2>1. ForksOwn(q)
      BY DEF SlotsRight
    <2> QED BY <1>1, <2>1 DEF ForksOwn
  <1> QED BY <1>2, <1>3, <1>4, <1>5 DEF SlotsRight

\* What is known inside sbrk.
LEMMA SbrkFacts ==
  ASSUME NEW p, Standing(p), call[p].op = "sbrk"
  PROVE  /\ pgdir[p] # 0 /\ pgdir[p] \in DOMAIN spaces /\ kstack[p] # 0 /\ SbrkSize(p)
         /\ ~Builds(p) /\ ~IsFork(p) /\ Got(p) = << >>
         /\ call[p].old \in Nat /\ call[p].new \in Nat /\ call[p].at \in Nat
         /\ call[p] \in SbrkCall
         /\ \A q \in Slots \ {p} : pgdir[q] = pgdir[p] => call[q].op = "none" /\ call[q] = NoCall
         /\ \A q \in Slots : Builds(q) /\ Ready(q) => New(q) # pgdir[p]
  <1>1. /\ CallsTyped /\ p \in Slots /\ MemoryAssumption /\ Sized(p) /\ Settled(p)
        /\ \A q \in Slots : BuildsOwn(q)
    BY BeforeFacts
  <1>2. /\ call[p].old \in 0 .. USERTOP /\ call[p].new \in 0 .. USERTOP /\ call[p].at \in Nat
        /\ call[p] \in SbrkCall
    BY <1>1, CallFields
  <1>3. pgdir[p] # 0
    BY <1>1 DEF Settled, NoCall
  <1>4. \A q \in Slots \ {p} : pgdir[q] = pgdir[p] => call[q].op = "none"
    BY <1>1, <1>3 DEF Standing, Racing
  <1>5. \A q \in Slots : call[q].op = "none" => call[q] = NoCall
    BY <1>1, CallFields
  <1> QED BY <1>1, <1>2, <1>3, <1>4, <1>5, MemNumbers
          DEF Settled, Sized, BuildsOwn, Builds, IsFork, Got

\* Steps of allocuvm and deallocuvm.
LEMMA SbrkMoves ==
  ASSUME NEW p, Standing(p), call[p].op = "sbrk", NEW mp, NEW b,
         SpacesTyped', Maps(pgdir[p], mp, b), CallsTyped', call'[p] = NoCall \/ call'[p].op = "sbrk",
         \A q \in Slots : q # p => call'[q] = call[q],
         UNCHANGED slotvars, RestSize(p)', SbrkSize(p)'
  PROVE  MemTyped' /\ SlotsRight' /\ SizesRight' /\ SameGot
  <1>1. /\ SpacesTyped /\ SlotsTyped /\ CallsTyped /\ SlotsRight /\ SizesRight /\ p \in Slots
        /\ \A q \in Slots : Settled(q) /\ Sized(q)
    BY BeforeFacts
  <1>2. /\ pgdir[p] # 0 /\ ~Builds(p) /\ ~IsFork(p) /\ Got(p) = << >>
        /\ \A q \in Slots \ {p} : pgdir[q] = pgdir[p] => call[q].op = "none" /\ call[q] = NoCall
        /\ \A q \in Slots : Builds(q) /\ Ready(q) => New(q) # pgdir[p]
    BY SbrkFacts
  <1>3. kstack' = kstack /\ pgdir' = pgdir /\ sz' = sz /\ thread' = thread
    BY DEF slotvars
  <1>4. DOMAIN spaces' = DOMAIN spaces /\ \A e0 \in DOMAIN spaces : e0 # pgdir[p] => spaces'[e0] = spaces[e0]
    BY DEF Maps
  <1>5. ~Builds(p)' /\ ~IsFork(p)'
    BY DEF Builds, IsFork, NoCall
  <1>6. MemTyped'
    BY <1>1, <1>3 DEF MemTyped, SlotsTyped
  <1>7. SlotsRight'
    <2>1. ASSUME NEW q \in Slots, q # p PROVE Kept(q)
      <3>1. BuildsOwn(q) /\ ForksOwn(q)
        BY <1>1 DEF SlotsRight
      <3> QED BY <1>3, <1>4, <2>1, <3>1 DEF Kept, BuildsOwn, ForksOwn
    <2>2. Kept(p)
      BY <1>2, <1>5 DEF Kept, NoCall
    <2>3. \A q \in Slots : pgdir[q] # 0 => pgdir[q] \in DOMAIN spaces' /\ kstack'[q] # 0
      BY <1>1, <1>3, <1>4 DEF Settled
    <2> QED BY <1>1, <1>3, <2>1, <2>2, <2>3, SlotsKeep
  <1>8. SizesRight'
    <2>1. ForkSize(p)' /\ BuildSize(p)'
      BY <1>5 DEF ForkSize, BuildSize
    <2>2. ASSUME NEW q \in Slots, q # p, pgdir[q] = pgdir[p] PROVE Sized(q)'
      <3>1. call'[q] = NoCall /\ sz'[q] = sz'[p] /\ pgdir'[q] = pgdir'[p]
        BY <1>1, <1>2, <1>3, <2>2 DEF Settled
      <3>2. RestSize(q)'
        BY <3>1 DEF RestSize
      <3>3. SbrkSize(q)' /\ ForkSize(q)' /\ BuildSize(q)'
        BY <3>1 DEF SbrkSize, ForkSize, BuildSize, NoCall, Builds, IsFork
      <3> QED BY <3>2, <3>3 DEF Sized
    <2>3. ASSUME NEW q \in Slots, pgdir[q] # pgdir[p] PROVE Sized(q)'
      <3>1. Sized(q) /\ Settled(q) /\ q # p /\ BuildsOwn(q)
        BY <1>1, <2>3 DEF SlotsRight
      <3>2. Alike(q)
        BY <1>2, <1>3, <1>4, <2>3, <3>1 DEF Alike, Settled, BuildsOwn
      <3>3. SbrkIn(pgdir[q]) => SbrkIn(pgdir[q])'
        BY <1>3, <2>3 DEF SbrkIn
      <3> QED BY <3>1, <3>2, <3>3, SizeStays
    <2>4. Sized(p)'
      BY <2>1 DEF Sized
    <2> QED BY <2>2, <2>3, <2>4 DEF SizesRight
  <1>9. SameGot
    BY <1>2, <1>5 DEF SameGot, Got, Builds, Ready
  <1> QED BY <1>6, <1>7, <1>8, <1>9

\* deallocuvm's entries are those from the new size up to the old.
Spans(d, k) == DOMAIN spaces[d].map = 0 .. k - 1
Leaves(d, x, y) ==
  /\ Entries(d, x, y) \subseteq DOMAIN spaces[d].map
  /\ DOMAIN spaces[d].map \ Entries(d, x, y) = 0 .. Pages(y) - 1

LEMMA EntriesView ==
  ASSUME MemoryAssumption, NEW d, NEW k \in Nat, Spans(d, k),
         NEW x \in Nat, NEW y \in Nat, Pages(y) <= k, k <= Pages(x)
  PROVE  Leaves(d, x, y)
  <1>1. Pages(x) \in Nat /\ Pages(y) \in Nat
    BY PagesBelow
  <1>2. ASSUME NEW v \in 0 .. k - 1
        PROVE  v \in Entries(d, x, y) <=> v >= Pages(y)
    <2>1. v \in Nat /\ v < Pages(x)
      BY <1>1
    <2>2. v * PGSIZE < x
      BY <2>1, PagesBelow
    <2> QED BY <2>2 DEF Entries, Spans
  <1>3. Entries(d, x, y) \subseteq DOMAIN spaces[d].map
    BY DEF Entries
  <1> QED BY <1>1, <1>2, <1>3 DEF Spans, Leaves

\* allocuvm finds no page and goes back.
LEMMA GrowFails ==
  ASSUME NEW p, Standing(p), Grow(p), NoPage
  PROVE  MemInv'
  <1>0. PICK d : d = pgdir[p]
    OBVIOUS
  <1>1. PICK vs : vs = RolledBack(p)
    OBVIOUS
  <1>2. PICK mp : mp = Restrict(spaces[d].map, DOMAIN spaces[d].map \ vs)
    OBVIOUS
  <1>3. /\ call[p].op = "sbrk" /\ call[p].new > call[p].old
        /\ Kfree(PagesAt(d, vs)) /\ spaces' = Unmap(d, vs) /\ Returns(p)
        /\ UNCHANGED << slotvars, stopped >>
    BY <1>0, <1>1 DEF Grow
  <1>4. /\ SpacesTyped /\ SlotsTyped /\ CallsTyped /\ ~stopped /\ ~twice /\ MemoryAssumption
        /\ p \in Slots /\ \E K, A, B : Owned(K, A, B)
    BY BeforeFacts
  <1>5. /\ d \in DOMAIN spaces /\ SbrkSize(p) /\ call[p].old \in Nat /\ call[p].new \in Nat
    BY <1>0, <1>3, SbrkFacts
  <1>6. /\ call[p].old = sz[p] /\ vs \subseteq DOMAIN spaces[d].map
        /\ DOMAIN spaces[d].map \ vs = 0 .. Pages(sz[p]) - 1
        /\ ~spaces[d].emptied
    <2>1. PICK k \in Nat : /\ Pages(call[p].old) <= k /\ k <= Pages(call[p].new)
                          /\ DOMAIN spaces[d].map = 0 .. k - 1
      BY <1>0, <1>3, <1>5 DEF SbrkSize
    <2>2. vs = Entries(d, call[p].new, call[p].old)
      BY <1>0, <1>1 DEF RolledBack
    <2>3. call[p].old = sz[p] /\ ~spaces[d].emptied
      BY <1>0, <1>3, <1>5 DEF SbrkSize
    <2>4. Pages(call[p].old) <= k /\ k <= Pages(call[p].new) /\ DOMAIN spaces[d].map = 0 .. k - 1
      BY <2>1
    <2>5. /\ Entries(d, call[p].new, call[p].old) \subseteq DOMAIN spaces[d].map
          /\ DOMAIN spaces[d].map \ Entries(d, call[p].new, call[p].old) = 0 .. Pages(call[p].old) - 1
      <3>1. PICK x \in Nat, y \in Nat : x = call[p].new /\ y = call[p].old
        BY <1>5
      <3>2. Pages(y) <= k /\ k <= Pages(x) /\ DOMAIN spaces[d].map = 0 .. k - 1 /\ MemoryAssumption
        BY <1>4, <2>4, <3>1
      <3>3. Spans(d, k)
        BY <3>2 DEF Spans
      <3>4. Leaves(d, x, y)
        BY <3>2, <3>3, EntriesView
      <3> QED BY <3>1, <3>4 DEF Leaves
    <2> QED BY <2>2, <2>3, <2>5
  <1>7. /\ spaces' = Remapped(d, mp) /\ DOMAIN mp = DOMAIN spaces[d].map \ vs
        /\ \A u \in DOMAIN mp : mp[u] = spaces[d].map[u]
    <2>1. spaces' = Remapped(d, mp)
      BY <1>2, <1>3 DEF Unmap, Remapped
    <2>2. DOMAIN mp = DOMAIN spaces[d].map \ vs /\ \A u \in DOMAIN mp : mp[u] = spaces[d].map[u]
      BY <1>2, RestrictView
    <2> QED BY <2>1, <2>2
  <1>8. PICK b : b = spaces[d].emptied
    OBVIOUS
  <1>9. SpacesTyped' /\ Maps(d, mp, b)
    <2>1. b \in BOOLEAN
      BY <1>4, <1>5, <1>8 DEF SpacesTyped
    <2>2. SpacesTyped /\ d \in DOMAIN spaces
      BY <1>4, <1>5
    <2>3. spaces' = Remapped(d, mp) /\ b = spaces[d].emptied
      BY <1>7, <1>8
    <2> QED BY <2>1, <2>2, <2>3, MapsView
  <1>10. CallsTyped' /\ call'[p] = NoCall /\ \A q \in Slots : q # p => call'[q] = call[q]
    BY <1>3, <1>4, CallSet DEF Returns
  <1>11. RestSize(p)' /\ SbrkSize(p)'
    <2>1. SbrkSize(p)'
      BY <1>10 DEF SbrkSize, NoCall
    <2>2. pgdir' = pgdir /\ sz' = sz
      BY <1>3 DEF slotvars
    <2>3. DOMAIN spaces'[d].map = 0 .. Pages(sz[p]) - 1
      BY <1>6, <1>7, <1>9 DEF Maps
    <2> QED BY <1>0, <2>1, <2>2, <2>3 DEF RestSize
  <1>12. MemTyped' /\ SlotsRight' /\ SizesRight' /\ SameGot
    BY <1>0, <1>3, <1>9, <1>10, <1>11, SbrkMoves
  <1>13. freelist' = freelist \cup PagesAt(d, vs) /\ UNCHANGED << lost, kstack >>
         /\ twice' = (twice \/ PagesAt(d, vs) \cap freelist # {})
    BY <1>3 DEF Kfree, slotvars
  <1>14. PagesAt(d, vs) \cap freelist = {} /\ \E K1, A1, B1 : Owned(K1, A1, B1)'
    <2>1. PICK K, A, B : Owned(K, A, B)
      BY <1>4
    <2> QED BY <1>4, <1>5, <1>6, <1>7, <1>9, <1>12, <1>13, <2>1, GivesUsers
  <1> QED BY <1>3, <1>4, <1>12, <1>13, <1>14 DEF MemInv

\* A loop goes on to the next page.
LEMMA GoesOnView ==
  ASSUME MemoryAssumption, CallsTyped, NEW p \in Slots, call[p].op # "none", GoesOn(p)
  PROVE  /\ CallsTyped' /\ \A q \in Slots : q # p => call'[q] = call[q]
         /\ call'[p].op = call[p].op /\ call'[p].at = call[p].at + PGSIZE
         /\ call[p].op = "sbrk" => call'[p].old = call[p].old /\ call'[p].new = call[p].new
         /\ call[p].op = "fork" => call'[p].np = call[p].np
         /\ Builds(p) => call'[p].got = call[p].got /\ call'[p].size = call[p].size
  <1>1. PICK n : n = call[p].at + PGSIZE
    OBVIOUS
  <1>2. PGSIZE \in Nat
    BY MemNumbers
  <1>3. call' = [call EXCEPT ![p] = [call[p] EXCEPT !.at = n]]
    BY <1>1 DEF GoesOn
  <1>4. CASE call[p].op = "sbrk"
    <2>1. call[p] \in SbrkCall
      BY <1>4, CallFields
    <2>2. n \in Nat
      BY <1>1, <1>2, <2>1 DEF SbrkCall
    <2>3. /\ [call[p] EXCEPT !.at = n] \in SbrkCall /\ [call[p] EXCEPT !.at = n].at = n
          /\ [call[p] EXCEPT !.at = n].op = "sbrk" /\ [call[p] EXCEPT !.at = n].old = call[p].old
          /\ [call[p] EXCEPT !.at = n].new = call[p].new
      BY <2>1, <2>2 DEF SbrkCall
    <2>4. PICK c : c = [call[p] EXCEPT !.at = n]
      OBVIOUS
    <2>5. CallsTyped' /\ call'[p] = c /\ \A q \in Slots : q # p => call'[q] = call[q]
      BY <1>3, <2>3, <2>4, CallSet
    <2> QED BY <1>1, <1>4, <2>3, <2>4, <2>5 DEF Builds
  <1>5. CASE call[p].op = "fork"
    <2>1. call[p] \in ForkCall
      BY <1>5, CallFields
    <2>2. n \in Nat
      BY <1>1, <1>2, <2>1 DEF ForkCall
    <2>3. /\ [call[p] EXCEPT !.at = n] \in ForkCall /\ [call[p] EXCEPT !.at = n].at = n
          /\ [call[p] EXCEPT !.at = n].op = "fork" /\ [call[p] EXCEPT !.at = n].np = call[p].np
          /\ [call[p] EXCEPT !.at = n].got = call[p].got
          /\ [call[p] EXCEPT !.at = n].size = call[p].size
      BY <2>1, <2>2 DEF ForkCall
    <2>4. PICK c : c = [call[p] EXCEPT !.at = n]
      OBVIOUS
    <2>5. CallsTyped' /\ call'[p] = c /\ \A q \in Slots : q # p => call'[q] = call[q]
      BY <1>3, <2>3, <2>4, CallSet
    <2> QED BY <1>1, <1>5, <2>3, <2>4, <2>5 DEF Builds
  <1>6. CASE call[p].op = "exec"
    <2>1. call[p] \in ExecCall
      BY <1>6, CallFields
    <2>2. n \in Nat
      BY <1>1, <1>2, <2>1 DEF ExecCall
    <2>3. /\ [call[p] EXCEPT !.at = n] \in ExecCall /\ [call[p] EXCEPT !.at = n].at = n
          /\ [call[p] EXCEPT !.at = n].op = "exec" /\ [call[p] EXCEPT !.at = n].got = call[p].got
          /\ [call[p] EXCEPT !.at = n].size = call[p].size
      BY <2>1, <2>2 DEF ExecCall
    <2>4. PICK c : c = [call[p] EXCEPT !.at = n]
      OBVIOUS
    <2>5. CallsTyped' /\ call'[p] = c /\ \A q \in Slots : q # p => call'[q] = call[q]
      BY <1>3, <2>3, <2>4, CallSet
    <2> QED BY <1>1, <1>6, <2>3, <2>4, <2>5 DEF Builds
  <1> QED BY <1>4, <1>5, <1>6, CallFields

\* allocuvm has a page for the next address.
LEMMA GrowTakes ==
  ASSUME NEW p, Standing(p), Grow(p), ~NoPage
  PROVE  MemInv'
  <1>1. PICK d : d = pgdir[p]
    OBVIOUS
  <1>2. /\ SpacesTyped /\ SlotsTyped /\ CallsTyped /\ ~stopped /\ ~twice /\ MemoryAssumption
        /\ p \in Slots
    BY BeforeFacts
  <1>3. PICK K, A, B : Owned(K, A, B)
    BY BeforeFacts
  <1>4. PICK f : f = Kalloc
    OBVIOUS
  <1>5. f \in freelist
    BY <1>2, <1>3, <1>4, KallocView
  <1>6. call[p].op = "sbrk" /\ call[p].new > call[p].old /\ call[p].at < call[p].new
    BY DEF Grow
  <1>7. /\ d # 0 /\ d \in DOMAIN spaces /\ SbrkSize(p) /\ call[p].old \in Nat
        /\ call[p].new \in Nat /\ call[p].at \in Nat
    BY <1>1, <1>6, SbrkFacts
  <1>8. PICK k \in Nat : /\ call[p].at = k * PGSIZE
                        /\ Pages(call[p].old) <= k /\ k <= Pages(call[p].new)
                        /\ DOMAIN spaces[d].map = 0 .. k - 1
    BY <1>1, <1>6, <1>7 DEF SbrkSize
  <1>9. /\ call[p].at \div PGSIZE = k /\ k < Pages(call[p].new)
        /\ Pages(call[p].new) \in Nat /\ PGSIZE \in Nat
    BY <1>2, <1>6, <1>7, <1>8, PagesBelow, MemNumbers
  <1>10. k \notin DOMAIN spaces[d].map /\ ~Mapped(d, call[p].at)
    BY <1>8, <1>9 DEF Mapped
  <1>11. /\ Takes(f) /\ Map(d, call[p].at, f) /\ GoesOn(p) /\ UNCHANGED << slotvars, stopped >>
    BY <1>1, <1>4, <1>10 DEF Grow
  <1>12. PICK mp : mp = Extended(spaces[d].map, k, f)
    OBVIOUS
  <1>13. PICK b : b = spaces[d].emptied
    OBVIOUS
  <1>14. SpacesTyped' /\ Maps(d, mp, b)
    <2>1. b \in BOOLEAN
      BY <1>2, <1>7, <1>13 DEF SpacesTyped
    <2>2. spaces' = Remapped(d, mp)
      BY <1>9, <1>11, <1>12 DEF Map, Remapped
    <2> QED BY <1>2, <1>7, <1>13, <2>1, <2>2, MapsView
  <1>15. /\ CallsTyped' /\ \A q \in Slots : q # p => call'[q] = call[q]
         /\ call'[p].op = "sbrk" /\ call'[p].at = call[p].at + PGSIZE
         /\ call'[p].old = call[p].old /\ call'[p].new = call[p].new
    BY <1>2, <1>6, <1>11, GoesOnView
  <1>16. pgdir' = pgdir /\ sz' = sz /\ kstack' = kstack
    BY <1>11 DEF slotvars
  <1>17. RestSize(p)'
    BY <1>2, <1>15 DEF RestSize
  <1>18. SbrkSize(p)'
    <2>1. DOMAIN spaces'[d].map = 0 .. k /\ spaces'[d].emptied = b
      <3>1. DOMAIN mp = DOMAIN spaces[d].map \cup {k}
        BY <1>12, ExtendedView
      <3>2. DOMAIN mp = 0 .. k
        BY <1>8, <3>1
      <3> QED BY <1>14, <3>2 DEF Maps
    <2>2. ~b /\ call[p].old = sz[p]
      BY <1>1, <1>6, <1>7, <1>13 DEF SbrkSize
    <2>3. k + 1 \in Nat /\ call'[p].at = (k + 1) * PGSIZE
      <3>1. (k + 1) * PGSIZE = k * PGSIZE + PGSIZE
        <4>1. PGSIZE * 1 + PGSIZE * k = PGSIZE * (1 + k)
          BY <1>9, Distribute
        <4> QED BY <1>9, <4>1
      <3> QED BY <1>8, <1>15, <3>1
    <2>4. Pages(call[p].old) \in Nat
      BY <1>2, <1>7, PagesBelow
    <2>5. Pages(call[p].old) <= k + 1 /\ k + 1 <= Pages(call[p].new) /\ 0 .. k = 0 .. (k + 1) - 1
      BY <1>8, <1>9, <2>4
    <2>6. \E j \in Nat : /\ call'[p].at = j * PGSIZE
                        /\ Pages(call[p].old) <= j /\ j <= Pages(call[p].new)
                        /\ DOMAIN spaces'[d].map = 0 .. j - 1
      BY <2>1, <2>3, <2>5
    <2> QED BY <1>1, <1>6, <1>7, <1>15, <1>16, <2>1, <2>2, <2>6 DEF SbrkSize
  <1>19. MemTyped' /\ SlotsRight' /\ SizesRight' /\ SameGot
    BY <1>1, <1>6, <1>11, <1>14, <1>15, <1>17, <1>18, SbrkMoves
  <1>20. freelist' = freelist \ {f} /\ UNCHANGED << lost, twice, kstack >>
    BY <1>11, <1>16 DEF Takes
  <1>21. \E K1, A1, B1 : Owned(K1, A1, B1)'
    <2>1. Maps(d, Extended(spaces[d].map, k, f), b)
      BY <1>12, <1>14
    <2> QED BY <1>2, <1>3, <1>5, <1>7, <1>10, <1>19, <1>20, <2>1, TakesUser
  <1> QED BY <1>2, <1>11, <1>19, <1>20, <1>21 DEF MemInv

LEMMA ShrinkKeeps ==
  ASSUME NEW p, Standing(p), Shrink(p)
  PROVE  MemInv'
  <1>0. PICK d : d = pgdir[p]
    OBVIOUS
  <1>1. PICK vs : vs = Entries(d, call[p].old, call[p].new)
    OBVIOUS
  <1>2. PICK mp : mp = Restrict(spaces[d].map, DOMAIN spaces[d].map \ vs)
    OBVIOUS
  <1>3. PICK b : b = (call[p].new = 0)
    OBVIOUS
  <1>4. /\ SpacesTyped /\ SlotsTyped /\ CallsTyped /\ ~stopped /\ ~twice /\ MemoryAssumption
        /\ p \in Slots /\ \E K, A, B : Owned(K, A, B)
    BY BeforeFacts
  <1>5. /\ call[p].op = "sbrk" /\ call[p].new < call[p].old
        /\ Kfree(PagesAt(d, vs)) /\ UNCHANGED << slotvars, stopped >>
    BY <1>0, <1>1 DEF Shrink
  <1>6. spaces' = Emptied(d, mp, b)
    BY <1>0, <1>1, <1>2, <1>3 DEF Shrink, Unmap, Emptied
  <1>7. /\ d \in DOMAIN spaces /\ SbrkSize(p) /\ call[p].old \in Nat /\ call[p].new \in Nat
        /\ call[p] \in SbrkCall
    BY <1>0, <1>5, SbrkFacts
  <1>8. /\ vs \subseteq DOMAIN spaces[d].map
        /\ DOMAIN spaces[d].map \ vs = 0 .. Pages(call[p].new) - 1
    <2>1. DOMAIN spaces[d].map = 0 .. Pages(call[p].old) - 1
      BY <1>0, <1>5, <1>7 DEF SbrkSize
    <2>2. Pages(call[p].old) \in Nat /\ Pages(call[p].new) <= Pages(call[p].old)
      BY <1>4, <1>5, <1>7, PagesBelow, PagesGrow
    <2>3. PICK k \in Nat : k = Pages(call[p].old)
      BY <2>2
    <2>4. DOMAIN spaces[d].map = 0 .. k - 1 /\ Pages(call[p].new) <= k /\ k <= Pages(call[p].old)
      BY <2>1, <2>2, <2>3
    <2>5. Spans(d, k)
      BY <2>4 DEF Spans
    <2>6. Leaves(d, call[p].old, call[p].new)
      BY <1>4, <1>7, <2>4, <2>5, EntriesView
    <2> QED BY <1>1, <2>6 DEF Leaves
  <1>9. DOMAIN mp = DOMAIN spaces[d].map \ vs /\ \A u \in DOMAIN mp : mp[u] = spaces[d].map[u]
    BY <1>2, RestrictView
  <1>10. SpacesTyped' /\ Maps(d, mp, b)
    <2>1. b \in BOOLEAN
      BY <1>3
    <2> QED BY <1>4, <1>6, <1>7, <2>1, MapsView
  <1>11. /\ CallsTyped' /\ \A q \in Slots : q # p => call'[q] = call[q]
         /\ call[p].new = 0 => call'[p] = NoCall
         /\ call[p].new # 0 => /\ call'[p].op = "sbrk" /\ call'[p].old = call[p].new
                               /\ call'[p].new = call[p].new
    <2>1. CASE call[p].new = 0
      <3>1. call' = [call EXCEPT ![p] = NoCall]
        BY <2>1 DEF Shrink, Returns
      <3> QED BY <1>4, <2>1, <3>1, CallSet
    <2>2. CASE call[p].new # 0
      <3>1. PICK c : c = [call[p] EXCEPT !.old = call[p].new]
        OBVIOUS
      <3>2. call' = [call EXCEPT ![p] = c]
        BY <2>2, <3>1 DEF Shrink
      <3>3. c \in SbrkCall /\ c.op = "sbrk" /\ c.old = call[p].new /\ c.new = call[p].new
        BY <1>7, <3>1 DEF SbrkCall
      <3> QED BY <1>4, <2>2, <3>2, <3>3, CallSet
    <2> QED BY <2>1, <2>2
  <1>12. pgdir' = pgdir /\ sz' = sz /\ kstack' = kstack
    BY <1>5 DEF slotvars
  <1>13. /\ DOMAIN spaces'[d].map = 0 .. Pages(call[p].new) - 1
         /\ spaces'[d].emptied <=> call[p].new = 0
    BY <1>3, <1>8, <1>9, <1>10 DEF Maps
  <1>14. RestSize(p)' /\ SbrkSize(p)'
    <2>1. CASE call[p].new = 0
      BY <1>0, <1>11, <1>12, <1>13, <2>1 DEF RestSize, SbrkSize, NoCall
    <2>2. CASE call[p].new # 0
      <3>1. RestSize(p)'
        BY <1>4, <1>11, <2>2 DEF RestSize
      <3>2. SbrkSize(p)'
        BY <1>0, <1>7, <1>11, <1>12, <1>13, <2>2 DEF SbrkSize
      <3> QED BY <3>1, <3>2
    <2> QED BY <2>1, <2>2
  <1>15. call'[p] = NoCall \/ call'[p].op = "sbrk"
    BY <1>11
  <1>16. MemTyped' /\ SlotsRight' /\ SizesRight' /\ SameGot
    BY <1>0, <1>5, <1>10, <1>11, <1>14, <1>15, SbrkMoves
  <1>17. freelist' = freelist \cup PagesAt(d, vs) /\ UNCHANGED << lost, kstack >>
         /\ twice' = (twice \/ PagesAt(d, vs) \cap freelist # {})
    BY <1>5, <1>12 DEF Kfree
  <1>18. PagesAt(d, vs) \cap freelist = {} /\ \E K1, A1, B1 : Owned(K1, A1, B1)'
    <2>1. PICK K, A, B : Owned(K, A, B)
      BY <1>4
    <2> QED BY <1>4, <1>7, <1>8, <1>9, <1>10, <1>16, <1>17, <2>1, GivesUsers
  <1> QED BY <1>4, <1>5, <1>16, <1>17, <1>18 DEF MemInv

\* The new size is written to all who share the space.
LEMMA EndSbrkKeeps ==
  ASSUME NEW p, Standing(p), EndSbrk(p)
  PROVE  MemInv'
  <1>1. /\ SpacesTyped /\ SlotsTyped /\ CallsTyped /\ SlotsRight /\ SizesRight /\ ~stopped /\ ~twice
        /\ MemoryAssumption /\ p \in Slots /\ \E K, A, B : Owned(K, A, B)
        /\ \A q \in Slots : Settled(q) /\ BuildsOwn(q) /\ ForksOwn(q) /\ ExecAlone(q) /\ Sized(q)
    BY BeforeFacts
  <1>2. call[p].op = "sbrk" /\ call[p].new >= call[p].old /\ call[p].at >= call[p].new
    BY DEF EndSbrk
  <1>3. /\ pgdir[p] # 0 /\ pgdir[p] \in DOMAIN spaces /\ SbrkSize(p) /\ Got(p) = << >>
        /\ ~Builds(p) /\ ~IsFork(p)
        /\ call[p].old \in Nat /\ call[p].new \in Nat /\ call[p].at \in Nat
        /\ \A q \in Slots \ {p} : pgdir[q] = pgdir[p] => call[q].op = "none" /\ call[q] = NoCall
    BY <1>2, SbrkFacts
  <1>4. UNCHANGED << freelist, spaces, lost, twice, kstack, pgdir, thread, stopped >>
    BY DEF EndSbrk, tables
  <1>5. CallsTyped' /\ call'[p] = NoCall /\ \A q \in Slots : q # p => call'[q] = call[q]
    BY <1>1, CallSet DEF EndSbrk, Returns
  <1>6. call[p].new \in 0 .. USERTOP
    BY <1>1, <1>2, CallFields
  <1>7. \A q \in Slots : sz'[q] = IF pgdir[q] = pgdir[p] THEN call[p].new ELSE sz[q]
    BY DEF EndSbrk, SameSpace
  <1>8. sz' \in [Slots -> 0 .. USERTOP]
    BY <1>1, <1>6 DEF EndSbrk, SlotsTyped
  <1>9. MemTyped'
    BY <1>1, <1>4, <1>5, <1>8 DEF MemTyped, SpacesTyped, SlotsTyped
  <1>10. ~Builds(p)' /\ ~IsFork(p)' /\ \A q \in Slots : q # p =>
           /\ Builds(q)' = Builds(q) /\ Ready(q)' = Ready(q) /\ New(q)' = New(q)
           /\ IsFork(q)' = IsFork(q) /\ Got(q)' = Got(q)
    BY <1>5 DEF Builds, Ready, New, IsFork, Got, NoCall
  <1>11. SlotsRight'
    <2>1. ASSUME NEW q \in Slots PROVE Settled(q)'
      BY <1>1, <1>3, <1>4, <1>5, <1>7 DEF Settled
    <2>2. ASSUME NEW q \in Slots PROVE ExecAlone(q)'
      BY <1>1, <1>4, <1>5 DEF ExecAlone, NoCall
    <2>3. ASSUME NEW q \in Slots PROVE BuildsOwn(q)'
      <3>1. BuildsOwn(q)
        BY <1>1
      <3> QED BY <1>3, <1>4, <1>5, <1>10, <3>1 DEF BuildsOwn
    <2>4. ASSUME NEW q \in Slots PROVE ForksOwn(q)'
      <3>1. ForksOwn(q)
        BY <1>1
      <3> QED BY <1>3, <1>4, <1>5, <1>10, <3>1 DEF ForksOwn
    <2> QED BY <2>1, <2>2, <2>3, <2>4 DEF SlotsRight
  <1>12. DOMAIN spaces[pgdir[p]].map = 0 .. Pages(call[p].new) - 1
    <2>1. Pages(call[p].new) \in Nat
      BY <1>1, <1>3, PagesBelow
    <2>2. CASE call[p].new > call[p].old
      <3>1. PICK k \in Nat : /\ call[p].at = k * PGSIZE /\ k <= Pages(call[p].new)
                            /\ DOMAIN spaces[pgdir[p]].map = 0 .. k - 1
        BY <1>2, <1>3, <2>2 DEF SbrkSize
      <3>2. ~ (k < Pages(call[p].new))
        <4>1. k * PGSIZE \in Nat /\ (k * PGSIZE < call[p].new <=> k < Pages(call[p].new))
          BY <1>1, <1>3, PagesBelow
        <4> QED BY <1>2, <1>3, <3>1, <4>1
      <3>3. k = Pages(call[p].new)
        BY <2>1, <3>1, <3>2
      <3> QED BY <3>1, <3>3
    <2>3. CASE call[p].new = call[p].old
      BY <1>2, <1>3, <2>3 DEF SbrkSize
    <2> QED BY <1>2, <1>3, <2>2, <2>3
  <1>13. SizesRight'
    <2>1. ASSUME NEW q \in Slots, pgdir[q] = pgdir[p] PROVE Sized(q)'
      <3>1. call'[q] = NoCall /\ sz'[q] = call[p].new
        BY <1>3, <1>5, <1>7, <2>1
      <3>2. RestSize(q)'
        BY <1>4, <1>12, <2>1, <3>1 DEF RestSize
      <3>3. SbrkSize(q)' /\ ForkSize(q)' /\ BuildSize(q)'
        BY <3>1 DEF SbrkSize, ForkSize, BuildSize, NoCall, Builds, IsFork
      <3> QED BY <3>2, <3>3 DEF Sized
    <2>2. ASSUME NEW q \in Slots, pgdir[q] # pgdir[p] PROVE Sized(q)'
      <3>1. Sized(q) /\ Settled(q) /\ q # p
        BY <1>1, <2>2
      <3>2. Alike(q)
        BY <1>4, <1>5, <1>7, <2>2, <3>1 DEF Alike
      <3>3. SbrkIn(pgdir[q]) => SbrkIn(pgdir[q])'
        BY <1>4, <1>5, <2>2 DEF SbrkIn
      <3> QED BY <3>1, <3>2, <3>3, SizeStays
    <2> QED BY <2>1, <2>2 DEF SizesRight
  <1>14. \E K, A, B : Owned(K, A, B)'
    <2>1. SameGot
      BY <1>3, <1>10 DEF SameGot, Got
    <2>2. PICK K, A, B : Owned(K, A, B)
      BY <1>1
    <2> QED BY <1>4, <2>1, <2>2, OwnedSame
  <1> QED BY <1>1, <1>4, <1>9, <1>11, <1>13, <1>14 DEF MemInv

---------------------------------------------------------------------------
(* fork, clone and exec begin. *)

\* A call begins that builds a space: no page of it is there yet.
LEMMA BuildBegins ==
  ASSUME NEW p, Standing(p), Runs(p), NEW c \in ForkCall \cup ExecCall, c.got = << >>, c.at = 0,
         c.op = "fork" => c.size = sz[p] /\ kstack[c.np] = 0 /\ kstack'[c.np] # 0,
         c.op = "exec" => SameSpace(p) = {p},
         call' = [call EXCEPT ![p] = c], kstack' \in [Slots -> Nat],
         \A q \in Slots : kstack[q] # 0 => kstack'[q] # 0,
         UNCHANGED << spaces, pgdir, sz, thread >>
  PROVE  MemTyped' /\ SlotsRight' /\ SizesRight' /\ SameGot
  <1>1. /\ SpacesTyped /\ SlotsTyped /\ CallsTyped /\ SlotsRight /\ SizesRight
        /\ MemoryAssumption /\ p \in Slots /\ sz \in [Slots -> 0 .. USERTOP]
        /\ \A q \in Slots : Settled(q) /\ BuildsOwn(q) /\ ForksOwn(q) /\ ExecAlone(q) /\ Sized(q)
    BY BeforeFacts
  <1>2. /\ pgdir[p] # 0 /\ call[p] = NoCall /\ ~spaces[pgdir[p]].emptied
        /\ call[p].op = "none" /\ ~Builds(p) /\ ~IsFork(p) /\ Got(p) = << >>
    BY RunsFacts
  <1>3. CallsTyped' /\ call'[p] = c /\ \A q \in Slots : q # p => call'[q] = call[q]
    BY <1>1, CallSet
  <1>4. NTables \in Nat /\ Len(<< >>) = 0 /\ PGSIZE \in Nat \ {0}
    BY <1>1, MemNumbers
  <1>5. /\ c.op \in {"fork", "exec"} /\ c.size \in 0 .. USERTOP
        /\ c.op = "fork" => c.np \in Slots /\ pgdir[c.np] = 0
    <2>1. c.op \in {"fork", "exec"} /\ c.size \in 0 .. USERTOP /\ (c.op = "fork" => c.np \in Slots)
      BY DEF ForkCall, ExecCall
    <2> QED BY <1>1, <2>1 DEF Settled
  <1>6. /\ Builds(p)' /\ ~Ready(p)' /\ (IsFork(p)' <=> c.op = "fork") /\ Got(p)' = << >>
        /\ call'[p].op # "sbrk" /\ call'[p] # NoCall
    BY <1>3, <1>4, <1>5 DEF Builds, Ready, IsFork, Got, NoCall
  <1>7. \A q \in Slots : q # p =>
           /\ Builds(q)' = Builds(q) /\ Ready(q)' = Ready(q) /\ New(q)' = New(q)
           /\ IsFork(q)' = IsFork(q) /\ Got(q)' = Got(q)
    BY <1>3 DEF Builds, Ready, New, IsFork, Got
  <1>8. MemTyped'
    BY <1>1, <1>3 DEF MemTyped, SpacesTyped, SlotsTyped
  <1>9. SlotsRight'
    <2>1. ASSUME NEW q \in Slots PROVE Settled(q)'
      BY <1>1, <1>2, <1>3 DEF Settled
    <2>2. ASSUME NEW q \in Slots PROVE ExecAlone(q)'
      BY <1>1, <1>3 DEF ExecAlone, SameSpace
    <2>3. ASSUME NEW q \in Slots PROVE BuildsOwn(q)'
      <3>1. CASE q = p
        BY <1>3, <1>4, <1>6, <3>1 DEF BuildsOwn
      <3>2. CASE q # p
        <4>1. BuildsOwn(q)
          BY <1>1
        <4> QED BY <1>3, <1>6, <1>7, <3>2, <4>1 DEF BuildsOwn
      <3> QED BY <3>1, <3>2
    <2>4. ASSUME NEW q \in Slots PROVE ForksOwn(q)'
      <3>1. ASSUME c.op = "fork"
            PROVE  \A s \in Slots : IsFork(s) => call[s].np # c.np
        BY <1>1, <3>1 DEF ForksOwn
      <3>2. CASE q = p
        BY <1>3, <1>5, <1>6, <1>7, <3>1, <3>2 DEF ForksOwn
      <3>3. CASE q # p
        <4>1. ForksOwn(q)
          BY <1>1
        <4>2. IsFork(q) => call[q].np \in Slots
          BY <1>1, CallFields DEF IsFork
        <4> QED BY <1>3, <1>6, <1>7, <3>1, <3>3, <4>1, <4>2 DEF ForksOwn
      <3> QED BY <3>2, <3>3
    <2> QED BY <2>1, <2>2, <2>3, <2>4 DEF SlotsRight
  <1>10. SizesRight'
    <2>1. ASSUME NEW q \in Slots, q # p PROVE Sized(q)'
      <3>1. Sized(q) /\ Settled(q) /\ Alike(q)
        BY <1>1, <1>3, <2>1 DEF Alike
      <3>2. SbrkIn(pgdir[q]) => SbrkIn(pgdir[q])'
        BY <1>2, <1>3 DEF SbrkIn
      <3> QED BY <3>1, <3>2, SizeStays
    <2>2. RestSize(p)'
      <3>1. RestSize(p)
        BY <1>1 DEF Sized
      <3> QED BY <1>2, <1>3, <3>1 DEF RestSize
    <2>3. SbrkSize(p)' /\ ForkSize(p)'
      BY <1>2, <1>3, <1>6 DEF SbrkSize, ForkSize
    <2>4. BuildSize(p)'
      <3>0. c.size \in Nat
        BY <1>1, <1>5, MemNumbers
      <3>1. Pages(c.size) \in Nat
        BY <1>1, <3>0, PagesBelow
      <3>2. /\ call'[p].at = 0 * PGSIZE /\ 0 <= Pages(call'[p].size) /\ 0 \in Nat
        BY <1>3, <1>4, <3>1
      <3> QED BY <1>6, <3>2 DEF BuildSize
    <2>5. Sized(p)'
      BY <2>2, <2>3, <2>4 DEF Sized
    <2> QED BY <2>1, <2>5 DEF SizesRight
  <1>11. SameGot
    BY <1>2, <1>6, <1>7 DEF SameGot
  <1> QED BY <1>8, <1>9, <1>10, <1>11

LEMMA BeginForkKeeps ==
  ASSUME NEW p, Standing(p), BeginFork(p)
  PROVE  MemInv'
  <1>1. /\ CallsTyped /\ MemoryAssumption /\ p \in Slots /\ ~stopped /\ ~twice
        /\ kstack \in [Slots -> Nat] /\ sz \in [Slots -> 0 .. USERTOP]
    BY BeforeFacts
  <1>2. PICK K, A, B : Owned(K, A, B)
    BY BeforeFacts
  <1>3. PICK n : n = Min(Unused)
    OBVIOUS
  <1>4. PICK f : f = Kalloc
    OBVIOUS
  <1>5. /\ Runs(p) /\ Unused # {} /\ ~NoPage /\ Takes(f) /\ kstack' = [kstack EXCEPT ![n] = f]
        /\ UNCHANGED << spaces, pgdir, sz, thread, stopped >>
    BY <1>3, <1>4 DEF BeginFork
  <1>6. n \in Slots /\ kstack[n] = 0
    BY <1>1, <1>3, <1>5, UnusedView
  <1>7. f \in freelist /\ f \in Nat /\ f # 0
    BY <1>1, <1>2, <1>4, <1>5, KallocView
  <1>8. PICK c : c = [op |-> "fork", np |-> n, got |-> << >>, at |-> 0, size |-> sz[p]]
    OBVIOUS
  <1>9. call' = [call EXCEPT ![p] = c]
    BY <1>3, <1>8 DEF BeginFork
  <1>10. /\ c \in ForkCall /\ c.got = << >> /\ c.at = 0 /\ c.op = "fork" /\ c.size = sz[p] /\ c.np = n
    <2>1. sz[p] \in 0 .. USERTOP /\ << >> \in Seq(Frame)
      BY <1>1
    <2> QED BY <1>6, <1>8, <2>1 DEF ForkCall
  <1>11. /\ kstack' \in [Slots -> Nat] /\ kstack'[n] # 0
         /\ \A q \in Slots : kstack[q] # 0 => kstack'[q] # 0
    BY <1>1, <1>5, <1>6, <1>7
  <1>12. c \in ForkCall \cup ExecCall /\ c.op # "exec"
    BY <1>10
  <1>13. MemTyped' /\ SlotsRight' /\ SizesRight' /\ SameGot
    BY <1>5, <1>6, <1>9, <1>10, <1>11, <1>12, BuildBegins
  <1>14. freelist' = freelist \ {f} /\ UNCHANGED << lost, twice >>
    BY <1>5 DEF Takes
  <1>15. \E K1, A1, B1 : Owned(K1, A1, B1)'
    BY <1>1, <1>2, <1>5, <1>6, <1>7, <1>13, <1>14, TakesStack
  <1> QED BY <1>1, <1>5, <1>13, <1>14, <1>15 DEF MemInv

LEMMA BeginExecKeeps ==
  ASSUME NEW p, Standing(p), NEW size \in Images, BeginExec(p, size)
  PROVE  MemInv'
  <1>1. /\ MemoryAssumption /\ p \in Slots /\ ~stopped /\ ~twice
        /\ kstack \in [Slots -> Nat] /\ \E K, A, B : Owned(K, A, B)
    BY BeforeFacts
  <1>2. /\ Runs(p) /\ SameSpace(p) = {p}
        /\ UNCHANGED << freelist, spaces, lost, twice, kstack, pgdir, sz, thread, stopped >>
    BY DEF BeginExec, tables, slotvars
  <1>3. PICK c : c = [op |-> "exec", got |-> << >>, at |-> 0, size |-> size]
    OBVIOUS
  <1>4. call' = [call EXCEPT ![p] = c]
    BY <1>3 DEF BeginExec
  <1>5. c \in ExecCall /\ c.got = << >> /\ c.at = 0 /\ c.op = "exec"
    <2>1. size \in 0 .. USERTOP /\ << >> \in Seq(Frame)
      BY <1>1, MemNumbers
    <2> QED BY <1>3, <2>1 DEF ExecCall
  <1>6. c \in ForkCall \cup ExecCall /\ c.op # "fork"
    BY <1>5
  <1>7. MemTyped' /\ SlotsRight' /\ SizesRight' /\ SameGot
    BY <1>1, <1>2, <1>4, <1>5, <1>6, BuildBegins
  <1>8. \E K, A, B : Owned(K, A, B)'
    <2>1. PICK K, A, B : Owned(K, A, B)
      BY <1>1
    <2> QED BY <1>2, <1>7, <2>1, OwnedSame
  <1> QED BY <1>1, <1>2, <1>7, <1>8 DEF MemInv

LEMMA CloneKeeps ==
  ASSUME NEW p, Standing(p), Clone(p)
  PROVE  MemInv'
  <1>1. /\ SpacesTyped /\ SlotsTyped /\ CallsTyped /\ SlotsRight /\ SizesRight /\ ~stopped /\ ~twice
        /\ MemoryAssumption /\ p \in Slots
        /\ kstack \in [Slots -> Nat] /\ pgdir \in [Slots -> Nat]
        /\ sz \in [Slots -> 0 .. USERTOP] /\ thread \in [Slots -> BOOLEAN]
        /\ \A q \in Slots : Settled(q) /\ BuildsOwn(q) /\ ForksOwn(q) /\ ExecAlone(q) /\ Sized(q)
    BY BeforeFacts
  <1>2. PICK K, A, B : Owned(K, A, B)
    BY BeforeFacts
  <1>3. PICK n : n = Min(Unused)
    OBVIOUS
  <1>4. PICK f : f = Kalloc
    OBVIOUS
  <1>5. /\ Runs(p) /\ Unused # {} /\ ~NoPage /\ Takes(f) /\ kstack' = [kstack EXCEPT ![n] = f]
        /\ pgdir' = [pgdir EXCEPT ![n] = pgdir[p]] /\ sz' = [sz EXCEPT ![n] = sz[p]]
        /\ thread' = [thread EXCEPT ![n] = TRUE]
        /\ UNCHANGED << spaces, call, stopped >>
    BY <1>3, <1>4 DEF Clone
  <1>6. n \in Slots /\ kstack[n] = 0 /\ pgdir[n] = 0 /\ call[n] = NoCall
    <2>1. n \in Slots /\ kstack[n] = 0
      BY <1>1, <1>3, <1>5, UnusedView
    <2> QED BY <1>1, <2>1 DEF Settled
  <1>7. f \in freelist /\ f \in Nat /\ f # 0
    BY <1>1, <1>2, <1>4, <1>5, KallocView
  <1>8. /\ pgdir[p] # 0 /\ call[p] = NoCall /\ ~spaces[pgdir[p]].emptied
        /\ pgdir[p] \in DOMAIN spaces /\ call[p].op = "none" /\ p # n
    BY <1>5, <1>6, RunsFacts
  <1>9. /\ kstack'[n] = f /\ pgdir'[n] = pgdir[p] /\ sz'[n] = sz[p] /\ call'[n] = NoCall
        /\ \A q \in Slots : q # n => kstack'[q] = kstack[q]
        /\ \A q \in Slots : q # n => pgdir'[q] = pgdir[q]
        /\ \A q \in Slots : q # n => sz'[q] = sz[q]
        /\ \A q \in Slots : call'[q] = call[q]
    <2>1. kstack'[n] = f /\ \A q \in Slots : q # n => kstack'[q] = kstack[q]
      BY <1>1, <1>5, <1>6
    <2>2. pgdir'[n] = pgdir[p] /\ \A q \in Slots : q # n => pgdir'[q] = pgdir[q]
      BY <1>1, <1>5, <1>6
    <2>3. sz'[n] = sz[p] /\ \A q \in Slots : q # n => sz'[q] = sz[q]
      BY <1>1, <1>5, <1>6
    <2> QED BY <1>5, <1>6, <2>1, <2>2, <2>3
  <1>10. MemTyped'
    <2>1. kstack' \in [Slots -> Nat] /\ pgdir' \in [Slots -> Nat]
          /\ sz' \in [Slots -> 0 .. USERTOP] /\ thread' \in [Slots -> BOOLEAN]
      BY <1>1, <1>5, <1>7
    <2> QED BY <1>1, <1>5, <2>1 DEF MemTyped, SpacesTyped, SlotsTyped, CallsTyped
  <1>11. \A q \in Slots : /\ Builds(q)' = Builds(q) /\ Ready(q)' = Ready(q) /\ New(q)' = New(q)
                         /\ IsFork(q)' = IsFork(q) /\ Got(q)' = Got(q)
    BY <1>5 DEF Builds, Ready, New, IsFork, Got
  <1>12. SlotsRight'
    <2>1. ASSUME NEW q \in Slots PROVE Settled(q)'
      BY <1>1, <1>5, <1>6, <1>7, <1>8, <1>9 DEF Settled
    <2>2. ASSUME NEW q \in Slots PROVE ExecAlone(q)'
      <3>1. call[q].op = "exec" => q # p /\ q # n
        BY <1>6, <1>8 DEF NoCall
      <3>2. ExecAlone(q)
        BY <1>1
      <3> QED BY <1>1, <1>9, <3>1, <3>2 DEF ExecAlone
    <2>3. ASSUME NEW q \in Slots PROVE BuildsOwn(q)'
      <3>1. BuildsOwn(q)
        BY <1>1
      <3> QED BY <1>1, <1>5, <1>9, <1>11, <3>1 DEF BuildsOwn
    <2>4. ASSUME NEW q \in Slots PROVE ForksOwn(q)'
      <3>1. ForksOwn(q)
        BY <1>1
      <3>2. IsFork(q) => call[q].np \in Slots /\ call[q].np # n
        BY <1>1, <1>6, <3>1, CallFields DEF IsFork, ForksOwn
      <3> QED BY <1>9, <1>11, <3>1, <3>2 DEF ForksOwn
    <2> QED BY <2>1, <2>2, <2>3, <2>4 DEF SlotsRight
  <1>13. SizesRight'
    <2>1. ASSUME NEW q \in Slots, q # n PROVE Sized(q)'
      <3>1. Sized(q) /\ Settled(q) /\ Alike(q)
        BY <1>1, <1>5, <1>9, <2>1 DEF Alike
      <3>2. pgdir[q] # 0 /\ SbrkIn(pgdir[q]) => SbrkIn(pgdir[q])'
        BY <1>6, <1>9 DEF SbrkIn
      <3> QED BY <3>1, <3>2, SizeStays
    <2>2. Sized(n)'
      <3>1. RestSize(p)
        BY <1>1 DEF Sized
      <3>2. \A q \in Slots : pgdir[q] = pgdir[p] => call[q].op # "sbrk"
        BY DEF Clone, SameSpace
      <3>3. DOMAIN spaces[pgdir[p]].map = 0 .. Pages(sz[p]) - 1
        BY <1>8, <3>1, <3>2 DEF RestSize
      <3>4. RestSize(n)'
        BY <1>5, <1>6, <1>9, <3>3 DEF RestSize
      <3>5. SbrkSize(n)' /\ ForkSize(n)' /\ BuildSize(n)'
        BY <1>6, <1>9 DEF SbrkSize, ForkSize, BuildSize, NoCall, Builds, IsFork
      <3> QED BY <3>4, <3>5 DEF Sized
    <2> QED BY <2>1, <2>2 DEF SizesRight
  <1>14. freelist' = freelist \ {f} /\ UNCHANGED << lost, twice >>
    BY <1>5 DEF Takes
  <1>15. \E K1, A1, B1 : Owned(K1, A1, B1)'
    <2>1. SameGot
      BY <1>11 DEF SameGot
    <2> QED BY <1>1, <1>2, <1>5, <1>6, <1>7, <1>14, <2>1, TakesStack
  <1> QED BY <1>1, <1>5, <1>10, <1>12, <1>13, <1>14, <1>15 DEF MemInv

---------------------------------------------------------------------------
(* setupkvm, copyuvm and exec's allocuvm. *)

\* The slot whose stack a call that fails gives back.
SlotBack(p) == IF IsFork(p) THEN {call[p].np} ELSE {}

\* What is known inside fork and exec.
LEMMA BuildFacts ==
  ASSUME NEW p, Standing(p), Builds(p)
  PROVE  /\ pgdir[p] # 0 /\ pgdir[p] \in DOMAIN spaces /\ kstack[p] # 0
         /\ call[p].op \in {"fork", "exec"} /\ call[p].op # "none" /\ call[p].op # "sbrk"
         /\ call[p].got \in Seq(Frame) /\ call[p].at \in Nat /\ call[p].size \in Nat
         /\ IsFork(p) => call[p].np \in Slots
         /\ SlotBack(p) \subseteq Slots
         /\ \A n \in SlotBack(p) : kstack[n] # 0 /\ pgdir[n] = 0
         /\ StackBack(p) = Stacks(SlotBack(p))
         /\ kstack' = NoStack(p) => Unstacked(SlotBack(p))
  <1>1. /\ CallsTyped /\ p \in Slots /\ Settled(p) /\ ForksOwn(p) /\ kstack \in [Slots -> Nat]
        /\ MemoryAssumption
    BY BeforeFacts
  <1>2. call[p].op \in {"fork", "exec"}
    BY DEF Builds
  <1>3. pgdir[p] # 0 /\ pgdir[p] \in DOMAIN spaces /\ kstack[p] # 0
    BY <1>1, <1>2 DEF Settled, NoCall
  <1>4. /\ call[p].got \in Seq(Frame) /\ call[p].at \in Nat /\ call[p].size \in 0 .. USERTOP
        /\ IsFork(p) => call[p].np \in Slots
    BY <1>1, <1>2, CallFields DEF IsFork
  <1>5. call[p].size \in Nat
    BY <1>1, <1>4, MemNumbers
  <1>6. /\ SlotBack(p) \subseteq Slots
        /\ \A n \in SlotBack(p) : kstack[n] # 0 /\ pgdir[n] = 0
    BY <1>1, <1>4 DEF SlotBack, ForksOwn
  <1>7. StackBack(p) = Stacks(SlotBack(p))
    BY DEF StackBack, Stacks, SlotBack, IsFork
  <1>8. kstack' = NoStack(p) => Unstacked(SlotBack(p))
    BY <1>1, <1>4 DEF NoStack, Unstacked, SlotBack, IsFork
  <1> QED BY <1>2, <1>3, <1>4, <1>5, <1>6, <1>7, <1>8

\* fork and exec find no page and end, their stack given back.
LEMMA BuildFails ==
  ASSUME NEW p, Standing(p), Builds(p), Returns(p), kstack' = NoStack(p),
         UNCHANGED << pgdir, sz, thread >>, SpacesTyped', NEW D, LeftOut(D),
         \A q \in Slots : pgdir[q] \notin D,
         \A q \in Slots \ {p} : Builds(q) /\ Ready(q) => New(q) \notin D
  PROVE  /\ MemTyped' /\ SlotsRight' /\ SizesRight' /\ Got(p)' = << >>
         /\ \A q \in Slots : q # p => Got(q)' = Got(q)
  <1>1. /\ SpacesTyped /\ SlotsTyped /\ CallsTyped /\ SlotsRight /\ SizesRight /\ p \in Slots
        /\ kstack \in [Slots -> Nat] /\ pgdir \in [Slots -> Nat]
        /\ sz \in [Slots -> 0 .. USERTOP] /\ thread \in [Slots -> BOOLEAN]
        /\ \A q \in Slots : Settled(q) /\ Sized(q) /\ BuildsOwn(q) /\ ForksOwn(q)
    BY BeforeFacts
  <1>2. PICK S : S = SlotBack(p)
    OBVIOUS
  <1>3. /\ Unstacked(S) /\ \A n \in S : kstack[n] # 0 /\ pgdir[n] = 0
        /\ call[p].op # "sbrk" /\ pgdir[p] # 0
    BY <1>2, BuildFacts
  <1>4. CallsTyped' /\ call'[p] = NoCall /\ \A q \in Slots : q # p => call'[q] = call[q]
    BY <1>1, CallSet DEF Returns
  <1>5. /\ kstack' \in [Slots -> Nat]
        /\ \A q \in Slots : q \notin S => kstack'[q] = kstack[q]
    BY <1>1, <1>3 DEF Unstacked
  <1>6. MemTyped'
    BY <1>1, <1>4, <1>5 DEF MemTyped, SlotsTyped
  <1>7. ASSUME NEW q \in Slots, q # p
        PROVE  /\ IsFork(q) => kstack'[call[q].np] # 0
               /\ Builds(q) /\ Ready(q) => New(q) \in DOMAIN spaces'
    <2>1. IsFork(q) => call[q].np \in Slots /\ call[q].np \notin S /\ kstack[call[q].np] # 0
      <3>1. IsFork(q) => call[q].np \in Slots
        BY <1>1, CallFields DEF IsFork
      <3>2. ForksOwn(q)
        BY <1>1
      <3>3. IsFork(q) /\ IsFork(p) => call[p].np # call[q].np
        BY <1>1, <1>7, <3>2 DEF ForksOwn
      <3> QED BY <1>2, <3>1, <3>2, <3>3 DEF SlotBack, ForksOwn
    <2>2. Builds(q) /\ Ready(q) => New(q) \in DOMAIN spaces /\ New(q) \notin D
      BY <1>1, <1>7 DEF BuildsOwn
    <2> QED BY <1>5, <2>1, <2>2 DEF LeftOut
  <1>8. SlotsRight'
    <2>1. ASSUME NEW q \in Slots PROVE Kept(q)
      BY <1>4, <1>7 DEF Kept
    <2>2. \A q \in Slots : pgdir[q] # 0 => pgdir[q] \in DOMAIN spaces' /\ kstack'[q] # 0
      BY <1>1, <1>3, <1>5 DEF Settled, LeftOut
    <2> QED BY <1>1, <2>1, <2>2, SlotsKeep
  <1>9. SizesRight'
    <2>1. ASSUME NEW q \in Slots, q # p PROVE Sized(q)'
      <3>1. Sized(q) /\ Settled(q) /\ BuildsOwn(q)
        BY <1>1
      <3>2. Alike(q)
        BY <1>4, <2>1, <3>1 DEF Alike, LeftOut, Settled, BuildsOwn
      <3>3. SbrkIn(pgdir[q]) => SbrkIn(pgdir[q])'
        BY <1>3, <1>4 DEF SbrkIn
      <3> QED BY <3>1, <3>2, <3>3, SizeStays
    <2>2. Sized(p)'
      <3>1. RestSize(p) /\ Settled(p)
        BY <1>1 DEF Sized
      <3>2. spaces'[pgdir[p]] = spaces[pgdir[p]]
        BY <1>1, <1>3, <3>1 DEF LeftOut, Settled
      <3>3. RestSize(p)'
        BY <1>3, <1>4, <3>1, <3>2 DEF RestSize
      <3>4. SbrkSize(p)' /\ ForkSize(p)' /\ BuildSize(p)'
        BY <1>4 DEF SbrkSize, ForkSize, BuildSize, NoCall, Builds, IsFork
      <3> QED BY <3>3, <3>4 DEF Sized
    <2> QED BY <2>1, <2>2 DEF SizesRight
  <1>10. Got(p)' = << >> /\ \A q \in Slots : q # p => Got(q)' = Got(q)
    BY <1>4 DEF Got, Builds, Ready, NoCall
  <1> QED BY <1>6, <1>8, <1>9, <1>10

\* setupkvm finds no page.
LEMMA SetupFails ==
  ASSUME NEW p, Standing(p), Setupkvm(p), NoPage
  PROVE  MemInv'
  <1>1. /\ SpacesTyped /\ MemoryAssumption /\ p \in Slots /\ ~stopped /\ ~twice
    BY BeforeFacts
  <1>2. PICK K, A, B : Owned(K, A, B)
    BY BeforeFacts
  <1>3. /\ Builds(p) /\ ~Ready(p) /\ Returns(p) /\ kstack' = NoStack(p)
        /\ lost' = lost \cup Range(call[p].got) /\ freelist' = freelist \cup StackBack(p)
        /\ UNCHANGED << spaces, twice, pgdir, sz, thread, stopped >>
    BY DEF Setupkvm
  <1>4. /\ SlotBack(p) \subseteq Slots /\ \A n \in SlotBack(p) : kstack[n] # 0
        /\ StackBack(p) = Stacks(SlotBack(p)) /\ Unstacked(SlotBack(p))
        /\ call[p].got \in Seq(Frame)
    BY <1>3, BuildFacts
  <1>5. PICK L : L = Range(call[p].got)
    OBVIOUS
  <1>6. PICK S : S = SlotBack(p)
    OBVIOUS
  <1>7. \A g : g \in L <=> \E i \in 1 .. Len(Got(p)) : g = Got(p)[i]
    <2>1. Got(p) = call[p].got
      BY <1>3 DEF Got
    <2>2. DOMAIN call[p].got = 1 .. Len(call[p].got)
      BY <1>4
    <2> QED BY <1>5, <2>1, <2>2 DEF Range
  <1>8. LeftOut({}) /\ SpacesTyped'
    BY <1>1, <1>3 DEF LeftOut, SpacesTyped
  <1>9. /\ MemTyped' /\ SlotsRight' /\ SizesRight' /\ Got(p)' = << >>
        /\ \A q \in Slots : q # p => Got(q)' = Got(q)
    BY <1>3, <1>8, BuildFails
  <1>10. /\ lost' = lost \cup L /\ freelist' = freelist \cup Stacks(S) /\ Unstacked(S)
         /\ S \subseteq Slots /\ \A n \in S : kstack[n] # 0
    BY <1>3, <1>4, <1>5, <1>6
  <1>11. Len(Got(p)') = 0 /\ \A q \in Slots \ {p} : Got(q)' = Got(q)
    BY <1>9
  <1>12. \E K1, A1, B1 : Owned(K1, A1, B1)'
    BY <1>1, <1>2, <1>3, <1>7, <1>10, <1>11, LosesSetup
  <1> QED BY <1>1, <1>3, <1>9, <1>12 DEF MemInv

\* setupkvm has a page: its call has one more, and at the last there is a space.
LEMMA SetupTakes ==
  ASSUME NEW p, Standing(p), Setupkvm(p), ~NoPage
  PROVE  MemInv'
  <1>1. /\ SpacesTyped /\ SlotsTyped /\ CallsTyped /\ SlotsRight /\ SizesRight /\ ~stopped /\ ~twice
        /\ MemoryAssumption /\ p \in Slots
        /\ \A q \in Slots : Settled(q) /\ BuildsOwn(q) /\ ForksOwn(q) /\ ExecAlone(q) /\ Sized(q)
    BY BeforeFacts
  <1>2. PICK K, A, B : Owned(K, A, B)
    BY BeforeFacts
  <1>3. PICK f : f = Kalloc
    OBVIOUS
  <1>4. PICK g : g = Append(call[p].got, f)
    OBVIOUS
  <1>5. /\ Builds(p) /\ ~Ready(p) /\ Takes(f) /\ call' = [call EXCEPT ![p].got = g]
        /\ spaces' = IF Len(g) = 1 + NTables
                     THEN Extended(spaces, g[1], Space(Range(Tail(g)), << >>)) ELSE spaces
        /\ UNCHANGED << kstack, pgdir, sz, thread, stopped >>
    BY <1>3, <1>4 DEF Setupkvm
  <1>6. f \in freelist /\ f \in Frame
    BY <1>1, <1>2, <1>3, KallocView
  <1>7. /\ call[p].op \in {"fork", "exec"} /\ call[p].got \in Seq(Frame) /\ pgdir[p] # 0
    BY <1>5, BuildFacts
  <1>8. NTables \in Nat
    BY <1>1, MemNumbers
  <1>9. /\ g \in Seq(Frame) /\ Len(g) = Len(call[p].got) + 1 /\ Len(call[p].got) \in Nat
        /\ Len(g) <= 1 + NTables /\ Got(p) = call[p].got
    <2>1. g \in Seq(Frame) /\ Len(g) = Len(call[p].got) + 1 /\ Len(call[p].got) \in Nat
      BY <1>4, <1>6, <1>7
    <2>2. Len(call[p].got) <= 1 + NTables /\ Len(call[p].got) # 1 + NTables
      BY <1>1, <1>5 DEF BuildsOwn, Ready
    <2>3. Got(p) = call[p].got
      BY <1>5 DEF Got
    <2> QED BY <1>8, <2>1, <2>2, <2>3
  <1>10. /\ CallsTyped' /\ \A q \in Slots : q # p => call'[q] = call[q]
         /\ call'[p].got = g /\ call'[p].op = call[p].op /\ call'[p].at = call[p].at
         /\ call'[p].size = call[p].size /\ (IsFork(p) => call'[p].np = call[p].np)
    <2>1. PICK c : c = [call[p] EXCEPT !.got = g]
      OBVIOUS
    <2>2. call' = [call EXCEPT ![p] = c]
      BY <1>5, <2>1
    <2>3. CASE call[p].op = "fork"
      <3>1. call[p] \in ForkCall
        BY <1>1, <2>3, CallFields
      <3>2. /\ c \in ForkCall /\ c.got = g /\ c.op = call[p].op /\ c.at = call[p].at
            /\ c.size = call[p].size /\ c.np = call[p].np
        BY <1>9, <2>1, <3>1 DEF ForkCall
      <3> QED BY <1>1, <2>2, <3>2, CallSet
    <2>4. CASE call[p].op = "exec"
      <3>1. call[p] \in ExecCall
        BY <1>1, <2>4, CallFields
      <3>2. /\ c \in ExecCall /\ c.got = g /\ c.op = call[p].op /\ c.at = call[p].at
            /\ c.size = call[p].size
        BY <1>9, <2>1, <3>1 DEF ExecCall
      <3> QED BY <1>1, <2>2, <2>4, <3>2, CallSet DEF IsFork
    <2> QED BY <1>7, <2>3, <2>4
  <1>11. /\ Builds(p)' /\ (Ready(p)' <=> Len(g) = 1 + NTables) /\ New(p)' = g[1]
         /\ (IsFork(p)' <=> IsFork(p)) /\ call'[p].op # "sbrk" /\ call'[p] # NoCall
    BY <1>7, <1>10 DEF Builds, Ready, New, IsFork, NoCall
  <1>12. \A q \in Slots : q # p =>
           /\ Builds(q)' = Builds(q) /\ Ready(q)' = Ready(q) /\ New(q)' = New(q)
           /\ IsFork(q)' = IsFork(q) /\ Got(q)' = Got(q)
    BY <1>10 DEF Builds, Ready, New, IsFork, Got
  <1>13. freelist' = freelist \ {f} /\ UNCHANGED << lost, twice >>
    BY <1>5 DEF Takes
  \* The spaces that were there stay; the new one is new.
  <1>14. /\ SpacesTyped' /\ DOMAIN spaces \subseteq DOMAIN spaces'
         /\ \A x \in DOMAIN spaces : spaces'[x] = spaces[x]
         /\ Ready(p)' => /\ g[1] \notin DOMAIN spaces /\ g[1] \in DOMAIN spaces' /\ g[1] # 0
                         /\ spaces'[g[1]].map = << >>
         /\ \E K1, A1, B1 : Owned(K1, A1, B1)'
    <2>1. CASE Len(g) # 1 + NTables
      <3>1. spaces' = spaces /\ ~Ready(p)'
        BY <1>5, <1>11, <2>1
      <3>2. Got(p)' = Append(Got(p), f)
        BY <1>4, <1>9, <1>10, <1>11, <2>1 DEF Got
      <3>3. Got(p) \in Seq(Frame) /\ \A q \in Slots \ {p} : Got(q)' = Got(q)
        BY <1>7, <1>9, <1>12
      <3>4. \E K1, A1, B1 : Owned(K1, A1, B1)'
        BY <1>1, <1>2, <1>5, <1>6, <1>13, <3>1, <3>2, <3>3, TakesSetup
      <3> QED BY <1>1, <3>1, <3>4 DEF SpacesTyped
    <2>2. CASE Len(g) = 1 + NTables
      <3>1. PICK d : d = g[1]
        OBVIOUS
      <3>2. PICK T : T = Range(Tail(g))
        OBVIOUS
      <3>3. SpacesTyped' /\ Gains(d, T)
        BY <1>1, <1>5, <2>2, <3>1, <3>2, GainsView
      <3>4. Got(p)' = << >>
        BY <1>11, <2>2 DEF Got
      <3>5. /\ DOMAIN g = 1 .. Len(g) /\ Len(g) >= 1 /\ Len(g) \in Nat
        BY <1>9
      <3>6. /\ \A i \in 1 .. Len(call[p].got) : g[i] = call[p].got[i]
            /\ g[Len(call[p].got) + 1] = f
        BY <1>4, <1>6, <1>7
      <3>7. \A x : x \in T <=> \E i \in 2 .. Len(g) : x = g[i]
        <4>1. PICK h : h = Tail(g)
          OBVIOUS
        <4>2. /\ Len(h) = Len(g) - 1 /\ DOMAIN h = 1 .. Len(g) - 1
              /\ \A i \in 1 .. Len(g) - 1 : h[i] = g[i + 1]
          BY <1>9, <3>5, <4>1
        <4>3. \A x : x \in T <=> \E i \in 1 .. Len(g) - 1 : x = h[i]
          BY <3>2, <4>1, <4>2 DEF Range
        <4>4. ASSUME NEW x, NEW i \in 1 .. Len(g) - 1, x = h[i]
              PROVE  \E j \in 2 .. Len(g) : x = g[j]
          <5>1. i + 1 \in 2 .. Len(g) /\ x = g[i + 1]
            BY <3>5, <4>2, <4>4
          <5> QED BY <5>1
        <4>5. ASSUME NEW x, NEW j \in 2 .. Len(g), x = g[j]
              PROVE  \E i \in 1 .. Len(g) - 1 : x = h[i]
          <5>1. j - 1 \in 1 .. Len(g) - 1 /\ (j - 1) + 1 = j
            BY <3>5
          <5>2. x = h[j - 1]
            BY <4>2, <4>5, <5>1
          <5> QED BY <5>1, <5>2
        <4> QED BY <4>3, <4>4, <4>5
      <3>8. \A x : x \in T \cup {d} <=> x = f \/ \E i \in 1 .. Len(Got(p)) : x = Got(p)[i]
        <4>1. \A x : x \in T \cup {d} <=> \E i \in 1 .. Len(g) : x = g[i]
          <5>1. ASSUME NEW x, x \in T \cup {d} PROVE \E i \in 1 .. Len(g) : x = g[i]
            <6>1. 1 \in 1 .. Len(g) /\ 2 .. Len(g) \subseteq 1 .. Len(g)
              BY <3>5
            <6> QED BY <3>1, <3>7, <5>1, <6>1
          <5>2. ASSUME NEW x, NEW i \in 1 .. Len(g), x = g[i] PROVE x \in T \cup {d}
            <6>1. i = 1 \/ i \in 2 .. Len(g)
              BY <3>5
            <6> QED BY <3>1, <3>7, <5>2, <6>1
          <5> QED BY <5>1, <5>2
        <4>2. ASSUME NEW x, NEW i \in 1 .. Len(g), x = g[i]
              PROVE  x = f \/ \E j \in 1 .. Len(call[p].got) : x = call[p].got[j]
          <5>1. i \in 1 .. Len(call[p].got) \/ i = Len(call[p].got) + 1
            BY <1>9
          <5> QED BY <3>6, <4>2, <5>1
        <4>3. f = g[Len(g)] /\ Len(g) \in 1 .. Len(g)
          BY <1>9, <3>5, <3>6
        <4>4. ASSUME NEW x, NEW j \in 1 .. Len(call[p].got), x = call[p].got[j]
              PROVE  \E i \in 1 .. Len(g) : x = g[i]
          <5>1. j \in 1 .. Len(g)
            BY <1>9
          <5> QED BY <3>6, <4>4, <5>1
        <4>5. Got(p) = call[p].got
          BY <1>9
        <4>6. ASSUME NEW x, x \in T \cup {d}
              PROVE  x = f \/ \E j \in 1 .. Len(Got(p)) : x = Got(p)[j]
          <5>1. \E i \in 1 .. Len(g) : x = g[i]
            BY <4>1, <4>6
          <5> QED BY <4>2, <4>5, <5>1
        <4>7. ASSUME NEW x, x = f \/ \E j \in 1 .. Len(Got(p)) : x = Got(p)[j]
              PROVE  x \in T \cup {d}
          <5>1. \E i \in 1 .. Len(g) : x = g[i]
            BY <4>3, <4>4, <4>5, <4>7
          <5> QED BY <4>1, <5>1
        <4> QED BY <4>6, <4>7
      <3>9. d \notin T
        <4>1. ASSUME NEW i \in 2 .. Len(g), g[i] = g[1] PROVE FALSE
          <5>1. K[f] = "free" /\ SetupOwned(K, A, B)
            BY <1>2, <1>6 DEF Owned, ListsOwned
          <5>2. ASSUME NEW j \in 1 .. Len(call[p].got)
                PROVE  K[call[p].got[j]] = "setup" /\ B[call[p].got[j]] = j
            <6>1. j \in 1 .. Len(Got(p)) /\ Got(p)[j] = call[p].got[j]
              BY <1>9
            <6>2. K[Got(p)[j]] = "setup" /\ B[Got(p)[j]] = j
              BY <1>1, <5>1, <6>1 DEF SetupOwned
            <6> QED BY <6>1, <6>2
          <5>3. CASE i = Len(g)
            <6>1. g[i] = f /\ 1 \in 1 .. Len(call[p].got) /\ g[1] = call[p].got[1]
              BY <1>9, <3>5, <3>6, <5>3
            <6> QED BY <4>1, <5>1, <5>2, <6>1
          <5>4. CASE i # Len(g)
            <6>1. /\ 1 \in 1 .. Len(call[p].got) /\ i \in 1 .. Len(call[p].got) /\ i # 1
              BY <1>9, <3>5, <5>4
            <6>2. g[1] = call[p].got[1] /\ g[i] = call[p].got[i]
              BY <3>6, <6>1
            <6> QED BY <4>1, <5>2, <6>1, <6>2
          <5> QED BY <5>3, <5>4
        <4> QED BY <3>1, <3>7, <4>1
      <3>10. Len(Got(p)') = 0 /\ \A q \in Slots \ {p} : Got(q)' = Got(q)
        BY <1>12, <3>4
      <3>11. d \notin DOMAIN spaces /\ \E K1, A1, B1 : Owned(K1, A1, B1)'
        BY <1>1, <1>2, <1>5, <1>6, <1>13, <3>3, <3>8, <3>9, <3>10, MakesSpace
      <3>12. d # 0
        <4>1. d \in Frame
          BY <1>9, <3>1, <3>5
        <4> QED BY <1>1, <4>1, MemNumbers
      <3> QED BY <3>1, <3>3, <3>11, <3>12 DEF Gains
    <2> QED BY <2>1, <2>2
  <1>15. MemTyped'
    BY <1>1, <1>5, <1>10, <1>14 DEF MemTyped, SlotsTyped
  <1>16. SlotsRight'
    <2>1. ASSUME NEW q \in Slots PROVE Settled(q)'
      BY <1>1, <1>5, <1>7, <1>10, <1>14 DEF Settled
    <2>2. ASSUME NEW q \in Slots PROVE ExecAlone(q)'
      BY <1>1, <1>5, <1>10 DEF ExecAlone
    <2>3. ASSUME Ready(p)', NEW q \in Slots
          PROVE  /\ pgdir[q] # g[1]
                 /\ Builds(q) /\ Ready(q) => New(q) # g[1]
      BY <1>1, <1>14, <2>3 DEF Settled, BuildsOwn
    <2>4. ASSUME NEW q \in Slots, q # p PROVE BuildsOwn(q)'
      <3>1. BuildsOwn(q)
        BY <1>1
      <3> QED BY <1>5, <1>10, <1>11, <1>12, <1>14, <2>3, <2>4, <3>1 DEF BuildsOwn
    <2>5. BuildsOwn(p)'
      BY <1>5, <1>9, <1>10, <1>11, <1>12, <1>14, <2>3 DEF BuildsOwn
    <2>6. ASSUME NEW q \in Slots PROVE ForksOwn(q)'
      <3>1. ForksOwn(q)
        BY <1>1
      <3> QED BY <1>5, <1>10, <1>11, <1>12, <3>1 DEF ForksOwn
    <2> QED BY <2>1, <2>2, <2>4, <2>5, <2>6 DEF SlotsRight
  <1>17. SizesRight'
    <2>1. ASSUME NEW q \in Slots, q # p PROVE Sized(q)'
      <3>1. Sized(q) /\ Settled(q) /\ BuildsOwn(q)
        BY <1>1
      <3>2. Alike(q)
        BY <1>5, <1>10, <1>14, <2>1, <3>1 DEF Alike, Settled, BuildsOwn
      <3>3. SbrkIn(pgdir[q]) => SbrkIn(pgdir[q])'
        BY <1>5, <1>7, <1>10 DEF SbrkIn
      <3> QED BY <3>1, <3>2, <3>3, SizeStays
    <2>2. Sized(p)'
      <3>1. RestSize(p) /\ ForkSize(p) /\ BuildSize(p) /\ Settled(p)
        BY <1>1 DEF Sized
      <3>2. spaces'[pgdir[p]] = spaces[pgdir[p]]
        BY <1>7, <1>14, <3>1 DEF Settled
      <3>3. RestSize(p)'
        BY <1>5, <1>7, <1>10, <3>1, <3>2 DEF RestSize
      <3>4. SbrkSize(p)' /\ ForkSize(p)'
        BY <1>5, <1>10, <1>11, <3>1, <3>2 DEF SbrkSize, ForkSize
      <3>5. BuildSize(p)'
        <4>1. PICK k \in Nat : call[p].at = k * PGSIZE /\ k <= Pages(call[p].size) /\ k = 0
          BY <1>5, <3>1 DEF BuildSize
        <4>2. Ready(p)' => DOMAIN spaces'[New(p)'].map = 0 .. k - 1
          <5>1. DOMAIN << >> = {} /\ 0 .. k - 1 = {}
            BY <4>1
          <5> QED BY <1>11, <1>14, <5>1
        <4> QED BY <1>10, <4>1, <4>2 DEF BuildSize
      <3> QED BY <3>3, <3>4, <3>5 DEF Sized
    <2> QED BY <2>1, <2>2 DEF SizesRight
  <1> QED BY <1>1, <1>5, <1>13, <1>14, <1>15, <1>16, <1>17 DEF MemInv

\* What is known while the new space gets its pages.
LEMMA NewFacts ==
  ASSUME NEW p, Standing(p), Builds(p), Ready(p)
  PROVE  /\ New(p) \in DOMAIN spaces /\ New(p) # 0 /\ Got(p) = << >>
         /\ \A q \in Slots : pgdir[q] # New(p)
         /\ \A q \in Slots \ {p} : Builds(q) /\ Ready(q) => New(q) # New(p)
         /\ \E k \in Nat : /\ call[p].at = k * PGSIZE /\ k <= Pages(call[p].size)
                          /\ DOMAIN spaces[New(p)].map = 0 .. k - 1
                          /\ (call[p].at < call[p].size <=> k < Pages(call[p].size))
                          /\ (call[p].at >= call[p].size => k = Pages(call[p].size))
                          /\ call[p].at \div PGSIZE = k
         /\ IsFork(p) => /\ ~spaces[pgdir[p]].emptied /\ sz[p] = call[p].size
                        /\ DOMAIN spaces[pgdir[p]].map = 0 .. Pages(sz[p]) - 1
  <1>1. /\ MemoryAssumption /\ p \in Slots /\ BuildsOwn(p) /\ Sized(p) /\ pgdir[p] # 0
        /\ call[p].at \in Nat /\ call[p].size \in Nat /\ call[p].op # "sbrk" /\ call[p].op # "none"
    BY BeforeFacts, BuildFacts
  <1>2. PICK K, A, B : Owned(K, A, B)
    BY BeforeFacts
  <1>3. New(p) \in DOMAIN spaces /\ New(p) # 0
    <2>1. New(p) \in DOMAIN spaces
      BY <1>1 DEF BuildsOwn
    <2> QED BY <1>1, <1>2, <2>1, MemNumbers DEF Owned, ListsOwned
  <1>4. PICK k \in Nat : /\ call[p].at = k * PGSIZE /\ k <= Pages(call[p].size)
                        /\ DOMAIN spaces[New(p)].map = 0 .. k - 1
    BY <1>1 DEF Sized, BuildSize
  <1>5. /\ Pages(call[p].size) \in Nat /\ (k * PGSIZE < call[p].size <=> k < Pages(call[p].size))
        /\ k * PGSIZE \in Nat /\ (k * PGSIZE) \div PGSIZE = k
    BY <1>1, PagesBelow
  <1>6. IsFork(p) => /\ ~spaces[pgdir[p]].emptied /\ sz[p] = call[p].size
                     /\ DOMAIN spaces[pgdir[p]].map = 0 .. Pages(sz[p]) - 1
    <2>1. \A q \in Slots : pgdir[q] = pgdir[p] => call[q].op # "sbrk"
      BY <1>1 DEF Standing, Racing
    <2> QED BY <1>1, <2>1 DEF Sized, ForkSize, RestSize
  <1>7. Got(p) = << >>
    BY DEF Got
  <1>8. /\ (call[p].at < call[p].size <=> k < Pages(call[p].size))
        /\ (call[p].at >= call[p].size => k = Pages(call[p].size))
        /\ call[p].at \div PGSIZE = k
    BY <1>1, <1>4, <1>5
  <1> QED BY <1>1, <1>3, <1>4, <1>6, <1>7, <1>8 DEF BuildsOwn

\* copyuvm never meets a page that is not there.
LEMMA NoPanic ==
  ASSUME NEW p, Standing(p), Builds(p), Ready(p), call[p].at < call[p].size, call[p].op = "fork"
  PROVE  Mapped(pgdir[p], call[p].at)
  <1>1. PICK k \in Nat : k < Pages(call[p].size) /\ call[p].at \div PGSIZE = k
    BY NewFacts
  <1>2. DOMAIN spaces[pgdir[p]].map = 0 .. Pages(call[p].size) - 1
    BY NewFacts DEF IsFork
  <1>3. Pages(call[p].size) \in Nat
    BY BeforeFacts, BuildFacts, PagesBelow
  <1> QED BY <1>1, <1>2, <1>3 DEF Mapped

\* They have none: freevm gives back what the new space has.
LEMMA CopyFails ==
  ASSUME NEW p, Standing(p), Build(p), NoPage
  PROVE  MemInv'
  <1>1. /\ SpacesTyped /\ MemoryAssumption /\ p \in Slots /\ ~stopped /\ ~twice
    BY BeforeFacts
  <1>2. PICK K, A, B : Owned(K, A, B)
    BY BeforeFacts
  <1>3. PICK d : d = New(p)
    OBVIOUS
  <1>4. Builds(p) /\ Ready(p) /\ call[p].at < call[p].size
    BY DEF Build
  <1>5. ~ (call[p].op = "fork" /\ ~Mapped(pgdir[p], call[p].at))
    BY <1>4, NoPanic
  <1>6. /\ Kfree(AllOf(d) \cup StackBack(p)) /\ kstack' = NoStack(p) /\ spaces' = SpacesBut({d})
        /\ Returns(p) /\ UNCHANGED << pgdir, sz, thread, stopped >>
    BY <1>3, <1>5 DEF Build
  <1>7. /\ SlotBack(p) \subseteq Slots /\ \A n \in SlotBack(p) : kstack[n] # 0
        /\ StackBack(p) = Stacks(SlotBack(p)) /\ Unstacked(SlotBack(p))
    BY <1>4, <1>6, BuildFacts
  <1>8. PICK S : S = SlotBack(p)
    OBVIOUS
  <1>9. PICK G : G = AllOf(d) \cup StackBack(p)
    OBVIOUS
  <1>10. SpacesTyped' /\ LeftOut({d})
    BY <1>1, <1>6, LeftOutView
  <1>11. /\ d \in DOMAIN spaces /\ Got(p) = << >> /\ \A q \in Slots : pgdir[q] # d
         /\ \A q \in Slots \ {p} : Builds(q) /\ Ready(q) => New(q) # d
    BY <1>3, <1>4, NewFacts
  <1>12. /\ MemTyped' /\ SlotsRight' /\ SizesRight' /\ Got(p)' = << >>
         /\ \A q \in Slots : q # p => Got(q)' = Got(q)
    <2>1. PICK D : D = {d}
      OBVIOUS
    <2>2. LeftOut(D) /\ (\A q \in Slots : pgdir[q] \notin D)
          /\ \A q \in Slots \ {p} : Builds(q) /\ Ready(q) => New(q) \notin D
      BY <1>10, <1>11, <2>1
    <2> QED BY <1>4, <1>6, <1>10, <2>2, BuildFails
  <1>13. SameGot
    BY <1>11, <1>12 DEF SameGot
  <1>14. /\ freelist' = freelist \cup G /\ lost' = lost
         /\ twice' = (twice \/ G \cap freelist # {})
    BY <1>6, <1>9 DEF Kfree
  <1>15. G \cap freelist = {} /\ \E K1, A1, B1 : Owned(K1, A1, B1)'
    <2>1. PICK D : D = {d}
      OBVIOUS
    <2>2. \A g : g \in G <=> g \in Stacks(S) \/ \E x \in D : g \in AllOf(x)
      BY <1>7, <1>8, <1>9, <2>1
    <2>3. D \subseteq DOMAIN spaces /\ LeftOut(D)
      BY <1>10, <1>11, <2>1
    <2>4. S \subseteq Slots /\ Unstacked(S) /\ \A n \in S : kstack[n] # 0
      BY <1>7, <1>8
    <2> QED BY <1>1, <1>2, <1>13, <1>14, <2>2, <2>3, <2>4, GivesSpaces
  <1> QED BY <1>1, <1>6, <1>12, <1>14, <1>15 DEF MemInv

\* copyuvm and exec's allocuvm have a page for the next address.
LEMMA CopyTakes ==
  ASSUME NEW p, Standing(p), Build(p), ~NoPage
  PROVE  MemInv'
  <1>1. /\ SpacesTyped /\ SlotsTyped /\ CallsTyped /\ SlotsRight /\ SizesRight /\ ~stopped /\ ~twice
        /\ MemoryAssumption /\ p \in Slots
        /\ \A q \in Slots : Settled(q) /\ BuildsOwn(q) /\ ForksOwn(q) /\ Sized(q)
    BY BeforeFacts
  <1>2. PICK K, A, B : Owned(K, A, B)
    BY BeforeFacts
  <1>3. PICK d : d = New(p)
    OBVIOUS
  <1>4. PICK f : f = Kalloc
    OBVIOUS
  <1>5. f \in freelist
    BY <1>1, <1>2, <1>4, KallocView
  <1>6. Builds(p) /\ Ready(p) /\ call[p].at < call[p].size
    BY DEF Build
  <1>7. ~ (call[p].op = "fork" /\ ~Mapped(pgdir[p], call[p].at))
    BY <1>6, NoPanic
  <1>8. /\ Takes(f) /\ Map(d, call[p].at, f) /\ GoesOn(p) /\ UNCHANGED << slotvars, stopped >>
    BY <1>3, <1>4, <1>7 DEF Build
  <1>9. /\ d \in DOMAIN spaces /\ Got(p) = << >> /\ \A q \in Slots : pgdir[q] # d
        /\ \A q \in Slots \ {p} : Builds(q) /\ Ready(q) => New(q) # d
    BY <1>3, <1>6, NewFacts
  <1>10. PICK k \in Nat : /\ call[p].at = k * PGSIZE /\ k < Pages(call[p].size)
                         /\ DOMAIN spaces[d].map = 0 .. k - 1 /\ call[p].at \div PGSIZE = k
    BY <1>3, <1>6, NewFacts
  <1>11. PICK mp : mp = Extended(spaces[d].map, k, f)
    OBVIOUS
  <1>12. PICK b : b = spaces[d].emptied
    OBVIOUS
  <1>13. SpacesTyped' /\ Maps(d, mp, b)
    <2>1. b \in BOOLEAN
      BY <1>1, <1>9, <1>12 DEF SpacesTyped
    <2>2. spaces' = Remapped(d, mp)
      BY <1>8, <1>10, <1>11 DEF Map, Remapped
    <2> QED BY <1>1, <1>9, <1>12, <2>1, <2>2, MapsView
  <1>14. /\ call[p].op # "none" /\ call[p].op # "sbrk" /\ pgdir[p] # 0
         /\ call[p].size \in Nat /\ call[p].op \in {"fork", "exec"}
    BY <1>6, BuildFacts
  <1>15. /\ CallsTyped' /\ \A q \in Slots : q # p => call'[q] = call[q]
         /\ call'[p].op = call[p].op /\ call'[p].at = call[p].at + PGSIZE
         /\ call[p].op = "fork" => call'[p].np = call[p].np
         /\ call'[p].got = call[p].got /\ call'[p].size = call[p].size
    BY <1>1, <1>6, <1>8, <1>14, GoesOnView
  <1>16. /\ Builds(p)' /\ Ready(p)' /\ New(p)' = d /\ (IsFork(p)' <=> IsFork(p))
         /\ call'[p] # NoCall /\ call[p] # NoCall /\ Got(p)' = << >>
    BY <1>3, <1>6, <1>14, <1>15 DEF Builds, Ready, New, IsFork, NoCall, Got
  <1>17. pgdir' = pgdir /\ sz' = sz /\ kstack' = kstack /\ thread' = thread
    BY <1>8 DEF slotvars
  <1>18. DOMAIN spaces' = DOMAIN spaces /\ \A x \in DOMAIN spaces : x # d => spaces'[x] = spaces[x]
    BY <1>13 DEF Maps
  <1>19. MemTyped'
    BY <1>1, <1>13, <1>15, <1>17 DEF MemTyped, SlotsTyped
  <1>20. SlotsRight'
    <2>1. ASSUME NEW q \in Slots PROVE Kept(q)
      <3>1. BuildsOwn(q) /\ ForksOwn(q)
        BY <1>1
      <3>2. CASE q = p
        BY <1>15, <1>16, <1>17, <1>18, <3>1, <3>2 DEF Kept, BuildsOwn, ForksOwn, IsFork
      <3>3. CASE q # p
        BY <1>15, <1>17, <1>18, <3>1, <3>3 DEF Kept, BuildsOwn, ForksOwn
      <3> QED BY <3>2, <3>3
    <2>2. \A q \in Slots : pgdir[q] # 0 => pgdir[q] \in DOMAIN spaces' /\ kstack'[q] # 0
      BY <1>1, <1>17, <1>18 DEF Settled
    <2> QED BY <1>1, <1>17, <2>1, <2>2, SlotsKeep
  <1>21. SizesRight'
    <2>1. ASSUME NEW q \in Slots, q # p PROVE Sized(q)'
      <3>1. Sized(q) /\ Settled(q) /\ BuildsOwn(q)
        BY <1>1
      <3>2. Alike(q)
        BY <1>9, <1>15, <1>17, <1>18, <2>1, <3>1 DEF Alike, Settled, BuildsOwn
      <3>3. SbrkIn(pgdir[q]) => SbrkIn(pgdir[q])'
        BY <1>14, <1>15, <1>17 DEF SbrkIn
      <3> QED BY <3>1, <3>2, <3>3, SizeStays
    <2>2. Sized(p)'
      <3>1. RestSize(p) /\ ForkSize(p) /\ Settled(p)
        BY <1>1 DEF Sized
      <3>2. spaces'[pgdir[p]] = spaces[pgdir[p]]
        BY <1>1, <1>9, <1>14, <1>18, <3>1 DEF Settled
      <3>3. RestSize(p)'
        BY <1>14, <1>15, <1>17, <3>1, <3>2 DEF RestSize
      <3>4. SbrkSize(p)' /\ ForkSize(p)'
        <4>1. SbrkSize(p)'
          BY <1>14, <1>15, <1>16, <1>17 DEF SbrkSize
        <4>2. ForkSize(p)'
          BY <1>14, <1>15, <1>16, <1>17, <3>1, <3>2 DEF ForkSize
        <4> QED BY <4>1, <4>2
      <3>5. BuildSize(p)'
        <4>1. PGSIZE \in Nat /\ PGSIZE \in Int /\ Pages(call[p].size) \in Nat
          <5>1. PGSIZE \in Nat /\ PGSIZE \in Int
            BY <1>1, MemNumbers
          <5>2. PICK s : s = call[p].size
            OBVIOUS
          <5>3. s \in Nat
            BY <1>14, <5>2
          <5>4. Pages(s) \in Nat
            BY <1>1, <5>3, PagesBelow
          <5> QED BY <5>1, <5>2, <5>4
        <4>2. DOMAIN spaces'[d].map = 0 .. (k + 1) - 1
          <5>1. DOMAIN mp = DOMAIN spaces[d].map \cup {k}
            BY <1>11, ExtendedView
          <5>2. DOMAIN mp = 0 .. k /\ (k + 1) - 1 = k
            BY <1>10, <5>1
          <5> QED BY <1>13, <5>2 DEF Maps
        <4>3. call'[p].at = (k + 1) * PGSIZE
          <5>1. PGSIZE * 1 + PGSIZE * k = PGSIZE * (1 + k)
            BY <4>1, Distribute
          <5>2. (k + 1) * PGSIZE = k * PGSIZE + PGSIZE
            BY <4>1, <5>1
          <5> QED BY <1>10, <1>15, <5>2
        <4>4. k + 1 \in Nat /\ k + 1 <= Pages(call[p].size)
          BY <1>10, <4>1
        <4> QED BY <1>15, <1>16, <4>2, <4>3, <4>4 DEF BuildSize
      <3> QED BY <3>3, <3>4, <3>5 DEF Sized
    <2> QED BY <2>1, <2>2 DEF SizesRight
  <1>22. freelist' = freelist \ {f} /\ UNCHANGED << lost, twice, kstack >>
    BY <1>8, <1>17 DEF Takes
  <1>23. \E K1, A1, B1 : Owned(K1, A1, B1)'
    <2>1. Maps(d, Extended(spaces[d].map, k, f), b)
      BY <1>11, <1>13
    <2>2. SameGot
      BY <1>9, <1>15, <1>16 DEF SameGot, Got, Builds, Ready
    <2>3. k \notin DOMAIN spaces[d].map
      BY <1>10
    <2> QED BY <1>1, <1>2, <1>5, <1>9, <1>22, <2>1, <2>2, <2>3, TakesUser
  <1> QED BY <1>1, <1>8, <1>19, <1>20, <1>21, <1>22, <1>23 DEF MemInv

---------------------------------------------------------------------------
(* The ends of fork, exec and a process. *)

\* fork gives the child its space and the parent's size.
LEMMA EndForkKeeps ==
  ASSUME NEW p, Standing(p), EndFork(p)
  PROVE  MemInv'
  <1>1. /\ SpacesTyped /\ SlotsTyped /\ CallsTyped /\ SlotsRight /\ SizesRight /\ ~stopped /\ ~twice
        /\ MemoryAssumption /\ p \in Slots
        /\ kstack \in [Slots -> Nat] /\ pgdir \in [Slots -> Nat]
        /\ sz \in [Slots -> 0 .. USERTOP] /\ thread \in [Slots -> BOOLEAN]
        /\ \A q \in Slots : Settled(q) /\ BuildsOwn(q) /\ ForksOwn(q) /\ ExecAlone(q) /\ Sized(q)
    BY BeforeFacts
  <1>2. PICK K, A, B : Owned(K, A, B)
    BY BeforeFacts
  <1>3. PICK n : n = call[p].np
    OBVIOUS
  <1>4. PICK d : d = New(p)
    OBVIOUS
  <1>5. /\ call[p].op = "fork" /\ Ready(p) /\ call[p].at >= call[p].size
        /\ pgdir' = [pgdir EXCEPT ![n] = d] /\ sz' = [sz EXCEPT ![n] = sz[p]]
        /\ thread' = [thread EXCEPT ![n] = FALSE] /\ Returns(p)
        /\ UNCHANGED << freelist, spaces, lost, twice, kstack, stopped >>
    BY <1>3, <1>4 DEF EndFork, tables
  <1>6. Builds(p) /\ IsFork(p)
    BY <1>5 DEF Builds, IsFork
  <1>7. n \in Slots /\ pgdir[p] # 0
    BY <1>3, <1>6, BuildFacts
  <1>8. /\ kstack[n] # 0 /\ pgdir[n] = 0 /\ call[n] = NoCall /\ n # p
        /\ \A q \in Slots \ {p} : IsFork(q) => call[q].np # n
    <2>1. ForksOwn(p) /\ Settled(n)
      BY <1>1, <1>7
    <2> QED BY <1>3, <1>6, <1>7, <2>1 DEF ForksOwn, Settled
  <1>9. /\ d \in DOMAIN spaces /\ d # 0 /\ Got(p) = << >>
        /\ \A q \in Slots : pgdir[q] # d
        /\ \A q \in Slots \ {p} : Builds(q) /\ Ready(q) => New(q) # d
        /\ sz[p] = call[p].size
    BY <1>4, <1>5, <1>6, NewFacts
  <1>10. DOMAIN spaces[d].map = 0 .. Pages(sz[p]) - 1
    <2>1. PICK k \in Nat : DOMAIN spaces[d].map = 0 .. k - 1 /\ k = Pages(call[p].size)
      BY <1>4, <1>5, <1>6, NewFacts
    <2> QED BY <1>9, <2>1
  <1>11. d \in Nat
    BY <1>1, <1>2, <1>9, MemNumbers DEF Owned, ListsOwned
  <1>12. CallsTyped' /\ call'[p] = NoCall /\ \A q \in Slots : q # p => call'[q] = call[q]
    BY <1>1, <1>5, CallSet DEF Returns
  <1>13. /\ pgdir' \in [Slots -> Nat] /\ sz' \in [Slots -> 0 .. USERTOP]
         /\ thread' \in [Slots -> BOOLEAN]
    BY <1>1, <1>5, <1>7, <1>11
  <1>14. /\ pgdir'[n] = d /\ \A q \in Slots : q # n => pgdir'[q] = pgdir[q]
         /\ sz'[n] = sz[p] /\ \A q \in Slots : q # n => sz'[q] = sz[q]
         /\ call'[n] = NoCall
    <2>1. pgdir'[n] = d /\ \A q \in Slots : q # n => pgdir'[q] = pgdir[q]
      BY <1>1, <1>5, <1>7
    <2>2. sz'[n] = sz[p] /\ \A q \in Slots : q # n => sz'[q] = sz[q]
      BY <1>1, <1>5, <1>7
    <2> QED BY <1>7, <1>8, <1>12, <2>1, <2>2
  <1>15. MemTyped'
    BY <1>1, <1>5, <1>12, <1>13 DEF MemTyped, SpacesTyped, SlotsTyped
  <1>16. ~Builds(p)' /\ ~IsFork(p)' /\ \A q \in Slots : q # p =>
           /\ Builds(q)' = Builds(q) /\ Ready(q)' = Ready(q) /\ New(q)' = New(q)
           /\ IsFork(q)' = IsFork(q) /\ Got(q)' = Got(q)
    BY <1>12 DEF Builds, Ready, New, IsFork, Got, NoCall
  <1>17. SlotsRight'
    <2>1. ASSUME NEW q \in Slots PROVE Settled(q)'
      <3>1. CASE q = n
        BY <1>5, <1>8, <1>9, <1>14, <3>1 DEF Settled
      <3>2. CASE q # n
        <4>1. Settled(q)
          BY <1>1
        <4>2. call[q] = NoCall => call'[q] = NoCall
          BY <1>12
        <4> QED BY <1>1, <1>5, <1>9, <1>14, <3>2, <4>1, <4>2 DEF Settled
      <3> QED BY <3>1, <3>2
    <2>2. ASSUME NEW q \in Slots PROVE ExecAlone(q)'
      <3>1. call'[q].op = "exec" => q # n /\ call[q].op = "exec"
        BY <1>12, <1>14 DEF NoCall
      <3>2. ExecAlone(q)
        BY <1>1
      <3> QED BY <1>9, <1>14, <3>1, <3>2 DEF ExecAlone
    <2>3. ASSUME NEW q \in Slots PROVE BuildsOwn(q)'
      <3>1. BuildsOwn(q)
        BY <1>1
      <3> QED BY <1>5, <1>9, <1>12, <1>14, <1>16, <3>1 DEF BuildsOwn
    <2>4. ASSUME NEW q \in Slots PROVE ForksOwn(q)'
      <3>1. ForksOwn(q)
        BY <1>1
      <3>2. IsFork(q) => call[q].np \in Slots
        BY <1>1, CallFields DEF IsFork
      <3> QED BY <1>5, <1>8, <1>12, <1>14, <1>16, <3>1, <3>2 DEF ForksOwn
    <2> QED BY <2>1, <2>2, <2>3, <2>4 DEF SlotsRight
  <1>18. SizesRight'
    <2>1. ASSUME NEW q \in Slots, q # p, q # n PROVE Sized(q)'
      <3>1. Sized(q) /\ Settled(q) /\ Alike(q)
        BY <1>1, <1>5, <1>12, <1>14, <2>1 DEF Alike
      <3>2. pgdir[q] # 0 /\ SbrkIn(pgdir[q]) => SbrkIn(pgdir[q])'
        BY <1>5, <1>8, <1>12, <1>14, <2>1 DEF SbrkIn
      <3> QED BY <3>1, <3>2, SizeStays
    <2>2. ASSUME NEW q \in {p, n} PROVE SbrkSize(q)' /\ ForkSize(q)' /\ BuildSize(q)'
      BY <1>12, <1>14 DEF SbrkSize, ForkSize, BuildSize, NoCall, Builds, IsFork
    <2>3. RestSize(p)'
      <3>1. RestSize(p)
        BY <1>1 DEF Sized
      <3>2. \A q \in Slots : q # p => call'[q] = call[q]
        BY <1>12
      <3>3. call[p].op # "sbrk" /\ pgdir'[p] = pgdir[p] /\ sz'[p] = sz[p]
        BY <1>1, <1>5, <1>8, <1>14
      <3>4. \A q \in Slots : q # n => pgdir'[q] = pgdir[q]
        BY <1>14
      <3>5. (\A q \in Slots : pgdir'[q] = pgdir[p] => call'[q].op # "sbrk")
            => \A q \in Slots : pgdir[q] = pgdir[p] => call[q].op # "sbrk"
        BY <1>7, <1>8, <3>2, <3>3, <3>4
      <3> QED BY <1>5, <3>1, <3>3, <3>5 DEF RestSize
    <2>4. RestSize(n)'
      BY <1>5, <1>10, <1>14 DEF RestSize
    <2>5. Sized(p)' /\ Sized(n)'
      BY <2>2, <2>3, <2>4 DEF Sized
    <2> QED BY <2>1, <2>5 DEF SizesRight
  <1>19. \E K1, A1, B1 : Owned(K1, A1, B1)'
    <2>1. SameGot
      BY <1>9, <1>16 DEF SameGot, Got
    <2> QED BY <1>2, <1>5, <2>1, OwnedSame
  <1> QED BY <1>1, <1>5, <1>15, <1>17, <1>18, <1>19 DEF MemInv

\* exec changes the space, and the old one goes.
LEMMA EndExecKeeps ==
  ASSUME NEW p, Standing(p), EndExec(p)
  PROVE  MemInv'
  <1>1. /\ SpacesTyped /\ SlotsTyped /\ CallsTyped /\ SlotsRight /\ SizesRight /\ ~stopped /\ ~twice
        /\ MemoryAssumption /\ p \in Slots
        /\ kstack \in [Slots -> Nat] /\ pgdir \in [Slots -> Nat]
        /\ sz \in [Slots -> 0 .. USERTOP] /\ thread \in [Slots -> BOOLEAN]
        /\ \A q \in Slots : Settled(q) /\ BuildsOwn(q) /\ ForksOwn(q) /\ ExecAlone(q) /\ Sized(q)
    BY BeforeFacts
  <1>2. PICK K, A, B : Owned(K, A, B)
    BY BeforeFacts
  <1>3. PICK old : old = pgdir[p]
    OBVIOUS
  <1>4. PICK d : d = New(p)
    OBVIOUS
  <1>5. PICK D : D = {old}
    OBVIOUS
  <1>6. PICK size : size = call[p].size
    OBVIOUS
  <1>7. /\ call[p].op = "exec" /\ Ready(p) /\ call[p].at >= call[p].size
        /\ pgdir' = [pgdir EXCEPT ![p] = d] /\ sz' = [sz EXCEPT ![p] = size]
        /\ Kfree(AllOf(old)) /\ spaces' = SpacesBut(D) /\ Returns(p)
        /\ UNCHANGED << kstack, thread, stopped >>
    BY <1>3, <1>4, <1>5, <1>6 DEF EndExec
  <1>8. Builds(p) /\ ~IsFork(p)
    BY <1>7 DEF Builds, IsFork
  <1>9. /\ old # 0 /\ old \in DOMAIN spaces /\ kstack[p] # 0 /\ size \in 0 .. USERTOP
    BY <1>1, <1>3, <1>6, <1>7, <1>8, BuildFacts, CallFields
  <1>10. /\ d \in DOMAIN spaces /\ d # 0 /\ Got(p) = << >>
         /\ \A q \in Slots : pgdir[q] # d
         /\ \A q \in Slots \ {p} : Builds(q) /\ Ready(q) => New(q) # d
    BY <1>4, <1>7, <1>8, NewFacts
  <1>11. d # old /\ d \notin D
    BY <1>1, <1>3, <1>5, <1>10
  <1>12. DOMAIN spaces[d].map = 0 .. Pages(size) - 1
    <2>1. PICK k \in Nat : DOMAIN spaces[d].map = 0 .. k - 1 /\ k = Pages(call[p].size)
      BY <1>4, <1>7, <1>8, NewFacts
    <2> QED BY <1>6, <2>1
  <1>13. d \in Nat
    BY <1>1, <1>2, <1>10, MemNumbers DEF Owned, ListsOwned
  <1>14. CallsTyped' /\ call'[p] = NoCall /\ \A q \in Slots : q # p => call'[q] = call[q]
    BY <1>1, <1>7, CallSet DEF Returns
  <1>15. SpacesTyped' /\ LeftOut(D)
    BY <1>1, <1>7, LeftOutView
  <1>16. /\ pgdir' \in [Slots -> Nat] /\ sz' \in [Slots -> 0 .. USERTOP]
    BY <1>1, <1>7, <1>9, <1>13
  <1>17. /\ pgdir'[p] = d /\ \A q \in Slots : q # p => pgdir'[q] = pgdir[q]
         /\ sz'[p] = size /\ \A q \in Slots : q # p => sz'[q] = sz[q]
    <2>1. pgdir'[p] = d /\ \A q \in Slots : q # p => pgdir'[q] = pgdir[q]
      BY <1>1, <1>7
    <2>2. sz'[p] = size /\ \A q \in Slots : q # p => sz'[q] = sz[q]
      BY <1>1, <1>7
    <2> QED BY <2>1, <2>2
  <1>18. MemTyped'
    BY <1>1, <1>7, <1>14, <1>15, <1>16 DEF MemTyped, SlotsTyped
  <1>19. ~Builds(p)' /\ ~IsFork(p)' /\ \A q \in Slots : q # p =>
           /\ Builds(q)' = Builds(q) /\ Ready(q)' = Ready(q) /\ New(q)' = New(q)
           /\ IsFork(q)' = IsFork(q) /\ Got(q)' = Got(q)
    BY <1>14 DEF Builds, Ready, New, IsFork, Got, NoCall
  <1>20. \A q \in Slots : q # p => pgdir[q] # old
    BY <1>1, <1>3, <1>7 DEF ExecAlone
  <1>21. \A q \in Slots : Builds(q) /\ Ready(q) => New(q) # old
    BY <1>1, <1>3 DEF BuildsOwn
  <1>22. /\ DOMAIN spaces' = DOMAIN spaces \ {old}
         /\ \A x \in DOMAIN spaces : x # old => spaces'[x] = spaces[x]
    BY <1>5, <1>15 DEF LeftOut
  <1>23. SlotsRight'
    <2>1. ASSUME NEW q \in Slots PROVE Settled(q)'
      <3>1. CASE q = p
        BY <1>7, <1>9, <1>10, <1>11, <1>14, <1>17, <1>22, <3>1 DEF Settled
      <3>2. CASE q # p
        <4>1. Settled(q)
          BY <1>1
        <4> QED BY <1>1, <1>7, <1>10, <1>14, <1>17, <1>20, <1>22, <3>2, <4>1 DEF Settled
      <3> QED BY <3>1, <3>2
    <2>2. ASSUME NEW q \in Slots PROVE ExecAlone(q)'
      <3>1. ExecAlone(q)
        BY <1>1
      <3> QED BY <1>10, <1>14, <1>17, <3>1 DEF ExecAlone, NoCall
    <2>3. ASSUME NEW q \in Slots PROVE BuildsOwn(q)'
      <3>1. BuildsOwn(q)
        BY <1>1
      <3> QED BY <1>10, <1>14, <1>17, <1>19, <1>21, <1>22, <3>1 DEF BuildsOwn
    <2>4. ASSUME NEW q \in Slots PROVE ForksOwn(q)'
      <3>1. ForksOwn(q)
        BY <1>1
      <3>2. IsFork(q) => call[q].np \in Slots /\ call[q].np # p
        BY <1>1, <1>3, <1>9, <3>1, CallFields DEF IsFork, ForksOwn
      <3> QED BY <1>7, <1>14, <1>17, <1>19, <3>1, <3>2 DEF ForksOwn
    <2> QED BY <2>1, <2>2, <2>3, <2>4 DEF SlotsRight
  <1>24. SizesRight'
    <2>1. ASSUME NEW q \in Slots, q # p PROVE Sized(q)'
      <3>1. Sized(q) /\ Settled(q) /\ BuildsOwn(q)
        BY <1>1
      <3>2. Alike(q)
        BY <1>14, <1>17, <1>20, <1>21, <1>22, <2>1, <3>1 DEF Alike, Settled, BuildsOwn
      <3>3. SbrkIn(pgdir[q]) => SbrkIn(pgdir[q])'
        BY <1>3, <1>14, <1>17, <1>20, <2>1 DEF SbrkIn
      <3> QED BY <3>1, <3>2, <3>3, SizeStays
    <2>2. RestSize(p)'
      BY <1>10, <1>11, <1>12, <1>17, <1>22 DEF RestSize
    <2>3. SbrkSize(p)' /\ ForkSize(p)' /\ BuildSize(p)'
      BY <1>14 DEF SbrkSize, ForkSize, BuildSize, NoCall, Builds, IsFork
    <2>4. Sized(p)'
      BY <2>2, <2>3 DEF Sized
    <2> QED BY <2>1, <2>4 DEF SizesRight
  <1>25. PICK G : G = AllOf(old)
    OBVIOUS
  <1>26. /\ freelist' = freelist \cup G /\ lost' = lost
         /\ twice' = (twice \/ G \cap freelist # {})
    BY <1>7, <1>25 DEF Kfree
  <1>27. G \cap freelist = {} /\ \E K1, A1, B1 : Owned(K1, A1, B1)'
    <2>1. PICK S : S = {}
      OBVIOUS
    <2>2. S \subseteq Slots /\ \A n \in S : kstack[n] # 0
      BY <2>1
    <2>3. Unstacked(S)
      BY <1>1, <1>7, <2>1 DEF Unstacked
    <2>4. \A g : g \in G <=> g \in Stacks(S) \/ \E x \in D : g \in AllOf(x)
      BY <1>5, <1>25, <2>1 DEF Stacks
    <2>5. D \subseteq DOMAIN spaces
      BY <1>5, <1>9
    <2>6. SameGot
      BY <1>10, <1>19 DEF SameGot, Got
    <2> QED BY <1>1, <1>2, <1>15, <1>26, <2>2, <2>3, <2>4, <2>5, <2>6, GivesSpaces
  <1> QED BY <1>1, <1>7, <1>18, <1>23, <1>24, <1>26, <1>27 DEF MemInv

\* exit and wait: the last of a space takes the space with it.
LEMMA EndKeeps ==
  ASSUME NEW p, Standing(p), End(p)
  PROVE  MemInv'
  <1>1. /\ SpacesTyped /\ SlotsTyped /\ CallsTyped /\ SlotsRight /\ SizesRight /\ ~stopped /\ ~twice
        /\ MemoryAssumption /\ p \in Slots
        /\ kstack \in [Slots -> Nat] /\ pgdir \in [Slots -> Nat]
        /\ sz \in [Slots -> 0 .. USERTOP] /\ thread \in [Slots -> BOOLEAN]
        /\ \A q \in Slots : Settled(q) /\ BuildsOwn(q) /\ ForksOwn(q) /\ ExecAlone(q) /\ Sized(q)
    BY BeforeFacts
  <1>2. PICK K, A, B : Owned(K, A, B)
    BY BeforeFacts
  <1>3. PICK old : old = pgdir[p]
    OBVIOUS
  <1>4. PICK D : D = IF thread[p] THEN {} ELSE {old}
    OBVIOUS
  <1>5. PICK S : S = {p}
    OBVIOUS
  <1>6. PICK G : G = IF thread[p] THEN {kstack[p]} ELSE {kstack[p]} \cup AllOf(old)
    OBVIOUS
  <1>7. /\ pgdir[p] # 0 /\ call[p] = NoCall
        /\ Kfree(G)
        /\ kstack' = [kstack EXCEPT ![p] = 0] /\ pgdir' = [pgdir EXCEPT ![p] = 0]
        /\ sz' = [sz EXCEPT ![p] = 0] /\ thread' = [thread EXCEPT ![p] = FALSE]
        /\ UNCHANGED << call, stopped >>
    BY <1>3, <1>6 DEF End
  <1>8. old \in DOMAIN spaces /\ kstack[p] # 0 /\ call[p].op = "none"
    <2>1. Settled(p) /\ pgdir[p] # 0
      BY <1>1, <1>7
    <2>2. old \in DOMAIN spaces /\ kstack[p] # 0
      BY <1>3, <2>1 DEF Settled
    <2>3. call[p].op = "none"
      BY <1>7 DEF NoCall
    <2> QED BY <2>2, <2>3
  <1>9. SpacesTyped' /\ LeftOut(D)
    <2>1. CASE thread[p]
      <3>1. spaces' = spaces
        BY <2>1 DEF End
      <3> QED BY <1>1, <1>4, <2>1, <3>1 DEF SpacesTyped, LeftOut
    <2>2. CASE ~thread[p]
      <3>1. spaces' = SpacesBut(D)
        BY <1>3, <1>4, <2>2 DEF End
      <3> QED BY <1>1, <3>1, LeftOutView
    <2> QED BY <2>1, <2>2
  <1>10. \A q \in Slots : q # p => pgdir[q] \notin D
    <2>1. ~thread[p] => SameSpace(p) = {p}
      BY DEF End
    <2> QED BY <1>3, <1>4, <2>1 DEF SameSpace
  <1>11. \A q \in Slots : Builds(q) /\ Ready(q) => New(q) \notin D
    BY <1>1, <1>3, <1>4 DEF BuildsOwn
  <1>12. /\ kstack' \in [Slots -> Nat] /\ pgdir' \in [Slots -> Nat]
         /\ sz' \in [Slots -> 0 .. USERTOP] /\ thread' \in [Slots -> BOOLEAN]
    <2>1. 0 \in 0 .. USERTOP
      BY <1>1, MemNumbers
    <2> QED BY <1>1, <1>7, <2>1
  <1>13. /\ pgdir'[p] = 0 /\ \A q \in Slots : q # p => pgdir'[q] = pgdir[q]
         /\ \A q \in Slots : q # p => sz'[q] = sz[q]
         /\ \A q \in Slots : q # p => kstack'[q] = kstack[q]
    <2>1. pgdir'[p] = 0 /\ \A q \in Slots : q # p => pgdir'[q] = pgdir[q]
      BY <1>1, <1>7
    <2>2. \A q \in Slots : q # p => sz'[q] = sz[q]
      BY <1>1, <1>7
    <2>3. \A q \in Slots : q # p => kstack'[q] = kstack[q]
      BY <1>1, <1>7
    <2> QED BY <2>1, <2>2, <2>3
  <1>14. MemTyped'
    BY <1>1, <1>7, <1>9, <1>12 DEF MemTyped, SlotsTyped, CallsTyped
  <1>15. \A q \in Slots : /\ Builds(q)' = Builds(q) /\ Ready(q)' = Ready(q) /\ New(q)' = New(q)
                         /\ IsFork(q)' = IsFork(q) /\ Got(q)' = Got(q)
    BY <1>7 DEF Builds, Ready, New, IsFork, Got
  <1>16. /\ DOMAIN spaces' = DOMAIN spaces \ D
         /\ \A x \in DOMAIN spaces : x \notin D => spaces'[x] = spaces[x]
    BY <1>9 DEF LeftOut
  <1>17. SlotsRight'
    <2>1. ASSUME NEW q \in Slots PROVE Settled(q)'
      <3>1. CASE q = p
        BY <1>7, <1>13, <3>1 DEF Settled
      <3>2. CASE q # p
        <4>1. Settled(q)
          BY <1>1
        <4> QED BY <1>1, <1>7, <1>10, <1>13, <1>16, <3>2, <4>1 DEF Settled
      <3> QED BY <3>1, <3>2
    <2>2. ASSUME NEW q \in Slots PROVE ExecAlone(q)'
      <3>1. CASE q = p
        BY <1>7, <1>8, <3>1 DEF ExecAlone
      <3>2. CASE q # p
        <4>1. ExecAlone(q) /\ (call[q].op = "exec" => pgdir[q] # 0)
          BY <1>1 DEF Settled, NoCall
        <4> QED BY <1>7, <1>13, <3>2, <4>1 DEF ExecAlone
      <3> QED BY <3>1, <3>2
    <2>3. ASSUME NEW q \in Slots PROVE BuildsOwn(q)'
      <3>1. BuildsOwn(q)
        BY <1>1
      <3>2. Builds(q) /\ Ready(q) => New(q) # 0
        <4>1. \A x \in DOMAIN spaces : x # 0
          BY <1>1, <1>2, MemNumbers DEF Owned, ListsOwned
        <4> QED BY <3>1, <4>1 DEF BuildsOwn
      <3> QED BY <1>7, <1>11, <1>13, <1>15, <1>16, <3>1, <3>2 DEF BuildsOwn
    <2>4. ASSUME NEW q \in Slots PROVE ForksOwn(q)'
      <3>1. ForksOwn(q)
        BY <1>1
      <3>2. IsFork(q) => call[q].np \in Slots /\ call[q].np # p
        BY <1>1, <1>7, <3>1, CallFields DEF IsFork, ForksOwn
      <3> QED BY <1>7, <1>13, <1>15, <3>1, <3>2 DEF ForksOwn
    <2> QED BY <2>1, <2>2, <2>3, <2>4 DEF SlotsRight
  <1>18. SizesRight'
    <2>1. ASSUME NEW q \in Slots, q # p PROVE Sized(q)'
      <3>1. Sized(q) /\ Settled(q) /\ BuildsOwn(q)
        BY <1>1
      <3>2. Alike(q)
        BY <1>7, <1>10, <1>11, <1>13, <1>16, <2>1, <3>1 DEF Alike, Settled, BuildsOwn
      <3>3. pgdir[q] # 0 /\ SbrkIn(pgdir[q]) => SbrkIn(pgdir[q])'
        BY <1>7, <1>8, <1>13, <2>1 DEF SbrkIn
      <3> QED BY <3>1, <3>2, <3>3, SizeStays
    <2>2. Sized(p)'
      BY <1>7, <1>8, <1>13 DEF Sized, RestSize, SbrkSize, ForkSize, BuildSize, Builds, IsFork
    <2> QED BY <2>1, <2>2 DEF SizesRight
  <1>19. /\ freelist' = freelist \cup G /\ lost' = lost
         /\ twice' = (twice \/ G \cap freelist # {})
    BY <1>7 DEF Kfree
  <1>20. G \cap freelist = {} /\ \E K1, A1, B1 : Owned(K1, A1, B1)'
    <2>1. S \subseteq Slots /\ \A n \in S : kstack[n] # 0
      BY <1>1, <1>5, <1>8
    <2>2. Unstacked(S)
      BY <1>1, <1>5, <1>7 DEF Unstacked
    <2>3. \A g : g \in G <=> g \in Stacks(S) \/ \E x \in D : g \in AllOf(x)
      BY <1>4, <1>5, <1>6 DEF Stacks
    <2>4. D \subseteq DOMAIN spaces
      BY <1>4, <1>8
    <2>5. SameGot
      BY <1>15 DEF SameGot
    <2> QED BY <1>1, <1>2, <1>9, <1>19, <2>1, <2>2, <2>3, <2>4, <2>5, GivesSpaces
  <1> QED BY <1>1, <1>7, <1>14, <1>17, <1>18, <1>19, <1>20 DEF MemInv

---------------------------------------------------------------------------
(* All steps. *)

LEMMA MemNextKeeps ==
  ASSUME MemoryAssumption, MemInv, [MemNext]_memvars
  PROVE  MemInv'
  <1>1. CASE MemNext
    <2>1. PICK p \in Slots :
            \/ \E n \in Sbrk : BeginSbrk(p, n)
            \/ Grow(p) \/ Shrink(p) \/ EndSbrk(p)
            \/ BeginFork(p) \/ Clone(p) \/ \E size \in Images : BeginExec(p, size)
            \/ Setupkvm(p) \/ Build(p) \/ EndFork(p) \/ EndExec(p) \/ End(p)
      BY <1>1 DEF MemNext
    <2>2. Standing(p)
      BY <1>1 DEF MemNext, Standing
    <2>3. CASE \E n \in Sbrk : BeginSbrk(p, n)
      BY <2>2, <2>3, BeginSbrkKeeps
    <2>4. CASE Grow(p)
      BY <2>2, <2>4, GrowFails, GrowTakes
    <2>5. CASE Shrink(p)
      BY <2>2, <2>5, ShrinkKeeps
    <2>6. CASE EndSbrk(p)
      BY <2>2, <2>6, EndSbrkKeeps
    <2>7. CASE BeginFork(p)
      BY <2>2, <2>7, BeginForkKeeps
    <2>8. CASE Clone(p)
      BY <2>2, <2>8, CloneKeeps
    <2>9. CASE \E size \in Images : BeginExec(p, size)
      BY <2>2, <2>9, BeginExecKeeps
    <2>10. CASE Setupkvm(p)
      BY <2>2, <2>10, SetupFails, SetupTakes
    <2>11. CASE Build(p)
      BY <2>2, <2>11, CopyFails, CopyTakes
    <2>12. CASE EndFork(p)
      BY <2>2, <2>12, EndForkKeeps
    <2>13. CASE EndExec(p)
      BY <2>2, <2>13, EndExecKeeps
    <2>14. CASE End(p)
      BY <2>2, <2>14, EndKeeps
    <2> QED BY <2>1, <2>3, <2>4, <2>5, <2>6, <2>7, <2>8, <2>9, <2>10, <2>11, <2>12, <2>13, <2>14
  <1>2. CASE UNCHANGED memvars
    <2>1. UNCHANGED << freelist, spaces, lost, twice, kstack, pgdir, sz, thread, call, stopped >>
      BY <1>2 DEF memvars, tables, slotvars
    <2>2. MemTyped'
      BY <2>1 DEF MemInv, MemTyped, SpacesTyped, SlotsTyped, CallsTyped
    <2>3. SlotsRight'
      BY <2>1 DEF MemInv, SlotsRight, Settled, ExecAlone, BuildsOwn, ForksOwn, Builds, Ready, New, IsFork
    <2>4. ~Racing' => SizesRight'
      <3>1. Racing' = Racing
        BY <2>1 DEF Racing
      <3>2. SizesRight => SizesRight'
        BY <2>1 DEF SizesRight, Sized, RestSize, SbrkSize, ForkSize, BuildSize, Builds, Ready, New, IsFork
      <3> QED BY <3>1, <3>2 DEF MemInv
    <2>5. \E K, A, B : Owned(K, A, B)'
      <3>1. SameGot
        BY <2>1 DEF SameGot, Got, Builds, Ready
      <3>2. PICK K, A, B : Owned(K, A, B)
        BY DEF MemInv
      <3> QED BY <2>1, <3>1, <3>2, OwnedSame
    <2> QED BY <2>1, <2>2, <2>3, <2>4, <2>5 DEF MemInv
  <1> QED BY <1>1, <1>2

\* userinit's process, alone with its pages.
LEMMA MemInitInv == MemoryAssumption /\ MemInit => MemInv
  <1> SUFFICES ASSUME MemoryAssumption, MemInit PROVE MemInv
    OBVIOUS
  <1>1. PICK d : d = Min(Frame)
    OBVIOUS
  <1>2. PICK p0 : p0 = InitSlot
    OBVIOUS
  <1>3. PICK T : T = d + 3 .. d + 2 + NTables
    OBVIOUS
  <1>4. /\ spaces = Extended(<< >>, d, Space(T, Extended(<< >>, 0, d + 2)))
        /\ freelist = Frame \ d .. d + 2 + NTables
        /\ kstack = [p \in Slots |-> IF p = p0 THEN d + 1 ELSE 0]
        /\ pgdir = [p \in Slots |-> IF p = p0 THEN d ELSE 0]
        /\ sz = [p \in Slots |-> IF p = p0 THEN PGSIZE ELSE 0]
        /\ thread = [p \in Slots |-> FALSE]
        /\ call = [p \in Slots |-> NoCall]
        /\ lost = {} /\ ~twice /\ ~stopped
    BY <1>1, <1>2, <1>3 DEF MemInit
  <1>5. /\ PGSIZE \in Nat \ {0} /\ NTables \in Nat /\ USERTOP \in Nat /\ PGSIZE <= USERTOP
        /\ Frame \subseteq Nat \ {0} /\ Slots \subseteq Nat
    BY MemNumbers
  <1>6. p0 \in Slots
    BY <1>2, <1>5, MinInSet DEF InitSlot, MemoryAssumption
  <1>7. d \in Frame /\ d \in Nat /\ d # 0 /\ d .. d + 2 + NTables \subseteq Frame
    BY <1>1, <1>5, MinInSet DEF MemoryAssumption
  <1>8. /\ d + 1 \in Frame /\ d + 2 \in Frame /\ T \subseteq Frame /\ T \subseteq Nat
        /\ d + 1 \in Nat /\ d + 2 \in Nat /\ d + 1 # 0
        /\ \A f \in T : f # d /\ f # d + 1 /\ f # d + 2
        /\ \A f \in Frame : f \in freelist <=> f # d /\ f # d + 1 /\ f # d + 2 /\ f \notin T
    BY <1>3, <1>4, <1>5, <1>7
  <1>9. PICK mp : mp = Extended(<< >>, 0, d + 2)
    OBVIOUS
  <1>10. DOMAIN mp = {0} /\ mp[0] = d + 2
    <2>1. DOMAIN << >> = {}
      OBVIOUS
    <2> QED BY <1>9, <2>1 DEF Extended
  <1>11. /\ DOMAIN spaces = {d} /\ spaces[d] = [tables |-> T, map |-> mp, emptied |-> FALSE]
         /\ spaces = [c \in DOMAIN spaces |-> spaces[c]]
    <2>1. DOMAIN << >> = {}
      OBVIOUS
    <2>2. spaces = Extended(<< >>, d, Space(T, mp))
      BY <1>4, <1>9
    <2>3. DOMAIN spaces = {d} /\ spaces[d] = Space(T, mp)
      <3>1. PICK sp : sp = Space(T, mp)
        OBVIOUS
      <3>2. spaces = Extended(<< >>, d, sp)
        BY <2>2, <3>1
      <3>3. DOMAIN spaces = {d} /\ spaces[d] = sp
        BY <2>1, <3>2 DEF Extended
      <3> QED BY <3>1, <3>3
    <2>4. spaces = [c \in DOMAIN spaces |-> spaces[c]]
      BY <2>2 DEF Extended
    <2> QED BY <2>3, <2>4 DEF Space
  <1>12. spaces[d].tables = T /\ spaces[d].map = mp /\ spaces[d].emptied = FALSE
    BY <1>11
  <1>13. MemTyped
    <2>1. SpacesTyped
      BY <1>11, <1>12 DEF SpacesTyped
    <2>2. kstack \in [Slots -> Nat] /\ pgdir \in [Slots -> Nat]
      BY <1>4, <1>7, <1>8
    <2>3. sz \in [Slots -> 0 .. USERTOP] /\ thread \in [Slots -> BOOLEAN]
      BY <1>4, <1>5
    <2>4. CallsTyped
      BY <1>4 DEF CallsTyped
    <2> QED BY <2>1, <2>2, <2>3, <2>4 DEF MemTyped, SlotsTyped
  <1>14. \A p \in Slots : call[p] = NoCall
    BY <1>4
  <1>18. NoCall.op = "none"
    BY DEF NoCall
  <1>19. \A p \in Slots : call[p].op = "none" /\ ~Builds(p) /\ ~IsFork(p) /\ Got(p) = << >>
    BY <1>14, <1>18 DEF Builds, IsFork, Got
  <1>20. pgdir[p0] = d /\ kstack[p0] = d + 1 /\ sz[p0] = PGSIZE
    BY <1>4, <1>6
  <1>21. \A p \in Slots : p # p0 => pgdir[p] = 0 /\ kstack[p] = 0
    BY <1>4
  <1>15. SlotsRight
    <2>1. Settled(p0)
      <3>1. d \in DOMAIN spaces
        BY <1>11
      <3>2. \A q \in Slots : pgdir[q] = d => q = p0
        BY <1>7, <1>21
      <3> QED BY <1>7, <1>8, <1>20, <3>1, <3>2 DEF Settled
    <2>2. ASSUME NEW p \in Slots, p # p0 PROVE Settled(p)
      BY <1>14, <1>21, <2>2 DEF Settled
    <2>3. ASSUME NEW p \in Slots PROVE Settled(p) /\ ExecAlone(p) /\ BuildsOwn(p) /\ ForksOwn(p)
      BY <1>19, <2>1, <2>2 DEF ExecAlone, BuildsOwn, ForksOwn
    <2> QED BY <2>3 DEF SlotsRight
  <1>16. SizesRight
    <2>1. Pages(PGSIZE) = 1
      <3>1. /\ Pages(PGSIZE) \in Nat /\ (0 * PGSIZE < PGSIZE <=> 0 < Pages(PGSIZE))
            /\ (1 * PGSIZE < PGSIZE <=> 1 < Pages(PGSIZE))
        BY <1>5, PagesBelow
      <3>2. 0 * PGSIZE = 0 /\ 1 * PGSIZE = PGSIZE
        BY <1>5
      <3> QED BY <1>5, <3>1, <3>2
    <2>2. ASSUME NEW p \in Slots PROVE RestSize(p)
      <3>1. CASE p = p0
        <4>1. pgdir[p] = d /\ Pages(sz[p]) = 1
          BY <1>20, <2>1, <3>1
        <4>2. spaces[d].map = mp /\ DOMAIN mp = 0 .. 1 - 1
          BY <1>10, <1>12
        <4> QED BY <4>1, <4>2 DEF RestSize
      <3>2. CASE p # p0
        BY <1>21, <3>2 DEF RestSize
      <3> QED BY <3>1, <3>2
    <2>3. ASSUME NEW p \in Slots PROVE SbrkSize(p) /\ ForkSize(p) /\ BuildSize(p)
      BY <1>19 DEF SbrkSize, ForkSize, BuildSize
    <2> QED BY <2>2, <2>3 DEF SizesRight, Sized
  <1>17. \E K, A, B : Owned(K, A, B)
    <2> DEFINE K == [f \in Frame |-> IF f = d THEN "dir" ELSE IF f = d + 1 THEN "stack"
                     ELSE IF f = d + 2 THEN "user" ELSE IF f \in T THEN "table" ELSE "free"]
               A == [f \in Frame |-> IF f = d + 1 THEN p0 ELSE d]
               B == [f \in Frame |-> 0]
    <2>1. /\ K \in [Frame -> Kinds] /\ A \in [Frame -> Nat] /\ B \in [Frame -> Nat]
      BY <1>5, <1>6, <1>7 DEF Kinds
    <2>2. \A f \in Frame :
            /\ K[f] = IF f = d THEN "dir" ELSE IF f = d + 1 THEN "stack"
                     ELSE IF f = d + 2 THEN "user" ELSE IF f \in T THEN "table" ELSE "free"
            /\ A[f] = IF f = d + 1 THEN p0 ELSE d
            /\ B[f] = 0
      OBVIOUS
    <2>3. d # d + 1 /\ d # d + 2 /\ d + 1 # d + 2
      BY <1>7
    <2> HIDE DEF K, A, B
    <2>4. ListsOwned(K)
      <3>1. freelist \subseteq Frame /\ lost = {} /\ DOMAIN spaces = {d}
        BY <1>4, <1>11
      <3>2. ASSUME NEW f \in Frame
            PROVE  /\ K[f] = "free" <=> f \in freelist
                   /\ K[f] # "lost" /\ (K[f] = "dir" <=> f = d)
        BY <1>8, <2>2, <2>3
      <3> QED BY <1>7, <3>1, <3>2 DEF ListsOwned
    <2>5. TablesOwned(K, A)
      <3>1. ASSUME NEW f \in T PROVE f \in Frame /\ K[f] = "table" /\ A[f] = d
        BY <1>8, <2>2
      <3>2. ASSUME NEW f \in Frame, K[f] = "table" PROVE f \in T /\ A[f] = d
        BY <2>2, <2>3, <3>2
      <3> QED BY <1>11, <1>12, <3>1, <3>2 DEF TablesOwned
    <2>6. UsersOwned(K, A, B)
      <3>1. K[d + 2] = "user" /\ A[d + 2] = d /\ B[d + 2] = 0 /\ d + 2 \in Frame
        BY <1>8, <2>2, <2>3
      <3>2. ASSUME NEW f \in Frame, K[f] = "user" PROVE f = d + 2
        BY <2>2, <3>2
      <3> QED BY <1>10, <1>11, <1>12, <3>1, <3>2 DEF UsersOwned
    <2>7. StacksOwned(K, A)
      <3>1. K[d + 1] = "stack" /\ A[d + 1] = p0 /\ d + 1 \in Frame
        BY <1>8, <2>2, <2>3
      <3>2. ASSUME NEW f \in Frame, K[f] = "stack" PROVE f = d + 1
        BY <2>2, <3>2
      <3> QED BY <1>6, <1>20, <1>21, <3>1, <3>2 DEF StacksOwned
    <2>8. SetupOwned(K, A, B)
      <3>1. \A f \in Frame : K[f] # "setup"
        BY <2>2
      <3>2. \A p \in Slots : 1 .. Len(Got(p)) = {}
        BY <1>19
      <3> QED BY <3>1, <3>2 DEF SetupOwned
    <2> QED BY <2>1, <2>4, <2>5, <2>6, <2>7, <2>8 DEF Owned
  <1> QED BY <1>4, <1>13, <1>15, <1>16, <1>17 DEF MemInv

---------------------------------------------------------------------------
(* The pages are held by as many places as there are pages. *)

\* Held has one place for every page, named by that page.
LEMMA HeldPlaces ==
  ASSUME MemoryAssumption, NEW K, NEW A, NEW B, Owned(K, A, B), CallsTyped
  PROVE  \E P : /\ DOMAIN P = Frame /\ Held = {P[f] : f \in Frame}
                /\ \A f \in Frame : P[f][4] = f
  <1> DEFINE PA == [f \in Frame |-> IF K[f] \in {"free", "lost"} THEN 0
                                    ELSE IF K[f] = "dir" THEN f ELSE A[f]]
             PB == [f \in Frame |-> IF K[f] = "user" THEN B[f] ELSE 0]
             P == [f \in Frame |-> << K[f], PA[f], PB[f], f >>]
  <1>1. /\ K \in [Frame -> Kinds]
        /\ ListsOwned(K) /\ TablesOwned(K, A) /\ UsersOwned(K, A, B)
        /\ StacksOwned(K, A) /\ SetupOwned(K, A, B)
    BY DEF Owned
  <1>2. \A f \in Frame : P[f] = << K[f], PA[f], PB[f], f >> /\ P[f][4] = f
    OBVIOUS
  <1>3. \A f \in Frame : /\ PA[f] = IF K[f] \in {"free", "lost"} THEN 0
                                    ELSE IF K[f] = "dir" THEN f ELSE A[f]
                        /\ PB[f] = IF K[f] = "user" THEN B[f] ELSE 0
    OBVIOUS
  <1>4. DOMAIN P = Frame
    OBVIOUS
  <1> DEFINE H1 == FreePlaces
             H2 == LostPlaces
             H3 == DirPlaces
             H4 == TablePlaces
             H5 == UserPlaces
             H6 == StackPlaces
             H7 == SetupPlaces
  <1>5. Held = H1 \cup H2 \cup H3 \cup H4 \cup H5 \cup H6 \cup H7
    BY DEF Held
  <1> HIDE DEF PA, PB, P
  <1>6. ASSUME NEW p \in Slots, Builds(p), ~Ready(p)
        PROVE  \A f : f \in Range(call[p].got) <=> \E i \in 1 .. Len(Got(p)) : f = Got(p)[i]
    <2>1. Got(p) = call[p].got /\ call[p].got \in Seq(Frame)
      BY <1>6, CallFields DEF Got, Builds
    <2>2. DOMAIN call[p].got = 1 .. Len(call[p].got)
      BY <2>1
    <2> QED BY <2>1, <2>2 DEF Range
  <1>7. H1 \cup H2 \cup H3 \cup H4 \cup H5 \cup H6 \cup H7 \subseteq {P[f] : f \in Frame}
    <2>1. ASSUME NEW h \in H1 PROVE h \in {P[f] : f \in Frame}
      <3>1. PICK f \in freelist : h = << "free", 0, 0, f >>
        BY <2>1 DEF FreePlaces
      <3>2. f \in Frame /\ K[f] = "free"
        BY <1>1 DEF ListsOwned
      <3>3. PA[f] = 0 /\ PB[f] = 0
        BY <1>3, <3>2
      <3> QED BY <1>2, <3>1, <3>2, <3>3
    <2>2. ASSUME NEW h \in H2 PROVE h \in {P[f] : f \in Frame}
      <3>1. PICK f \in lost : h = << "lost", 0, 0, f >>
        BY <2>2 DEF LostPlaces
      <3>2. f \in Frame /\ K[f] = "lost"
        BY <1>1 DEF ListsOwned
      <3>3. PA[f] = 0 /\ PB[f] = 0
        BY <1>3, <3>2
      <3> QED BY <1>2, <3>1, <3>2, <3>3
    <2>3. ASSUME NEW h \in H3 PROVE h \in {P[f] : f \in Frame}
      <3>1. PICK f \in DOMAIN spaces : h = << "dir", f, 0, f >>
        BY <2>3 DEF DirPlaces
      <3>2. f \in Frame /\ K[f] = "dir"
        BY <1>1 DEF ListsOwned
      <3>3. PA[f] = f /\ PB[f] = 0
        BY <1>3, <3>2
      <3>4. P[f] = h
        BY <1>2, <3>1, <3>2, <3>3
      <3> QED BY <3>2, <3>4
    <2>4. ASSUME NEW h \in H4 PROVE h \in {P[f] : f \in Frame}
      <3>1. PICK d \in DOMAIN spaces : h \in {<< "table", d, 0, f >> : f \in spaces[d].tables}
        BY <2>4 DEF TablePlaces
      <3>2. PICK f \in spaces[d].tables : h = << "table", d, 0, f >>
        BY <3>1
      <3>3. f \in Frame /\ K[f] = "table" /\ A[f] = d
        BY <1>1, <3>2 DEF TablesOwned
      <3>4. PA[f] = d /\ PB[f] = 0
        BY <1>3, <3>3
      <3> QED BY <1>2, <3>2, <3>3, <3>4
    <2>5. ASSUME NEW h \in H5 PROVE h \in {P[f] : f \in Frame}
      <3>1. PICK d \in DOMAIN spaces :
              h \in {<< "user", d, v, spaces[d].map[v] >> : v \in DOMAIN spaces[d].map}
        BY <2>5 DEF UserPlaces
      <3>2. PICK v \in DOMAIN spaces[d].map : h = << "user", d, v, spaces[d].map[v] >>
        BY <3>1
      <3>3. PICK f : f = spaces[d].map[v]
        OBVIOUS
      <3>4. f \in Frame /\ K[f] = "user" /\ A[f] = d /\ B[f] = v
        BY <1>1, <3>2, <3>3 DEF UsersOwned
      <3>5. PA[f] = d /\ PB[f] = v
        BY <1>3, <3>4
      <3> QED BY <1>2, <3>2, <3>3, <3>4, <3>5
    <2>6. ASSUME NEW h \in H6 PROVE h \in {P[f] : f \in Frame}
      <3>1. PICK p \in Slots \ Unused : h = << "stack", p, 0, kstack[p] >>
        BY <2>6 DEF StackPlaces
      <3>2. PICK f : f = kstack[p]
        OBVIOUS
      <3>3. f \in Frame /\ K[f] = "stack" /\ A[f] = p
        BY <1>1, <3>1, <3>2 DEF StacksOwned, Unused
      <3>4. PA[f] = p /\ PB[f] = 0
        BY <1>3, <3>3
      <3>5. P[f] = h
        BY <1>2, <3>1, <3>2, <3>3, <3>4
      <3> QED BY <3>3, <3>5
    <2>7. ASSUME NEW h \in H7 PROVE h \in {P[f] : f \in Frame}
      <3>1. PICK p \in {q \in Slots : Builds(q) /\ ~Ready(q)} :
              h \in {<< "setup", p, 0, f >> : f \in Range(call[p].got)}
        BY <2>7 DEF SetupPlaces
      <3>2. PICK f \in Range(call[p].got) : h = << "setup", p, 0, f >>
        BY <3>1
      <3>5. p \in Slots /\ Builds(p) /\ ~Ready(p)
        BY <3>1
      <3>6. PICK i \in 1 .. Len(Got(p)) : f = Got(p)[i]
        BY <1>6, <3>2, <3>5
      <3>3. f \in Frame /\ K[f] = "setup" /\ A[f] = p
        BY <1>1, <3>5, <3>6 DEF SetupOwned
      <3>4. PA[f] = p /\ PB[f] = 0
        BY <1>3, <3>3
      <3>7. P[f] = h
        BY <1>2, <3>2, <3>3, <3>4
      <3> QED BY <3>3, <3>7
    <2> HIDE DEF H1, H2, H3, H4, H5, H6, H7
    <2> QED BY <2>1, <2>2, <2>3, <2>4, <2>5, <2>6, <2>7
  <1>8. ASSUME NEW f \in Frame
        PROVE  P[f] \in H1 \cup H2 \cup H3 \cup H4 \cup H5 \cup H6 \cup H7
    <2>1. CASE K[f] = "free"
      <3>1. f \in freelist /\ P[f] = << "free", 0, 0, f >>
        BY <1>1, <1>2, <1>3, <2>1 DEF ListsOwned
      <3> QED BY <3>1 DEF FreePlaces
    <2>2. CASE K[f] = "lost"
      <3>1. f \in lost /\ P[f] = << "lost", 0, 0, f >>
        BY <1>1, <1>2, <1>3, <2>2 DEF ListsOwned
      <3> QED BY <3>1 DEF LostPlaces
    <2>3. CASE K[f] = "dir"
      <3>1. f \in DOMAIN spaces /\ P[f] = << "dir", f, 0, f >>
        BY <1>1, <1>2, <1>3, <2>3 DEF ListsOwned
      <3> QED BY <3>1 DEF DirPlaces
    <2>4. CASE K[f] = "table"
      <3>1. /\ A[f] \in DOMAIN spaces /\ f \in spaces[A[f]].tables
            /\ P[f] = << "table", A[f], 0, f >>
        BY <1>1, <1>2, <1>3, <2>4 DEF TablesOwned
      <3> QED BY <3>1 DEF TablePlaces
    <2>5. CASE K[f] = "user"
      <3>1. /\ A[f] \in DOMAIN spaces /\ B[f] \in DOMAIN spaces[A[f]].map
            /\ spaces[A[f]].map[B[f]] = f /\ P[f] = << "user", A[f], B[f], f >>
        BY <1>1, <1>2, <1>3, <2>5 DEF UsersOwned
      <3> QED BY <3>1 DEF UserPlaces
    <2>6. CASE K[f] = "stack"
      <3>1. A[f] \in Slots /\ kstack[A[f]] = f /\ P[f] = << "stack", A[f], 0, f >>
        BY <1>1, <1>2, <1>3, <2>6 DEF StacksOwned
      <3>2. A[f] \in Slots \ Unused
        BY <3>1, MemNumbers DEF Unused
      <3> QED BY <3>1, <3>2 DEF StackPlaces
    <2>7. CASE K[f] = "setup"
      <3>1. /\ A[f] \in Slots /\ B[f] \in 1 .. Len(Got(A[f])) /\ Got(A[f])[B[f]] = f
            /\ P[f] = << "setup", A[f], 0, f >>
        BY <1>1, <1>2, <1>3, <2>7 DEF SetupOwned
      <3>2. Builds(A[f]) /\ ~Ready(A[f])
        BY <3>1 DEF Got
      <3>3. f \in Range(call[A[f]].got)
        BY <1>6, <3>1, <3>2
      <3> QED BY <3>1, <3>2, <3>3 DEF SetupPlaces
    <2> HIDE DEF H1, H2, H3, H4, H5, H6, H7
    <2> QED BY <1>1, <2>1, <2>2, <2>3, <2>4, <2>5, <2>6, <2>7 DEF Kinds
  <1> HIDE DEF H1, H2, H3, H4, H5, H6, H7
  <1>9. Held = {P[f] : f \in Frame}
    BY <1>5, <1>7, <1>8
  <1> QED BY <1>2, <1>4, <1>9

\* The property is what the invariant says, with the places counted.
LEMMA MemInvHolds == MemoryAssumption /\ MemInv => MemoryInOrder
  <1> SUFFICES ASSUME MemoryAssumption, MemInv, ~Racing
               PROVE  /\ ~stopped /\ ~twice
                      /\ Cardinality(Held) = Cardinality(Frame)
                      /\ {h[4] : h \in Held} = Frame
                      /\ \A p \in Slots :
                           /\ pgdir[p] # 0
                           /\ ~spaces[pgdir[p]].emptied
                           /\ \A q \in SameSpace(p) : call[q].op # "sbrk"
                           => DOMAIN spaces[pgdir[p]].map = 0 .. Pages(sz[p]) - 1
    BY DEF MemoryInOrder
  <1>1. ~stopped /\ ~twice /\ CallsTyped /\ SizesRight
    BY DEF MemInv, MemTyped
  <1>2. PICK K, A, B : Owned(K, A, B)
    BY DEF MemInv
  <1>3. PICK P : /\ DOMAIN P = Frame /\ Held = {P[f] : f \in Frame}
                 /\ \A f \in Frame : P[f][4] = f
    BY <1>1, <1>2, HeldPlaces
  <1>4. {h[4] : h \in Held} = Frame
    <2>1. ASSUME NEW h \in Held PROVE h[4] \in Frame
      <3>1. PICK f \in Frame : h = P[f]
        BY <1>3
      <3> QED BY <1>3, <3>1
    <2>2. ASSUME NEW f \in Frame PROVE \E h \in Held : h[4] = f
      <3>1. P[f] \in Held /\ P[f][4] = f
        BY <1>3
      <3> QED BY <3>1
    <2> QED BY <2>1, <2>2
  <1>5. Cardinality(Held) = Cardinality(Frame)
    <2>1. PICK F : F = [f \in Frame |-> P[f]]
      OBVIOUS
    <2>2. F \in [Frame -> Held] /\ \A f \in Frame : F[f][4] = f
      BY <1>3, <2>1
    <2>3. IsInjective(F)
      BY <2>1, <2>2 DEF IsInjective
    <2>4. \A h \in Held : \E f \in Frame : F[f] = h
      BY <1>3, <2>1
    <2>5. F \in Bijection(Frame, Held)
      BY <2>2, <2>3, <2>4 DEF Bijection, Injection, Surjection, IsInjective
    <2>6. IsFiniteSet(Frame)
      BY DEF MemoryAssumption
    <2> QED BY <2>5, <2>6, FS_Bijection DEF ExistsBijection
  <1>6. ASSUME NEW p \in Slots, pgdir[p] # 0, ~spaces[pgdir[p]].emptied,
               \A q \in SameSpace(p) : call[q].op # "sbrk"
        PROVE  DOMAIN spaces[pgdir[p]].map = 0 .. Pages(sz[p]) - 1
    <2>1. RestSize(p)
      BY <1>1 DEF SizesRight, Sized
    <2>2. \A q \in Slots : pgdir[q] = pgdir[p] => call[q].op # "sbrk"
      BY <1>6 DEF SameSpace
    <2> QED BY <1>6, <2>1, <2>2 DEF RestSize
  <1> QED BY <1>1, <1>4, <1>5, <1>6

(***************************************************************************)
(* Whatever fork, clone, exec, sbrk and exit do, one page at a time and    *)
(* with memory running out between any two, every page has exactly one     *)
(* place, none is freed twice, no assertion of mappages and copyuvm fails, *)
(* and a space has the pages below its size (kalloc.c, vm.c, growproc).    *)
(***************************************************************************)
THEOREM MemoryStaysInOrder == MemInit /\ [][MemNext]_memvars => []MemoryInOrder
  <1>1. MemInit => MemInv
    BY MemoryAssumption, MemInitInv
  <1>2. MemInv /\ [MemNext]_memvars => MemInv'
    BY MemoryAssumption, MemNextKeeps
  <1>3. MemInv => MemoryInOrder
    BY MemoryAssumption, MemInvHolds
  <1> QED BY <1>1, <1>2, <1>3, PTL

(***************************************************************************)
(* WebServer, for every pool of workers, every ring size, every set of     *)
(* descriptors and every number of clients.                                *)
(*                                                                         *)
(* The ring is FIFO only as long as no queued descriptor is closed, a      *)
(* worker's descriptor is its own only because the ring never hands one    *)
(* out twice, and `taken' is bounded only because what is taken was        *)
(* accepted: the three facts are inductive together, not one by one.       *)
(***************************************************************************)
\* The descriptors in the ring, at the main thread and at the workers are
\* descriptors, not the absent one.
DescriptorsPresent ==
  up => /\ \A i \in 0 .. count - 1 : Queued(i) \in Fd
        /\ mainpc # "accept" => connfd \in Fd
        /\ \A wk \in Worker : Busy(wk) => curr_fd[wk] \in Fd

\* The next descriptor goes behind the last queued one.
FilledIsTail == filled = (used + count) % nbuffers

IInv == /\ TypeOK /\ FilledIsTail /\ DescriptorsPresent
        /\ RingIsFifo /\ DescriptorHasOneOwner

(* The slot of the i-th queued descriptor. *)
LEMMA SlotOf ==
  ASSUME NEW u \in Slot, NEW i \in 0 .. nbuffers
  PROVE  /\ (u + i) % nbuffers = IF u + i < nbuffers THEN u + i
                                                     ELSE u + i - nbuffers
         /\ (u + i) % nbuffers \in Slot
  <1>1. nbuffers \in Nat \ {0} /\ u \in 0 .. nbuffers - 1
    BY ServerAssumption DEF Slot
  <1>2. (u + i) % nbuffers = IF u + i < nbuffers THEN u + i
                                                 ELSE u + i - nbuffers
    BY <1>1, Wrap
  <1> QED BY <1>1, <1>2 DEF Slot

LEMMA NextSlotValue ==
  ASSUME NEW u \in Slot
  PROVE  /\ NextSlot(u) = IF u = nbuffers - 1 THEN 0 ELSE u + 1
         /\ NextSlot(u) \in Slot
  <1>1. nbuffers \in Nat \ {0} /\ u \in 0 .. nbuffers - 1
    BY ServerAssumption DEF Slot
  <1> QED BY <1>1, SlotOf DEF NextSlot

USE DEF NoFd, Conn, MainPc, WorkerPc

LEMMA InitInv == Init => IInv
  <1> SUFFICES ASSUME Init PROVE IInv
    OBVIOUS
  <1> USE ServerAssumption DEF Init
  <1>1. 0 \in Slot
    BY DEF Slot
  <1>2. TypeOK
    <2>1. handed \in Seq(Nat)
      OBVIOUS
    <2> QED BY <1>1, <2>1 DEF TypeOK
  <1>3. FilledIsTail
    BY <1>1, SlotOf DEF FilledIsTail
  <1>4. DescriptorsPresent /\ RingIsFifo /\ DescriptorHasOneOwner
    BY DEF DescriptorsPresent, RingIsFifo, DescriptorHasOneOwner, Busy
  <1> QED BY <1>2, <1>3, <1>4 DEF IInv

(* When the process exits, only the closed descriptors change. *)
LEMMA ExitInv == ASSUME IInv, Exit PROVE IInv'
  <1>1. TypeOK'
    <2>1. conn' \in [Fd -> 0 .. MaxConn]
      BY ServerAssumption DEF Exit
    <2> QED BY <2>1 DEF IInv, TypeOK, Exit, ringvars
  <1>2. FilledIsTail'
    BY DEF IInv, FilledIsTail, Exit, ringvars
  <1>3. (DescriptorsPresent /\ RingIsFifo /\ DescriptorHasOneOwner)'
    BY DEF Exit, DescriptorsPresent, RingIsFifo, DescriptorHasOneOwner
  <1> QED BY <1>1, <1>2, <1>3 DEF IInv

(* Steps that leave the descriptors alone: they move program counters and   *)
(* CGI programs, and make no idle worker busy.                              *)
LEMMA PcInv ==
  ASSUME IInv,
         UNCHANGED << up, connfd, curr_fd, ringvars, conn, accepted, taken, handed >>,
         mainpc' \in MainPc, (mainpc' = "accept") <=> (mainpc = "accept"),
         wpc' \in [Worker -> WorkerPc],
         \A wk \in Worker : Busy(wk)' => Busy(wk),
         cgi' \in [Conn -> {"none", "running", "held", "zombie", "reaped"}],
         holds' \in [Conn -> SUBSET Conn]
  PROVE  IInv'
  <1>1. TypeOK'
    BY DEF IInv, TypeOK, ringvars
  <1>2. FilledIsTail'
    BY DEF IInv, FilledIsTail, ringvars
  <1>3. DescriptorsPresent'
    BY DEF IInv, DescriptorsPresent, Queued, ringvars
  <1>4. RingIsFifo'
    BY DEF IInv, RingIsFifo, Queued, ringvars
  <1>5. DescriptorHasOneOwner'
    BY DEF IInv, DescriptorHasOneOwner
  <1> QED BY <1>1, <1>2, <1>3, <1>4, <1>5 DEF IInv

LEMMA PcStepInv ==
  ASSUME IInv,
         \/ ProduceWait \/ SpuriousWakeup
         \/ \E wk \in Worker : \/ ConsumeWait(wk) \/ ServeStatic(wk)
                              \/ HeldByClient(wk)
  PROVE  IInv'
  <1>1. CASE ProduceWait
    BY <1>1, PcInv DEF ProduceWait, IInv, TypeOK, Busy, MainPc
  <1>2. CASE SpuriousWakeup
    BY <1>2, PcInv DEF SpuriousWakeup, IInv, TypeOK, Busy, MainPc, WorkerPc
  <1>3. ASSUME NEW wk \in Worker,
               ConsumeWait(wk) \/ ServeStatic(wk) \/ HeldByClient(wk)
        PROVE  IInv'
    BY <1>3, PcInv DEF ConsumeWait, ServeStatic, HeldByClient, IInv, TypeOK,
                       Busy, WorkerPc
  <1> QED BY <1>1, <1>2, <1>3

LEMMA CgiStepInv ==
  ASSUME IInv,
         \/ \E wk \in Worker : ServeDynamic(wk) \/ WaitAny(wk)
         \/ \E c \in Conn : CgiExit(c) \/ CgiHeld(c)
  PROVE  IInv'
  <1>1. ASSUME NEW wk \in Worker, ServeDynamic(wk) PROVE IInv'
    <2>1. conn[curr_fd[wk]] \in Conn
      <3>1. up /\ Busy(wk)
        BY <1>1 DEF ServeDynamic, Busy
      <3>2. conn[curr_fd[wk]] \in 1 .. taken /\ taken \in 0 .. MaxConn
        BY <3>1 DEF IInv, TypeOK, DescriptorHasOneOwner
      <3> QED BY <3>2, ServerAssumption DEF Conn
    <2>2. {conn[f] : f \in Fd} \ {0} \in SUBSET Conn
      BY DEF IInv, TypeOK, Conn
    <2>3. /\ cgi' \in [Conn -> {"none", "running", "held", "zombie", "reaped"}]
          /\ holds' \in [Conn -> SUBSET Conn]
          /\ wpc' \in [Worker -> WorkerPc]
          /\ \A v \in Worker : Busy(v)' => Busy(v)
      BY <1>1, <2>1, <2>2 DEF IInv, TypeOK, ServeDynamic, Busy, WorkerPc
    <2> QED BY <1>1, <2>3, PcInv DEF ServeDynamic, IInv, TypeOK
  <1>2. ASSUME NEW wk \in Worker, WaitAny(wk) PROVE IInv'
    <2>1. CASE Exit
      BY <2>1, ExitInv
    <2>2. CASE ~Exit
      <3>1. /\ cgi' \in [Conn -> {"none", "running", "held", "zombie", "reaped"}]
            /\ wpc' \in [Worker -> WorkerPc]
            /\ \A v \in Worker : Busy(v)' => Busy(v)
        BY <1>2, <2>2 DEF IInv, TypeOK, WaitAny, ReapOne, Busy, WorkerPc
      <3> QED BY <1>2, <2>2, <3>1, PcInv DEF WaitAny, IInv, TypeOK
    <2> QED BY <2>1, <2>2
  <1>3. ASSUME NEW c \in Conn, CgiExit(c) \/ CgiHeld(c) PROVE IInv'
    <2>1. /\ cgi' \in [Conn -> {"none", "running", "held", "zombie", "reaped"}]
          /\ holds' \in [Conn -> SUBSET Conn]
      BY <1>3 DEF IInv, TypeOK, CgiExit, CgiHeld
    <2> QED BY <1>3, <2>1, PcInv DEF CgiExit, CgiHeld, IInv, TypeOK, Busy
  <1> QED BY <1>1, <1>2, <1>3

LEMMA AcceptInv == ASSUME IInv, Accept PROVE IInv'
  <1> USE DEF Accept, ringvars
  <1>1. TypeOK'
    BY ServerAssumption DEF IInv, TypeOK
  <1>2. FilledIsTail'
    BY DEF IInv, FilledIsTail
  <1>3. DescriptorsPresent'
    BY ServerAssumption DEF IInv, TypeOK, DescriptorsPresent, Queued, Busy
  <1>4. RingIsFifo'
    BY ServerAssumption DEF IInv, TypeOK, RingIsFifo, DescriptorsPresent, Queued
  <1>5. DescriptorHasOneOwner'
    BY ServerAssumption
    DEF IInv, TypeOK, DescriptorsPresent, DescriptorHasOneOwner, Busy
  <1> QED BY <1>1, <1>2, <1>3, <1>4, <1>5 DEF IInv

(* A signal, or a spurious wakeup, moves a waiter to "lock". *)
LEMMA SignalFillKeeps ==
  ASSUME TypeOK, SignalFill
  PROVE  /\ wpc' \in [Worker -> WorkerPc]
         /\ \A wk \in Worker : Busy(wk)' <=> Busy(wk)
  BY DEF TypeOK, SignalFill, WakeAWorker, Busy

LEMMA ProduceInv == ASSUME IInv, Produce PROVE IInv'
  <1>1. /\ count \in 0 .. nbuffers - 1 /\ used \in Slot /\ filled \in Slot
        /\ filled = (used + count) % nbuffers
        /\ buffer \in [Slot -> Fd \cup {NoFd}]
        /\ nbuffers \in Nat \ {0}
    BY ServerAssumption DEF IInv, TypeOK, FilledIsTail, Produce, Full
  <1>2. /\ count' = count + 1 /\ used' = used /\ filled' = NextSlot(filled)
        /\ buffer' = [buffer EXCEPT ![filled] = connfd]
        /\ connfd' = NoFd /\ mainpc' = "accept"
    BY DEF Produce
  <1>3. /\ wpc' \in [Worker -> WorkerPc]
        /\ \A wk \in Worker : Busy(wk)' <=> Busy(wk)
    BY SignalFillKeeps DEF IInv, Produce
  <1>4. /\ (used + count) % nbuffers
              = IF used + count < nbuffers THEN used + count
                                           ELSE used + count - nbuffers
        /\ (used + (count + 1)) % nbuffers
              = IF used + (count + 1) < nbuffers THEN used + (count + 1)
                                                 ELSE used + (count + 1) - nbuffers
    <2>1. count \in 0 .. nbuffers /\ count + 1 \in 0 .. nbuffers
      BY <1>1
    <2> HIDE DEF NoFd, Conn, MainPc, WorkerPc
    <2> QED BY <1>1, <2>1, SlotOf
  <1>5. /\ NextSlot(filled) = IF filled = nbuffers - 1 THEN 0 ELSE filled + 1
        /\ NextSlot(filled) \in Slot
    BY <1>1, NextSlotValue
  <1>6. TypeOK'
    <2>1. count' \in 0 .. nbuffers /\ filled' \in Slot /\ used' \in Slot
      BY <1>1, <1>2, <1>5
    <2>2. buffer' \in [Slot -> Fd \cup {NoFd}]
      BY <1>1, <1>2 DEF IInv, TypeOK
    <2> QED BY <1>2, <1>3, <2>1, <2>2 DEF IInv, TypeOK, Produce
  <1>7. FilledIsTail'
    BY <1>1, <1>2, <1>4, <1>5 DEF FilledIsTail, Slot
  <1>8. up /\ up' /\ connfd \in Fd /\ conn[connfd] = accepted
        /\ accepted = taken + count + 1
    BY DEF IInv, DescriptorsPresent, RingIsFifo, Produce
  <1>9. \A i \in 0 .. count : Queued(i)' = IF i = count THEN connfd ELSE Queued(i)
    <2> SUFFICES ASSUME NEW i \in 0 .. count
                 PROVE  Queued(i)' = IF i = count THEN connfd ELSE Queued(i)
      OBVIOUS
    <2>1. i \in 0 .. nbuffers
      BY <1>1
    <2>2. /\ (used + i) % nbuffers = IF used + i < nbuffers THEN used + i
                                                            ELSE used + i - nbuffers
          /\ (used + i) % nbuffers \in Slot
      BY <1>1, <2>1, SlotOf
    <2>3. i # count => (used + i) % nbuffers # filled
      BY <1>1, <1>4, <2>2 DEF Slot
    <2>4. Queued(i)' = [buffer EXCEPT ![filled] = connfd][(used + i) % nbuffers]
      BY <1>2 DEF Queued
    <2> QED BY <1>1, <2>2, <2>3, <2>4 DEF Queued
  <1>10. DescriptorsPresent'
    BY <1>1, <1>2, <1>3, <1>8, <1>9 DEF IInv, DescriptorsPresent, Produce
  <1>11. RingIsFifo'
    <2>1. taken' = taken /\ accepted' = accepted /\ conn' = conn /\ taken \in Nat
      BY ServerAssumption DEF IInv, TypeOK, Produce
    <2>2. \A i \in 0 .. count : (conn[Queued(i)] = taken + 1 + i)'
      BY <1>1, <1>8, <1>9, <2>1 DEF IInv, RingIsFifo
    <2> QED BY <1>1, <1>2, <1>8, <2>1, <2>2 DEF RingIsFifo
  <1>12. DescriptorHasOneOwner'
    BY <1>3 DEF IInv, DescriptorHasOneOwner, Produce
  <1> QED BY <1>6, <1>7, <1>10, <1>11, <1>12 DEF IInv

LEMMA ConsumeInv ==
  ASSUME IInv, NEW wk \in Worker, Consume(wk) PROVE IInv'
  <1>1. /\ up /\ up' /\ count \in 1 .. nbuffers /\ used \in Slot
        /\ nbuffers \in Nat \ {0} /\ taken \in Nat
    BY ServerAssumption DEF IInv, TypeOK, Consume
  <1>2. /\ count' = count - 1 /\ used' = NextSlot(used) /\ taken' = taken + 1
        /\ curr_fd' = [curr_fd EXCEPT ![wk] = Oldest]
        /\ wpc' = [wpc EXCEPT ![wk] = "serve"]
        /\ UNCHANGED << connfd, buffer, filled, conn, accepted, cgi, holds >>
        /\ handed' = Append(handed, conn[Oldest])
        /\ mainpc' \in MainPc /\ ((mainpc' = "accept") <=> (mainpc = "accept"))
    BY DEF IInv, TypeOK, Consume, SignalEmpty, MainPc
  <1>3. /\ NextSlot(used) = IF used = nbuffers - 1 THEN 0 ELSE used + 1
        /\ NextSlot(used) \in Slot
    BY <1>1, NextSlotValue
  <1>4. Oldest = Queued(0)
    <2>1. 0 \in 0 .. nbuffers
      BY <1>1
    <2>2. (used + 0) % nbuffers = IF used + 0 < nbuffers THEN used + 0
                                                         ELSE used + 0 - nbuffers
      BY <1>1, <2>1, SlotOf
    <2> QED BY <1>1, <2>2 DEF Oldest, Queued, Slot
  <1>5. \A i \in 0 .. count - 2 : Queued(i)' = Queued(i + 1)
    <2> SUFFICES ASSUME NEW i \in 0 .. count - 2 PROVE Queued(i)' = Queued(i + 1)
      OBVIOUS
    <2>1. i \in 0 .. nbuffers /\ i + 1 \in 0 .. nbuffers
      BY <1>1
    <2>2. (NextSlot(used) + i) % nbuffers
            = IF NextSlot(used) + i < nbuffers THEN NextSlot(used) + i
                                               ELSE NextSlot(used) + i - nbuffers
      BY <1>3, <2>1, SlotOf
    <2>3. (used + (i + 1)) % nbuffers
            = IF used + (i + 1) < nbuffers THEN used + (i + 1)
                                           ELSE used + (i + 1) - nbuffers
      BY <1>1, <2>1, SlotOf
    <2>4. (NextSlot(used) + i) % nbuffers = (used + (i + 1)) % nbuffers
      BY <1>1, <1>3, <2>1, <2>2, <2>3 DEF Slot
    <2> QED BY <1>2, <2>4 DEF Queued
  <1>6. /\ Oldest \in Fd /\ conn[Oldest] = taken + 1
        /\ taken + 1 <= accepted /\ accepted \in 0 .. MaxConn
    BY <1>1, <1>4 DEF IInv, TypeOK, DescriptorsPresent, RingIsFifo, MainPc
  <1>7. TypeOK'
    <2>1. count' \in 0 .. nbuffers /\ used' \in Slot /\ taken' \in 0 .. MaxConn
      BY <1>1, <1>2, <1>3, <1>6, ServerAssumption
    <2>2. /\ curr_fd' \in [Worker -> Fd \cup {NoFd}]
          /\ wpc' \in [Worker -> WorkerPc]
      BY <1>2, <1>6 DEF IInv, TypeOK, WorkerPc
    <2>3. handed' \in Seq(Nat)
      <3>1. conn[Oldest] \in Nat
        BY <1>1, <1>6
      <3> QED BY <1>2, <3>1 DEF IInv, TypeOK
    <2> QED BY <1>1, <1>2, <2>1, <2>2, <2>3 DEF IInv, TypeOK
  <1>8. FilledIsTail'
    <2>1. count \in 0 .. nbuffers /\ count - 1 \in 0 .. nbuffers
      BY <1>1
    <2>2. (used + count) % nbuffers
            = IF used + count < nbuffers THEN used + count
                                         ELSE used + count - nbuffers
      BY <1>1, <2>1, SlotOf
    <2>3. (NextSlot(used) + (count - 1)) % nbuffers
            = IF NextSlot(used) + (count - 1) < nbuffers
                THEN NextSlot(used) + (count - 1)
                ELSE NextSlot(used) + (count - 1) - nbuffers
      BY <1>3, <2>1, SlotOf
    <2> QED BY <1>1, <1>2, <1>3, <2>2, <2>3 DEF IInv, FilledIsTail, Slot
  <1>9. DescriptorsPresent'
    <2>1. \A i \in 0 .. count' - 1 : (Queued(i) \in Fd)'
      BY <1>1, <1>2, <1>5 DEF IInv, DescriptorsPresent
    <2>2. \A v \in Worker : (Busy(v) => curr_fd[v] \in Fd)'
      BY <1>1, <1>2, <1>6 DEF IInv, TypeOK, DescriptorsPresent, Busy
    <2> QED BY <1>1, <1>2, <2>1, <2>2 DEF IInv, DescriptorsPresent
  <1>10. RingIsFifo'
    <2>1. \A i \in 0 .. count' - 1 : (conn[Queued(i)] = taken + 1 + i)'
      BY <1>1, <1>2, <1>5 DEF IInv, RingIsFifo
    <2> QED BY <1>1, <1>2, <2>1 DEF IInv, TypeOK, RingIsFifo
  <1>11. DescriptorHasOneOwner'
    <2>1. \A v \in Worker : v # wk /\ Busy(v) => curr_fd[v] # Oldest
      BY <1>1, <1>6 DEF IInv, DescriptorHasOneOwner
    <2>2. \A v \in Worker : Busy(v)' /\ v # wk => Busy(v) /\ curr_fd'[v] = curr_fd[v]
      BY <1>2 DEF IInv, TypeOK, Busy
    <2>3. curr_fd'[wk] = Oldest
      BY <1>2 DEF IInv, TypeOK
    <2>4. \A v \in Worker : (Busy(v) => conn[curr_fd[v]] \in 1 .. taken)'
      BY <1>1, <1>2, <1>6, <2>2, <2>3 DEF IInv, DescriptorHasOneOwner
    <2> QED BY <1>1, <2>1, <2>2, <2>3, <2>4 DEF IInv, DescriptorHasOneOwner
  <1> QED BY <1>7, <1>8, <1>9, <1>10, <1>11 DEF IInv

LEMMA CloseInv ==
  ASSUME IInv, NEW wk \in Worker, Close(wk) PROVE IInv'
  <1>1. CASE Exit
    BY <1>1, ExitInv
  <1>2. CASE ~Exit
    <2>1. /\ up /\ up' /\ Busy(wk) /\ curr_fd[wk] \in Fd
          /\ conn' = [conn EXCEPT ![curr_fd[wk]] = 0]
          /\ wpc' = [wpc EXCEPT ![wk] = "lock"]
          /\ curr_fd' = [curr_fd EXCEPT ![wk] = NoFd]
          /\ UNCHANGED << mainpc, connfd, buffer, count, filled, used, accepted,
                          taken, handed, cgi, holds >>
      BY <1>2 DEF Close, Busy, ringvars
    <2>2. conn[curr_fd[wk]] \in 1 .. taken /\ taken \in Nat
      BY <2>1 DEF IInv, TypeOK, DescriptorHasOneOwner
    <2>3. TypeOK'
      BY <2>1, ServerAssumption DEF IInv, TypeOK, WorkerPc
    <2>4. FilledIsTail'
      BY <2>1 DEF IInv, FilledIsTail
    <2>5. \A v \in Worker : Busy(v)' => v # wk /\ Busy(v) /\ curr_fd'[v] = curr_fd[v]
      BY <2>1 DEF IInv, TypeOK, Busy
    <2>6. DescriptorsPresent'
      BY <2>1, <2>5 DEF IInv, DescriptorsPresent, Queued
    <2>7. RingIsFifo'
      <3>1. \A i \in 0 .. count - 1 : /\ Queued(i)' = Queued(i)
                                      /\ Queued(i) # curr_fd[wk]
        BY <2>1, <2>2 DEF IInv, TypeOK, RingIsFifo, Queued
      <3>2. mainpc # "accept" => connfd # curr_fd[wk]
        BY <2>1, <2>2 DEF IInv, TypeOK, RingIsFifo
      <3> QED BY <2>1, <3>1, <3>2
              DEF IInv, TypeOK, RingIsFifo, DescriptorsPresent
    <2>8. DescriptorHasOneOwner'
      BY <2>1, <2>5 DEF IInv, TypeOK, DescriptorHasOneOwner, DescriptorsPresent
    <2> QED BY <2>3, <2>4, <2>6, <2>7, <2>8 DEF IInv
  <1> QED BY <1>1, <1>2

LEMMA NextInv == ASSUME IInv, [Next]_vars PROVE IInv'
  <1>1. CASE Main
    BY <1>1, AcceptInv, ProduceInv, PcStepInv DEF Main
  <1>2. ASSUME NEW wk \in Worker,
               WorkerStep(wk) \/ IoError(wk) \/ HeldByClient(wk)
        PROVE  IInv'
    BY <1>2, ConsumeInv, CloseInv, PcStepInv, CgiStepInv, ExitInv
    DEF WorkerStep, IoError
  <1>3. ASSUME NEW c \in Conn, CgiExit(c) \/ CgiHeld(c) PROVE IInv'
    BY <1>3, CgiStepInv
  <1>4. CASE SpuriousWakeup
    BY <1>4, PcStepInv
  <1>5. CASE UNCHANGED vars
    BY <1>5, PcInv DEF vars, IInv, TypeOK, Busy
  <1> QED BY <1>1, <1>2, <1>3, <1>4, <1>5 DEF Next

(* Every variable keeps its type; in particular the ring never overflows   *)
(* (count stays within 0..nbuffers) and no index leaves the buffer.        *)
THEOREM TypeCorrect == Spec => []TypeOK
  <1>1. IInv => TypeOK
    BY DEF IInv
  <1> QED BY <1>1, InitInv, NextInv, PTL DEF Spec

(* The ring is FIFO: it holds exactly the accepted connections that no     *)
(* worker has taken, oldest first, for any number of workers and slots.    *)
THEOREM RingFifo == Spec => []RingIsFifo
  <1>1. IInv => RingIsFifo
    BY DEF IInv
  <1> QED BY <1>1, InitInv, NextInv, PTL DEF Spec

(* No two workers ever serve the same descriptor, and the one a worker     *)
(* closes is open and its own, however descriptors are reused.             *)
THEOREM OneOwner == Spec => []DescriptorHasOneOwner
  <1>1. IInv => DescriptorHasOneOwner
    BY DEF IInv
  <1> QED BY <1>1, InitInv, NextInv, PTL DEF Spec

---------------------------------------------------------------------------
(***************************************************************************)
(* Theorems about how the threads of WebServer wait for each other: no     *)
(* wakeup is lost, for any pool of workers and any ring, and wait() always *)
(* finds a child.  Both count threads; the lemmas say how the count of a   *)
(* set of threads changes when one of them joins or leaves it.             *)
(***************************************************************************)

Lockers == {wk \in Worker : wpc[wk] = "lock"}
Waiters == {wk \in Worker : wpc[wk] = "waitpid"}

(* A finite set of which one more element, or one less, has a property. *)
LEMMA OneMore ==
  ASSUME NEW S, IsFiniteSet(S), NEW x, x \notin S, NEW T, T = S \cup {x}
  PROVE  Cardinality(T) = Cardinality(S) + 1
  BY FS_AddElement

LEMMA OneLess ==
  ASSUME NEW S, IsFiniteSet(S), NEW x \in S, NEW T, T = S \ {x}
  PROVE  Cardinality(T) = Cardinality(S) - 1
  BY FS_RemoveElement

LEMMA NotFewer ==
  ASSUME NEW S, NEW T, IsFiniteSet(T), S \subseteq T
  PROVE  Cardinality(S) <= Cardinality(T)
  BY FS_Subset

LEMMA WorkersFinite ==
  /\ IsFiniteSet(Lockers) /\ IsFiniteSet(Lockers')
  /\ IsFiniteSet(Waiters) /\ IsFiniteSet(Waiters')
  /\ Cardinality(Lockers) \in Nat /\ Cardinality(Waiters) \in Nat
  <1>1. IsFiniteSet(Worker)
    BY ServerAssumption
  <1>2. /\ Lockers \in SUBSET Worker /\ Waiters \in SUBSET Worker
        /\ Lockers' \in SUBSET Worker /\ Waiters' \in SUBSET Worker
    BY DEF Lockers, Waiters
  <1>3. /\ IsFiniteSet(Lockers) /\ IsFiniteSet(Lockers')
        /\ IsFiniteSet(Waiters) /\ IsFiniteSet(Waiters')
    BY <1>1, <1>2, FS_Subset
  <1> QED BY <1>3, FS_CardinalityType

---------------------------------------------------------------------------
(* NoLostWakeup is inductive by itself, given the types. *)

WakeInv == IInv /\ NoLostWakeup

(* A step that takes nobody away from the lock, lets nobody begin to wait,  *)
(* and does not fill the ring.                                              *)
LEMMA MoreAtLock ==
  ASSUME WakeInv, IInv', wpc' \in [Worker -> WorkerPc],
         count' = count, mainpc' = "wait_empty" => mainpc = "wait_empty",
         \A wk \in Worker : wpc[wk] = "lock" => wpc'[wk] = "lock",
         \A wk \in Worker : wpc'[wk] = "wait_fill" => wpc[wk] = "wait_fill"
  PROVE  NoLostWakeup'
  <1>1. Cardinality(Lockers) <= Cardinality(Lockers')
    BY WorkersFinite, NotFewer DEF Lockers
  <1>2. Cardinality(Lockers') \in Nat
    BY WorkersFinite, FS_CardinalityType
  <1>3. count \in Nat /\ Cardinality(Lockers) \in Nat
    BY WorkersFinite DEF WakeInv, IInv, TypeOK
  <1> QED BY <1>1, <1>2, <1>3 DEF WakeInv, NoLostWakeup, Lockers

LEMMA ProduceWakes == ASSUME WakeInv, IInv', Produce PROVE NoLostWakeup'
  <1>1. /\ count \in Nat /\ count' = count + 1 /\ mainpc' = "accept"
        /\ wpc \in [Worker -> WorkerPc]
    BY DEF WakeInv, IInv, TypeOK, Produce
  <1>2. CASE \E wk \in Worker : wpc[wk] = "wait_fill"
    <2>1. PICK wk \in Worker : wpc[wk] = "wait_fill" /\ wpc' = [wpc EXCEPT ![wk] = "lock"]
      BY <1>2 DEF Produce, SignalFill, WakeAWorker
    <2>2. Lockers' = Lockers \cup {wk} /\ wk \notin Lockers
      BY <1>1, <2>1 DEF Lockers
    <2>3. Cardinality(Lockers') = Cardinality(Lockers) + 1
      BY <2>2, OneMore, WorkersFinite
    <2>4. count <= Cardinality(Lockers)
      BY <1>2 DEF WakeInv, NoLostWakeup, Lockers
    <2> QED BY <1>1, <2>3, <2>4, WorkersFinite DEF NoLostWakeup, Lockers
  <1>3. CASE ~ \E wk \in Worker : wpc[wk] = "wait_fill"
    BY <1>1, <1>3 DEF Produce, SignalFill, WakeAWorker, NoLostWakeup
  <1> QED BY <1>2, <1>3

LEMMA ConsumeWakes ==
  ASSUME WakeInv, IInv', NEW wk \in Worker, Consume(wk) PROVE NoLostWakeup'
  <1>1. /\ count \in Nat /\ count' = count - 1
        /\ wpc \in [Worker -> WorkerPc] /\ wpc[wk] = "lock"
        /\ wpc' = [wpc EXCEPT ![wk] = "serve"] /\ mainpc' # "wait_empty"
    BY DEF WakeInv, IInv, TypeOK, Consume, SignalEmpty
  <1>2. Lockers' = Lockers \ {wk} /\ wk \in Lockers
    BY <1>1 DEF Lockers
  <1>3. Cardinality(Lockers') = Cardinality(Lockers) - 1
    BY <1>2, OneLess, WorkersFinite
  <1>4. (\E v \in Worker : wpc'[v] = "wait_fill") => count <= Cardinality(Lockers)
    BY <1>1 DEF WakeInv, NoLostWakeup, Lockers
  <1> QED BY <1>1, <1>3, <1>4, WorkersFinite DEF NoLostWakeup, Lockers

LEMMA ConsumeWaitWakes ==
  ASSUME WakeInv, IInv', NEW wk \in Worker, ConsumeWait(wk) PROVE NoLostWakeup'
  <1>1. count' = 0 /\ mainpc' = mainpc /\ count = 0
    BY DEF ConsumeWait, ringvars
  <1>2. Cardinality(Lockers') \in Nat
    BY WorkersFinite, FS_CardinalityType
  <1> QED BY <1>1, <1>2 DEF WakeInv, NoLostWakeup, Lockers

LEMMA OtherWakes ==
  ASSUME WakeInv, IInv',
         \/ Accept \/ SpuriousWakeup \/ UNCHANGED vars
         \/ \E wk \in Worker : \/ ServeStatic(wk) \/ ServeDynamic(wk) \/ WaitAny(wk)
                              \/ Close(wk) \/ IoError(wk) \/ HeldByClient(wk)
         \/ \E c \in Conn : CgiExit(c) \/ CgiHeld(c)
  PROVE  NoLostWakeup'
  <1>1. wpc \in [Worker -> WorkerPc] /\ wpc' \in [Worker -> WorkerPc]
    BY DEF WakeInv, IInv, TypeOK
  <1>2. CASE Accept
    BY <1>1, <1>2, MoreAtLock DEF Accept, ringvars
  <1>3. CASE SpuriousWakeup
    BY <1>1, <1>3, MoreAtLock DEF SpuriousWakeup, ringvars
  <1>4. CASE UNCHANGED vars
    BY <1>1, <1>4, MoreAtLock DEF vars, ringvars
  <1>5. ASSUME NEW wk \in Worker, ServeStatic(wk) \/ ServeDynamic(wk) \/ HeldByClient(wk)
        PROVE  NoLostWakeup'
    BY <1>1, <1>5, MoreAtLock DEF ServeStatic, ServeDynamic, HeldByClient, ringvars
  <1>6. CASE Exit
    BY <1>1, <1>6, MoreAtLock DEF Exit, ringvars
  <1>7. ASSUME NEW wk \in Worker, WaitAny(wk) \/ Close(wk), ~Exit
        PROVE  NoLostWakeup'
    BY <1>1, <1>7, MoreAtLock DEF WaitAny, Close, ringvars
  <1>8. ASSUME NEW c \in Conn, CgiExit(c) \/ CgiHeld(c) PROVE NoLostWakeup'
    BY <1>1, <1>8, MoreAtLock DEF CgiExit, CgiHeld, ringvars
  <1> QED BY <1>2, <1>3, <1>4, <1>5, <1>6, <1>7, <1>8 DEF IoError

LEMMA NextWakes == ASSUME WakeInv, [Next]_vars PROVE WakeInv'
  <1>1. IInv'
    BY NextInv DEF WakeInv
  <1>2. ASSUME ProduceWait PROVE NoLostWakeup'
    <2>1. count = nbuffers /\ count' = count /\ wpc' = wpc
      BY <1>2 DEF ProduceWait, Full, ringvars
    <2> QED BY <2>1 DEF WakeInv, NoLostWakeup
  <1>3. NoLostWakeup'
    BY <1>1, <1>2, ProduceWakes, ConsumeWakes, ConsumeWaitWakes, OtherWakes
    DEF Next, Main, WorkerStep
  <1> QED BY <1>1, <1>3 DEF WakeInv

(* No worker sleeps on `fill' while there are more connections in the ring  *)
(* than workers on their way to it, and the main thread sleeps on `empty'   *)
(* only while the ring is full: one signal per slot is enough, although     *)
(* waiters may wake up by themselves.                                       *)
THEOREM WakeupsKept == Spec => []NoLostWakeup
  <1>1. Init => WakeInv
    <2> SUFFICES ASSUME Init PROVE WakeInv
      OBVIOUS
    <2>1. NoLostWakeup
      BY DEF Init, NoLostWakeup
    <2> QED BY <2>1, InitInv DEF WakeInv
  <1>2. WakeInv => NoLostWakeup
    BY DEF WakeInv
  <1> QED BY <1>1, <1>2, NextWakes, PTL DEF Spec

---------------------------------------------------------------------------
(* ChildForEveryWaiter needs that a worker forks for a connection that had  *)
(* no child yet: connections are served once, by the worker that took them. *)

ServedOnce ==
  up => /\ \A f \in Fd : conn[f] \in 0 .. accepted
        /\ \A f, g \in Fd : conn[f] = conn[g] /\ conn[f] # 0 => f = g
        /\ \A c \in Conn : c > taken => cgi[c] = "none"
        /\ \A wk \in Worker : wpc[wk] = "serve" => cgi[conn[curr_fd[wk]]] = "none"

ChildInv == IInv /\ ServedOnce /\ ChildForEveryWaiter

LEMMA ChildrenFinite ==
  /\ IsFiniteSet(Unreaped) /\ IsFiniteSet(Unreaped')
  /\ Cardinality(Unreaped) \in Nat
  <1>1. IsFiniteSet(Conn)
    BY ServerAssumption, FS_Interval DEF Conn
  <1>2. Unreaped \in SUBSET Conn /\ Unreaped' \in SUBSET Conn
    BY DEF Unreaped
  <1>3. IsFiniteSet(Unreaped) /\ IsFiniteSet(Unreaped')
    BY <1>1, <1>2, FS_Subset
  <1> QED BY <1>3, FS_CardinalityType

(* Steps that change neither the children nor who waits for one. *)
LEMMA SameChildren ==
  ASSUME ChildInv, IInv', up' => up,
         UNCHANGED << conn, curr_fd, accepted, taken, cgi >>,
         \A wk \in Worker : wpc'[wk] = "waitpid" <=> wpc[wk] = "waitpid",
         \A wk \in Worker : wpc'[wk] = "serve" => wpc[wk] = "serve"
  PROVE  ServedOnce' /\ ChildForEveryWaiter'
  <1>1. Unreaped' = Unreaped /\ Waiters' = Waiters
    BY DEF Unreaped, Waiters
  <1>2. ChildForEveryWaiter'
    BY <1>1 DEF ChildInv, ChildForEveryWaiter, Waiters
  <1>3. ServedOnce'
    BY DEF ChildInv, ServedOnce
  <1> QED BY <1>2, <1>3

LEMMA PcChildren ==
  ASSUME ChildInv, IInv',
         \/ Produce \/ ProduceWait \/ SpuriousWakeup \/ UNCHANGED vars
         \/ \E wk \in Worker : ConsumeWait(wk) \/ ServeStatic(wk) \/ HeldByClient(wk)
  PROVE  ServedOnce' /\ ChildForEveryWaiter'
  <1>1. wpc \in [Worker -> WorkerPc]
    BY DEF ChildInv, IInv, TypeOK
  <1>2. CASE Produce
    BY <1>1, <1>2, SameChildren DEF Produce, SignalFill, WakeAWorker
  <1>3. CASE ProduceWait \/ SpuriousWakeup
    BY <1>1, <1>3, SameChildren DEF ProduceWait, SpuriousWakeup
  <1>4. CASE UNCHANGED vars
    BY <1>4, SameChildren DEF vars
  <1>5. ASSUME NEW wk \in Worker,
               ConsumeWait(wk) \/ ServeStatic(wk) \/ HeldByClient(wk)
        PROVE  ServedOnce' /\ ChildForEveryWaiter'
    BY <1>1, <1>5, SameChildren DEF ConsumeWait, ServeStatic, HeldByClient
  <1> QED BY <1>2, <1>3, <1>4, <1>5

LEMMA AcceptChildren ==
  ASSUME ChildInv, IInv', Accept PROVE ServedOnce' /\ ChildForEveryWaiter'
  <1>1. PICK f \in Fd : conn[f] = 0 /\ conn' = [conn EXCEPT ![f] = accepted + 1]
    BY DEF Accept
  <1>2. /\ up /\ accepted' = accepted + 1 /\ accepted \in Nat
        /\ UNCHANGED << wpc, curr_fd, taken, cgi >>
        /\ conn \in [Fd -> 0 .. MaxConn]
    BY ServerAssumption DEF ChildInv, IInv, TypeOK, Accept
  <1>3. \A wk \in Worker : wpc[wk] = "serve" => curr_fd[wk] # f
    BY <1>1, <1>2 DEF ChildInv, IInv, DescriptorHasOneOwner, Busy
  <1>4. \A wk \in Worker : wpc[wk] = "serve" => curr_fd[wk] \in Fd
    BY <1>2 DEF ChildInv, IInv, DescriptorsPresent, Busy
  <1>5. ServedOnce'
    BY <1>1, <1>2, <1>3, <1>4 DEF ChildInv, ServedOnce
  <1>6. ChildForEveryWaiter'
    BY <1>2 DEF Accept, ChildInv, ChildForEveryWaiter, Unreaped
  <1> QED BY <1>5, <1>6

LEMMA ConsumeChildren ==
  ASSUME ChildInv, IInv', NEW wk \in Worker, Consume(wk)
  PROVE  ServedOnce' /\ ChildForEveryWaiter'
  <1>1. /\ up /\ taken' = taken + 1 /\ taken \in Nat
        /\ curr_fd \in [Worker -> Fd \cup {NoFd}] /\ wpc \in [Worker -> WorkerPc]
        /\ wpc[wk] = "lock"
        /\ wpc' = [wpc EXCEPT ![wk] = "serve"]
        /\ UNCHANGED << conn, accepted, cgi >>
    BY DEF ChildInv, IInv, TypeOK, Consume
  <1>2. conn[curr_fd'[wk]] \in 1 .. taken'
    BY <1>1 DEF IInv, DescriptorHasOneOwner, Busy, Consume
  <1>3. curr_fd' = [curr_fd EXCEPT ![wk] = Oldest] /\ Oldest = Queued(0) /\ 0 \in 0 .. count - 1
    <2>1. count \in 1 .. nbuffers /\ used \in Slot /\ nbuffers \in Nat \ {0}
      BY ServerAssumption DEF ChildInv, IInv, TypeOK, Consume
    <2>2. 0 \in 0 .. nbuffers
      BY <2>1
    <2>3. (used + 0) % nbuffers = IF used + 0 < nbuffers THEN used + 0
                                                         ELSE used + 0 - nbuffers
      BY <2>1, <2>2, SlotOf
    <2> QED BY <2>1, <2>3 DEF Oldest, Queued, Slot, Consume
  <1>4. conn[curr_fd'[wk]] = taken + 1
    <2>1. conn[Queued(0)] = taken + 1 + 0
      BY <1>1, <1>3 DEF ChildInv, IInv, RingIsFifo
    <2> QED BY <1>1, <1>3, <2>1
  <1>5. taken + 1 \in Conn
    BY <1>1, ServerAssumption DEF IInv, TypeOK, Conn
  <1>6. ServedOnce'
    <2>1. cgi[taken + 1] = "none" /\ \A c \in Conn : c > taken + 1 => cgi[c] = "none"
      BY <1>1, <1>5, ServerAssumption DEF ChildInv, ServedOnce, Conn
    <2>2. \A v \in Worker : wpc'[v] = "serve" /\ v # wk =>
            wpc[v] = "serve" /\ curr_fd'[v] = curr_fd[v]
      BY <1>1, <1>3
    <2>3. \A v \in Worker : wpc'[v] = "serve" => cgi[conn[curr_fd'[v]]] = "none"
      BY <1>1, <1>4, <2>1, <2>2 DEF ChildInv, ServedOnce
    <2> QED BY <1>1, <2>1, <2>3 DEF ChildInv, ServedOnce
  <1>7. Unreaped' = Unreaped /\ Waiters' = Waiters
    BY <1>1 DEF Unreaped, Waiters
  <1> QED BY <1>1, <1>6, <1>7 DEF ChildInv, ChildForEveryWaiter, Waiters, Consume

(* A worker forks: one more child, one more thread in wait(). *)
LEMMA ForkChildren ==
  ASSUME ChildInv, IInv', NEW wk \in Worker, ServeDynamic(wk)
  PROVE  ServedOnce' /\ ChildForEveryWaiter'
  <1> DEFINE c == conn[curr_fd[wk]]
  <1>1. /\ up /\ wpc[wk] = "serve" /\ wpc' = [wpc EXCEPT ![wk] = "waitpid"]
        /\ wpc \in [Worker -> WorkerPc]
        /\ cgi' = [cgi EXCEPT ![c] = "running"]
        /\ cgi \in [Conn -> {"none", "running", "held", "zombie", "reaped"}]
        /\ UNCHANGED << up, conn, curr_fd, accepted, taken >>
    BY DEF ChildInv, IInv, TypeOK, ServeDynamic
  <1>2. c \in 1 .. taken /\ c \in Conn /\ cgi[c] = "none"
    <2>1. c \in 1 .. taken
      BY <1>1 DEF ChildInv, IInv, DescriptorHasOneOwner, Busy
    <2>2. taken \in 0 .. MaxConn
      BY DEF ChildInv, IInv, TypeOK
    <2>3. c \in Conn
      BY <2>1, <2>2, ServerAssumption DEF Conn
    <2>4. cgi[c] = "none"
      BY <1>1 DEF ChildInv, ServedOnce
    <2> QED BY <2>1, <2>3, <2>4
  <1>3. \A v \in Worker : wpc[v] = "serve" /\ v # wk => conn[curr_fd[v]] # c
    <2> SUFFICES ASSUME NEW v \in Worker, wpc[v] = "serve", v # wk
                 PROVE  conn[curr_fd[v]] # c
      OBVIOUS
    <2>1. curr_fd[v] # curr_fd[wk] /\ curr_fd[v] \in Fd /\ curr_fd[wk] \in Fd
      BY <1>1 DEF ChildInv, IInv, DescriptorHasOneOwner, DescriptorsPresent, Busy
    <2> QED BY <1>1, <1>2, <2>1 DEF ChildInv, ServedOnce
  <1>4. ServedOnce'
    <2>1. \A d \in Conn : d > taken => cgi'[d] = "none"
      BY <1>1, <1>2 DEF ChildInv, ServedOnce, IInv, TypeOK
    <2>2. \A v \in Worker : wpc'[v] = "serve" => cgi'[conn[curr_fd[v]]] = "none"
      <3> SUFFICES ASSUME NEW v \in Worker, wpc'[v] = "serve"
                   PROVE  cgi'[conn[curr_fd[v]]] = "none"
        OBVIOUS
      <3>1. wpc[v] = "serve" /\ v # wk
        BY <1>1
      <3>2. cgi[conn[curr_fd[v]]] = "none" /\ conn[curr_fd[v]] # c
        BY <1>1, <1>3, <3>1 DEF ChildInv, ServedOnce
      <3>3. conn[curr_fd[v]] \in Conn
        <4>1. conn[curr_fd[v]] \in 1 .. taken /\ taken \in 0 .. MaxConn
          BY <1>1, <3>1 DEF ChildInv, IInv, TypeOK, DescriptorHasOneOwner, Busy
        <4> QED BY <4>1, ServerAssumption DEF Conn
      <3> QED BY <1>1, <3>2, <3>3
    <2> QED BY <1>1, <2>1, <2>2 DEF ChildInv, ServedOnce
  <1>5. Unreaped' = Unreaped \cup {c} /\ c \notin Unreaped
    BY <1>1, <1>2 DEF Unreaped
  <1>6. Waiters' = Waiters \cup {wk} /\ wk \notin Waiters
    BY <1>1 DEF Waiters
  <1>7. /\ Cardinality(Unreaped') = Cardinality(Unreaped) + 1
        /\ Cardinality(Waiters') = Cardinality(Waiters) + 1
    BY <1>5, <1>6, OneMore, ChildrenFinite, WorkersFinite
  <1> QED BY <1>1, <1>4, <1>7 DEF ChildInv, ChildForEveryWaiter, Waiters

(* wait() collects one child, for one waiting thread; or there is none, and *)
(* the server exits - which the equality of the two counts rules out.       *)
LEMMA WaitChildren ==
  ASSUME ChildInv, IInv', NEW wk \in Worker, WaitAny(wk), ~Exit
  PROVE  ServedOnce' /\ ChildForEveryWaiter'
  <1>1. PICK c \in Conn : cgi[c] = "zombie" /\ cgi' = [cgi EXCEPT ![c] = "reaped"]
    BY DEF WaitAny, ReapOne
  <1>2. /\ up /\ wpc[wk] = "waitpid" /\ wpc' = [wpc EXCEPT ![wk] = "close"]
        /\ wpc \in [Worker -> WorkerPc]
        /\ cgi \in [Conn -> {"none", "running", "held", "zombie", "reaped"}]
        /\ UNCHANGED << up, conn, curr_fd, accepted, taken >>
    BY DEF ChildInv, IInv, TypeOK, WaitAny
  <1>3. ServedOnce'
    BY <1>1, <1>2 DEF ChildInv, ServedOnce
  <1>4. Unreaped' = Unreaped \ {c} /\ c \in Unreaped
    BY <1>1, <1>2 DEF Unreaped
  <1>5. Waiters' = Waiters \ {wk} /\ wk \in Waiters
    BY <1>2 DEF Waiters
  <1>6. /\ Cardinality(Unreaped') = Cardinality(Unreaped) - 1
        /\ Cardinality(Waiters') = Cardinality(Waiters) - 1
    BY <1>4, <1>5, OneLess, ChildrenFinite, WorkersFinite
  <1> QED BY <1>2, <1>3, <1>6 DEF ChildInv, ChildForEveryWaiter, Waiters

LEMMA CloseChildren ==
  ASSUME ChildInv, IInv', NEW wk \in Worker, Close(wk), ~Exit
  PROVE  ServedOnce' /\ ChildForEveryWaiter'
  <1>1. /\ up /\ wpc[wk] = "close" /\ wpc' = [wpc EXCEPT ![wk] = "lock"]
        /\ curr_fd[wk] \in Fd
        /\ conn' = [conn EXCEPT ![curr_fd[wk]] = 0]
        /\ curr_fd' = [curr_fd EXCEPT ![wk] = NoFd]
        /\ UNCHANGED << up, accepted, taken, cgi >>
    BY DEF Close
  <1> /\ wpc \in [Worker -> WorkerPc] /\ curr_fd \in [Worker -> Fd \cup {NoFd}]
      /\ conn \in [Fd -> 0 .. MaxConn] /\ accepted \in Nat
    BY ServerAssumption DEF ChildInv, IInv, TypeOK
  <1>2. \A v \in Worker : wpc'[v] = "serve" =>
          wpc[v] = "serve" /\ v # wk /\ curr_fd[v] # curr_fd[wk] /\ curr_fd[v] \in Fd
    BY <1>1 DEF ChildInv, IInv, DescriptorHasOneOwner, DescriptorsPresent, Busy
  <1>3. ServedOnce'
    BY <1>1, <1>2 DEF ChildInv, ServedOnce
  <1>4. Unreaped' = Unreaped /\ Waiters' = Waiters
    BY <1>1 DEF Unreaped, Waiters
  <1> QED BY <1>1, <1>3, <1>4 DEF ChildInv, ChildForEveryWaiter, Waiters

LEMMA CgiExitChildren ==
  ASSUME ChildInv, IInv', NEW c \in Conn, CgiExit(c) \/ CgiHeld(c)
  PROVE  ServedOnce' /\ ChildForEveryWaiter'
  <1>1. /\ cgi[c] = "running"
        /\ \/ cgi' = [cgi EXCEPT ![c] = "zombie"]
           \/ cgi' = [cgi EXCEPT ![c] = "held"]
        /\ cgi \in [Conn -> {"none", "running", "held", "zombie", "reaped"}]
        /\ UNCHANGED << up, conn, wpc, curr_fd, accepted, taken >>
    BY DEF ChildInv, IInv, TypeOK, CgiExit, CgiHeld
  <1>2. ServedOnce'
    <2>1. \A d \in Conn : cgi[d] = "none" => cgi'[d] = "none"
      BY <1>1
    <2>2. \A wk \in Worker : up /\ wpc[wk] = "serve" => conn[curr_fd[wk]] \in Conn
      <3>1. \A wk \in Worker : up /\ wpc[wk] = "serve" => conn[curr_fd[wk]] \in 1 .. taken
        BY DEF ChildInv, IInv, DescriptorHasOneOwner, Busy
      <3>2. taken \in 0 .. MaxConn
        BY DEF ChildInv, IInv, TypeOK
      <3> QED BY <3>1, <3>2, ServerAssumption DEF Conn
    <2> QED BY <1>1, <2>1, <2>2 DEF ChildInv, ServedOnce
  <1>3. Unreaped' = Unreaped
    BY <1>1 DEF Unreaped
  <1> QED BY <1>1, <1>2, <1>3 DEF ChildInv, ChildForEveryWaiter

LEMMA NextChildren == ASSUME ChildInv, [Next]_vars PROVE ChildInv'
  <1>1. IInv'
    BY NextInv DEF ChildInv
  <1>2. CASE Exit
    BY <1>1, <1>2 DEF Exit, ChildInv, ServedOnce, ChildForEveryWaiter
  <1>3. ServedOnce' /\ ChildForEveryWaiter'
    BY <1>1, <1>2, PcChildren, AcceptChildren, ConsumeChildren, ForkChildren,
       WaitChildren, CloseChildren, CgiExitChildren
    DEF Next, Main, WorkerStep, IoError, ChildInv
  <1> QED BY <1>1, <1>3 DEF ChildInv

(* There are as many unreaped children as workers in wait(), for any number *)
(* of workers that reap each other's children: wait() never fails for lack  *)
(* of a child, which would end the whole server.                            *)
THEOREM ChildrenSuffice == Spec => []ChildForEveryWaiter
  <1>1. Init => ChildInv
    <2> SUFFICES ASSUME Init PROVE ChildInv
      OBVIOUS
    <2>1. ServedOnce
      BY ServerAssumption DEF Init, ServedOnce
    <2>2. Unreaped = {} /\ Waiters = {}
      BY DEF Init, Unreaped, Waiters
    <2>3. ChildForEveryWaiter
      BY <2>2 DEF ChildForEveryWaiter, Waiters
    <2> QED BY <2>1, <2>3, InitInv DEF ChildInv
  <1>2. ChildInv => ChildForEveryWaiter
    BY DEF ChildInv
  <1> QED BY <1>1, <1>2, NextChildren, PTL DEF Spec

---------------------------------------------------------------------------
(* The refinement.  By RingIsFifo, the abstract queue is taken + 1, taken + *)
(* 2, ..., taken + count.                                                   *)

Numbers(t, n) == [i \in 1 .. n |-> t + i]

LEMMA NumbersAppend ==
  ASSUME NEW t \in Nat, NEW n \in Nat
  PROVE  Append(Numbers(t, n), t + n + 1) = Numbers(t, n + 1)
  BY DEF Numbers

LEMMA NumbersTail ==
  ASSUME NEW t \in Nat, NEW n \in Nat \ {0}
  PROVE  /\ Numbers(t, n) # << >>
         /\ Head(Numbers(t, n)) = t + 1
         /\ Tail(Numbers(t, n)) = Numbers(t + 1, n - 1)
  <1>1. Numbers(t, n) # << >> /\ Tail(Numbers(t, n)) = Numbers(t + 1, n - 1)
    BY DEF Numbers
  <1>2. Head(Numbers(t, n)) = t + 1
    BY DEF Numbers
  <1> QED BY <1>1, <1>2

LEMMA ContentsNumbers ==
  IInv /\ up =>
    Contents = Numbers(taken, count) /\ taken \in Nat /\ count \in 0 .. nbuffers
  <1> SUFFICES ASSUME IInv, up
               PROVE  /\ Contents = Numbers(taken, count)
                      /\ taken \in Nat /\ count \in 0 .. nbuffers
    OBVIOUS
  <1>1. taken \in Nat /\ count \in 0 .. nbuffers /\ nbuffers \in Nat
    BY ServerAssumption DEF IInv, TypeOK
  <1>2. \A i \in 1 .. count : conn[Queued(i - 1)] = taken + i
    <2> SUFFICES ASSUME NEW i \in 1 .. count PROVE conn[Queued(i - 1)] = taken + i
      OBVIOUS
    <2>1. i - 1 \in 0 .. count - 1
      BY <1>1
    <2>2. conn[Queued(i - 1)] = taken + 1 + (i - 1)
      BY <2>1 DEF IInv, RingIsFifo
    <2> QED BY <1>1, <2>2
  <1> QED BY <1>1, <1>2 DEF Contents, Numbers

LEMMA ContentsNumbersNext ==
  (IInv /\ up =>
    Contents = Numbers(taken, count) /\ taken \in Nat /\ count \in 0 .. nbuffers)'
  BY ContentsNumbers, PTL

(* Once the process has exited nothing enters or leaves the ring.          *)
LEMMA ExitCloses ==
  ASSUME [Next]_vars, ~up' PROVE [Fifo!Next]_(Fifo!fifo)
  <1>1. handed' = handed
    BY DEF Next, Main, WorkerStep, Accept, Produce, ProduceWait, ConsumeWait,
           Consume, ServeStatic, ServeDynamic, WaitAny, Close, IoError,
           HeldByClient, CgiExit, CgiHeld, SpuriousWakeup, Exit, vars
  <1>2. Contents' = << >>
    BY DEF Contents
  <1>3. CASE up
    BY <1>1, <1>2, <1>3 DEF Fifo!Next, Fifo!Close
  <1>4. CASE ~up
    <2>1. Contents = << >>
      BY <1>4 DEF Contents
    <2> QED BY <1>1, <1>2, <1>4, <2>1 DEF Fifo!fifo
  <1> QED BY <1>3, <1>4

LEMMA ContentsStep ==
  ASSUME IInv, IInv', [Next]_vars
  PROVE  [Fifo!Next]_(Fifo!fifo)
  <1>1. CASE ~up'
    BY <1>1, ExitCloses
  <1>2. CASE up'
    <2>1. up
      BY <1>2 DEF Next, Main, WorkerStep, Accept, Produce, ProduceWait, ConsumeWait,
                  Consume, ServeStatic, ServeDynamic, WaitAny, Close, IoError,
                  HeldByClient, CgiExit, CgiHeld, SpuriousWakeup, Exit, vars
    <2>2. /\ Contents = Numbers(taken, count) /\ taken \in Nat /\ count \in 0 .. nbuffers
          /\ Contents' = Numbers(taken', count')
      BY <1>2, <2>1, ContentsNumbers, ContentsNumbersNext
    <2>3. CASE Produce
      <3>1. /\ count < nbuffers /\ count' = count + 1 /\ taken' = taken
            /\ accepted = taken + count + 1 /\ handed' = handed
        BY <2>1, <2>2, <2>3, ServerAssumption DEF Produce, Full, IInv, RingIsFifo
      <3>2. accepted \in Conn
        BY <2>2, <3>1, ServerAssumption DEF IInv, TypeOK, Conn
      <3>3. Contents' = Append(Contents, accepted)
        <4> taken \in Nat /\ count \in Nat
          BY <2>2, ServerAssumption
        <4>1. Append(Numbers(taken, count), taken + count + 1) = Numbers(taken, count + 1)
          BY NumbersAppend
        <4> QED BY <2>2, <3>1, <4>1
      <3>4. Len(Contents) = count
        BY <2>2 DEF Numbers
      <3> QED BY <1>2, <2>1, <3>1, <3>2, <3>3, <3>4 DEF Fifo!Next, Fifo!Put
    <2>4. ASSUME NEW wk \in Worker, Consume(wk) PROVE [Fifo!Next]_(Fifo!fifo)
      <3>1. /\ count # 0 /\ count' = count - 1 /\ taken' = taken + 1
            /\ handed' = Append(handed, conn[Oldest])
        BY <2>4 DEF Consume
      <3>2. /\ Contents # << >> /\ Contents' = Tail(Contents)
            /\ Head(Contents) = taken + 1
        <4>1. taken \in Nat /\ count \in Nat \ {0}
          BY <2>2, <3>1, ServerAssumption
        <4>2. /\ Numbers(taken, count) # << >>
              /\ Head(Numbers(taken, count)) = taken + 1
              /\ Tail(Numbers(taken, count)) = Numbers(taken + 1, count - 1)
          BY <4>1, NumbersTail
        <4> QED BY <2>2, <3>1, <4>2
      <3>3. conn[Oldest] = taken + 1
        <4>1. Oldest = Queued(0)
          <5>1. used \in Slot /\ 0 \in 0 .. nbuffers
            BY ServerAssumption DEF IInv, TypeOK
          <5>2. (used + 0) % nbuffers = IF used + 0 < nbuffers THEN used + 0
                                        ELSE used + 0 - nbuffers
            BY <5>1, SlotOf
          <5> QED BY <5>1, <5>2, ServerAssumption DEF Oldest, Queued, Slot
        <4>2. 0 \in 0 .. count - 1 /\ taken \in Nat
          BY <2>2, <3>1, ServerAssumption
        <4>3. conn[Queued(0)] = taken + 1 + 0
          BY <2>1, <4>2 DEF IInv, RingIsFifo
        <4> QED BY <4>1, <4>2, <4>3
      <3> QED BY <1>2, <2>1, <3>1, <3>2, <3>3 DEF Fifo!Next, Fifo!Get
    <2>5. CASE ~Produce /\ ~ \E wk \in Worker : Consume(wk)
      <3>1. taken' = taken /\ count' = count /\ handed' = handed
        BY <2>5 DEF Next, Main, WorkerStep, Accept, ProduceWait, ConsumeWait,
                    ServeStatic, ServeDynamic, WaitAny, Close, IoError,
                    HeldByClient, CgiExit, CgiHeld, SpuriousWakeup, Exit, vars,
                    ringvars
      <3> QED BY <1>2, <2>1, <2>2, <3>1 DEF Fifo!fifo
    <2> QED BY <2>3, <2>4, <2>5
  <1> QED BY <1>1, <1>2

(* Main thread and workers together are a bounded FIFO queue: every step of *)
(* the server puts a connection in, hands the oldest one to a worker, or    *)
(* does nothing to the queue, until the process exits.                      *)
THEOREM RingImplements == Spec => ImplementsFifo
  <1>1. Init => Fifo!Init
    BY DEF Init, Contents, Fifo!Init
  <1>2. IInv /\ IInv' /\ [Next]_vars => [Fifo!Next]_(Fifo!fifo)
    BY ContentsStep
  <1>3. IInv /\ [Next]_vars => IInv'
    BY NextInv
  <1> QED BY <1>1, <1>2, <1>3, InitInv, PTL DEF Spec, ImplementsFifo, Fifo!Spec

(***************************************************************************)
(* UserHeap.  The free blocks, from base, are a ring in the order of their *)
(* addresses, no two of which touch; with the blocks that the program has, *)
(* and the stacks that thread_join could not give back, they share what    *)
(* sbrk gave.  Between two calls that is all there is to know: the proofs  *)
(* are about what one call of malloc or free does to such a ring.          *)
(***************************************************************************)
Span(x, n) == x .. x + n - 1
Headers(n) == {c \in Nat : \E x \in DOMAIN n : c \in Span(x, n[x].size)}

\* y follows x on the ring.
Follows(n, x, y) ==
  \/ y = 0 /\ \A z \in DOMAIN n : z <= x
  \/ y > x /\ \A z \in DOMAIN n : z <= x \/ z >= y

\* A ring of free blocks in the order of their addresses, that do not overlap;
\* base has no memory.
Chain(n) ==
  /\ DOMAIN n \in SUBSET Nat /\ IsFiniteSet(DOMAIN n)
  /\ 0 \in DOMAIN n /\ n[0] = [ptr |-> n[0].ptr, size |-> 0]
  /\ n = [x \in DOMAIN n |-> n[x]]
  /\ \A x \in DOMAIN n :
       /\ n[x] = [ptr |-> n[x].ptr, size |-> n[x].size]
       /\ n[x].ptr \in DOMAIN n /\ n[x].size \in Nat /\ Follows(n, x, n[x].ptr)
  /\ \A x, y \in DOMAIN n : x # y => y \notin Span(x, n[x].size)

\* Nor do they touch.
Gap(n, x) == x + n[x].size # n[x].ptr \/ n[x].ptr = 0
Ring(n) == Chain(n) /\ \A x \in DOMAIN n : Gap(n, x)

\* A block of the program, and the free blocks around it.
Uses == {"block", "stack", "lost"}
InUseRight(b) ==
  LET l == live[b] IN
  /\ l = [size |-> l.size, given |-> l.given, use |-> l.use]
  /\ l.size \in Nat \ {0} /\ l.given \in Nat /\ l.use \in Uses
  /\ l.use # "block" => l.size = 2 * Page + 1 /\ l.given = Aligned(b + 1)

LiveInv ==
  /\ DOMAIN live \in SUBSET (Nat \ {0})
  /\ \A b \in DOMAIN live : InUseRight(b)
  /\ \A b, c \in DOMAIN live : b # c => Span(b, live[b].size) \cap Span(c, live[c].size) = {}

\* The memory that sbrk gave is free or in use, and not both.
Shared(n, g, limit) ==
  /\ g \in SUBSET (Start .. limit - 1)
  /\ \A c \in Headers(n) : \A b \in DOMAIN live : c \notin Span(b, live[b].size)
  /\ \A c \in Nat : c \in g <=> \/ c \in Headers(n)
                                \/ \E b \in DOMAIN live : c \in Span(b, live[b].size)

\* A free block of size 0 is the header before a lost stack's aligned address.
EmptyRight(n) ==
  \A x \in DOMAIN n : n[x].size = 0 /\ x # 0 =>
    \E b \in DOMAIN live : live[b].use = "lost" /\ x > b /\ x \in Span(b, live[b].size)

HeapInv ==
  /\ brk \in Nat /\ brk >= Start /\ LiveInv
  /\ freep # -1 => Ring(node) /\ freep \in DOMAIN node /\ Shared(node, core, brk) /\ EmptyRight(node)
  /\ freep = -1 => live = << >> /\ core = {}

---------------------------------------------------------------------------
LEMMA GreatestOne ==
  ASSUME NEW S \in SUBSET Nat, IsFiniteSet(S), S # {}
  PROVE  \E m \in S : \A y \in S : y <= m
  <1> DEFINE Has(T) == \E m \in T : \A y \in T : y <= m
             N == {n \in Nat : \A T \in SUBSET Nat :
                     IsFiniteSet(T) /\ T # {} /\ Cardinality(T) = n => Has(T)}
  <1>1. 0 \in N
    BY FS_EmptySet
  <1>2. ASSUME NEW n \in N PROVE n + 1 \in N
    <2>1. SUFFICES ASSUME NEW T \in SUBSET Nat, IsFiniteSet(T), T # {}, Cardinality(T) = n + 1
                   PROVE  Has(T)
      OBVIOUS
    <2>2. PICK x \in T : TRUE
      BY <2>1
    <2>3. IsFiniteSet(T \ {x}) /\ Cardinality(T \ {x}) = n
      <3>1. n \in Nat /\ (n + 1) - 1 = n
        OBVIOUS
      <3> HIDE DEF N
      <3>2. IsFiniteSet(T \ {x}) /\ Cardinality(T \ {x}) = Cardinality(T) - 1
        BY <2>1, <2>2, FS_RemoveElement
      <3> QED BY <2>1, <3>1, <3>2
    <2>4. CASE T \ {x} = {}
      BY <2>2, <2>4
    <2>5. CASE T \ {x} # {}
      <3>1. PICK m \in T \ {x} : \A y \in T \ {x} : y <= m
        BY <2>3, <2>5
      <3>2. m \in Nat /\ x \in Nat
        BY <2>2
      <3>3. CASE x <= m
        BY <3>1, <3>3
      <3>4. CASE x > m
        <4>1. \A y \in T : y <= x
          BY <3>1, <3>2, <3>4
        <4> QED BY <2>2, <4>1
      <3> QED BY <3>2, <3>3, <3>4
    <2> QED BY <2>4, <2>5
  <1>3. N = Nat
    <2> HIDE DEF N
    <2>1. N \in SUBSET Nat
      BY DEF N
    <2> QED BY <1>1, <1>2, <2>1, SetInduction
  <1>4. Cardinality(S) \in Nat
    BY FS_CardinalityType
  <1> QED BY <1>3, <1>4

(***************************************************************************)
(* The way along the ring.                                                 *)
(***************************************************************************)
Hops(f, h, n) == f = [k \in 0 .. n |-> IF k = 0 THEN h.freep ELSE h.node[f[k - 1]].ptr]

LEMMA HopsExist ==
  ASSUME NEW h, NEW n \in Nat
  PROVE  \E f : Hops(f, h, n)
  <1> DEFINE Upto(f, j) == f = [k \in 0 .. j |-> IF k = 0 THEN h.freep ELSE h.node[f[k - 1]].ptr]
             S == {j \in Nat : \E f : Upto(f, j)}
  <1>1. 0 \in S
    <2>1. Upto([k \in 0 .. 0 |-> h.freep], 0)
      OBVIOUS
    <2> HIDE DEF Upto
    <2> QED BY <2>1
  <1>2. ASSUME NEW j \in S PROVE j + 1 \in S
    <2>1. PICK f : Upto(f, j)
      OBVIOUS
    <2> DEFINE g == [k \in 0 .. j + 1 |-> IF k = j + 1 THEN h.node[f[j]].ptr ELSE f[k]]
    <2>2. j \in Nat
      OBVIOUS
    <2>3. ASSUME NEW k \in 0 .. j + 1
          PROVE  g[k] = IF k = 0 THEN h.freep ELSE h.node[g[k - 1]].ptr
      <3>1. CASE k = j + 1
        <4>1. g[k] = h.node[f[j]].ptr /\ k # 0 /\ k - 1 = j
          BY <2>2, <3>1
        <4>2. g[j] = f[j]
          BY <2>2
        <4> HIDE DEF g
        <4> QED BY <4>1, <4>2
      <3>2. CASE k # j + 1
        <4>1. k \in 0 .. j /\ g[k] = f[k]
          BY <2>2, <3>2
        <4>2. f[k] = IF k = 0 THEN h.freep ELSE h.node[f[k - 1]].ptr
          BY <2>1, <4>1
        <4>3. k # 0 => k - 1 \in 0 .. j + 1 /\ k - 1 # j + 1
          BY <2>2, <4>1
        <4>4. k # 0 => g[k - 1] = f[k - 1]
          BY <4>3
        <4> HIDE DEF g
        <4> QED BY <4>1, <4>2, <4>4
      <3> QED BY <3>1, <3>2
    <2>4. g = [k \in 0 .. j + 1 |-> g[k]]
      OBVIOUS
    <2> HIDE DEF g
    <2>5. Upto(g, j + 1)
      BY <2>3, <2>4
    <2> HIDE DEF Upto
    <2> QED BY <2>2, <2>5
  <1>3. S = Nat
    <2> HIDE DEF S
    <2>1. S \in SUBSET Nat
      BY DEF S
    <2> QED BY <1>1, <1>2, <2>1, SetInduction
  <1>4. \E f : Upto(f, n)
    BY <1>3
  <1> QED BY <1>4 DEF Hops

LEMMA HopIs ==
  ASSUME NEW h, Chain(h.node), h.freep \in DOMAIN h.node
  PROVE  LET N == Cardinality(DOMAIN h.node) IN
         /\ N \in Nat \ {0} /\ DOMAIN Hop(h) = 0 .. N /\ Hop(h)[0] = h.freep
         /\ \A k \in 1 .. N : Hop(h)[k] = h.node[Hop(h)[k - 1]].ptr
         /\ \A k \in 0 .. N : Hop(h)[k] \in DOMAIN h.node
  <1> DEFINE N == Cardinality(DOMAIN h.node)
             c == CHOOSE f : Hops(f, h, N)
  <1>1. N \in Nat \ {0} /\ N \in Nat
    BY FS_CardinalityType, FS_EmptySet DEF Chain
  <1>2. \E f : Hops(f, h, N)
    <2> HIDE DEF N
    <2> QED BY <1>1, HopsExist
  <1>3. Hops(c, h, N)
    <2> HIDE DEF N
    <2> QED BY <1>2
  <1>4. Hop(h) = c
    BY DEF Hop, Hops
  <1> HIDE DEF c, N
  <1>5. DOMAIN c = 0 .. N /\ c[0] = h.freep
    BY <1>1, <1>3 DEF Hops
  <1>6. ASSUME NEW k \in 1 .. N PROVE c[k] = h.node[c[k - 1]].ptr
    <2>1. k \in 0 .. N /\ k # 0
      BY <1>1
    <2>2. c = [j \in 0 .. N |-> IF j = 0 THEN h.freep ELSE h.node[c[j - 1]].ptr]
      BY <1>3 DEF Hops
    <2>3. c[k] = IF k = 0 THEN h.freep ELSE h.node[c[k - 1]].ptr
      BY <2>1, <2>2, Zenon
    <2> QED BY <2>1, <2>3
  <1> DEFINE S == {k \in Nat : k <= N => c[k] \in DOMAIN h.node}
  <1>7. 0 \in S
    BY <1>5
  <1>8. ASSUME NEW k \in S PROVE k + 1 \in S
    <2>1. SUFFICES ASSUME k + 1 <= N PROVE c[k + 1] \in DOMAIN h.node
      OBVIOUS
    <2>2. k \in Nat /\ k <= N /\ k + 1 \in 1 .. N /\ (k + 1) - 1 = k
      BY <1>1, <2>1
    <2>3. c[k] \in DOMAIN h.node /\ c[k + 1] = h.node[c[k]].ptr
      BY <1>6, <2>2
    <2> QED BY <2>3 DEF Chain
  <1>9. S = Nat
    <2> HIDE DEF S
    <2>1. S \in SUBSET Nat
      BY DEF S
    <2> QED BY <1>7, <1>8, <2>1, SetInduction
  <1>10. \A k \in 0 .. N : c[k] \in DOMAIN h.node
    BY <1>1, <1>9
  <1> QED BY <1>1, <1>4, <1>5, <1>6, <1>10 DEF N

\* Who follows the ring comes everywhere.
LEMMA ClosedIsAll ==
  ASSUME NEW n, Chain(n), NEW C \in SUBSET DOMAIN n, C # {}, \A x \in C : n[x].ptr \in C
  PROVE  C = DOMAIN n
  <1>1. C \in SUBSET Nat /\ IsFiniteSet(C) /\ DOMAIN n \in SUBSET Nat
    BY FS_Subset DEF Chain
  <1>2. 0 \in C
    <2>1. PICK m \in C : \A y \in C : y <= m
      BY <1>1, GreatestOne
    <2>2. Follows(n, m, n[m].ptr) /\ n[m].ptr \in C
      BY DEF Chain
    <2> QED BY <1>1, <2>1, <2>2 DEF Follows
  <1> SUFFICES ASSUME DOMAIN n \ C # {} PROVE FALSE
    OBVIOUS
  <1> DEFINE U == DOMAIN n \ C
             below == {z \in DOMAIN n : z < Min(U)}
  <1>3. Min(U) \in U /\ \A y \in U : Min(U) <= y
    BY <1>1, MinIsLeast
  <1>4. Min(U) # 0 /\ Min(U) \in Nat
    BY <1>1, <1>2, <1>3
  <1> HIDE DEF U
  <1>5. below \in SUBSET Nat /\ IsFiniteSet(below) /\ 0 \in below
    BY <1>1, <1>2, <1>4, FS_Subset DEF Chain
  <1>6. PICK m \in below : \A y \in below : y <= m
    BY <1>5, GreatestOne
  <1>7. m \in C /\ m \in Nat
    <2>1. m \in DOMAIN n /\ m < Min(U) /\ m \in Nat
      BY <1>1, <1>6
    <2>2. m \notin U
      BY <1>3, <1>4, <2>1
    <2> QED BY <2>1, <2>2 DEF U
  <1>8. Follows(n, m, n[m].ptr) /\ n[m].ptr \in C /\ n[m].ptr \in Nat
    BY <1>1, <1>7 DEF Chain
  <1>9. Min(U) \in DOMAIN n /\ Min(U) > m
    BY <1>3, <1>4 DEF U
  <1>10. n[m].ptr = Min(U)
    <2>1. n[m].ptr > m /\ (Min(U) <= m \/ Min(U) >= n[m].ptr)
      BY <1>4, <1>7, <1>8, <1>9 DEF Follows
    <2>2. n[m].ptr >= Min(U)
      <3>1. n[m].ptr \in DOMAIN n
        BY <1>8
      <3>2. CASE n[m].ptr < Min(U)
        <4>1. n[m].ptr \in below
          BY <3>1, <3>2
        <4> QED BY <1>6, <1>7, <1>8, <2>1, <4>1
      <3> QED BY <1>4, <1>8, <3>2
    <2> QED BY <1>4, <1>7, <1>8, <1>9, <2>1, <2>2
  <1> QED BY <1>3, <1>8, <1>10 DEF U

LEMMA HopAll ==
  ASSUME NEW h, Chain(h.node), h.freep \in DOMAIN h.node, NEW x \in DOMAIN h.node
  PROVE  \E k \in 1 .. Cardinality(DOMAIN h.node) : Hop(h)[k] = x
  <1> DEFINE N == Cardinality(DOMAIN h.node)
             hop == Hop(h)
             D == DOMAIN h.node
  <1>1. /\ N \in Nat \ {0}
        /\ \A k \in 1 .. N : hop[k] = h.node[hop[k - 1]].ptr
        /\ \A k \in 0 .. N : hop[k] \in D
    BY HopIs
  <1>2. IsFiniteSet(D) /\ N = Cardinality(D)
    BY DEF Chain
  <1> HIDE DEF N, hop, D
  <1> DEFINE f == [k \in 1 .. N |-> hop[k]]
  <1>3. f \in [1 .. N -> D]
    BY <1>1
  <1>4. CASE \A i, j \in 1 .. N : f[i] = f[j] => i = j
    <2>1. f \in Injection(1 .. N, D)
      BY <1>3, <1>4 DEF Injection, IsInjective
    <2>2. IsFiniteSet(1 .. N) /\ Cardinality(1 .. N) = N
      BY <1>1, FS_Interval
    <2> HIDE DEF f
    <2>3. f \in Surjection(1 .. N, D)
      BY <1>2, <2>1, <2>2, FS_Injection
    <2>4. \E k \in 1 .. N : f[k] = x
      BY <2>3 DEF Surjection, D
    <2> QED BY <2>4 DEF f, N, hop
  <1>5. ASSUME NEW i \in 1 .. N, NEW j \in 1 .. N, f[i] = f[j], i < j
        PROVE  \E k \in 1 .. N : hop[k] = x
    <2> DEFINE C == {hop[k] : k \in 1 .. j - 1}
    <2>1. ASSUME NEW k \in 1 .. j - 1
          PROVE  hop[k] \in D /\ h.node[hop[k]].ptr \in C
      <3>1. k \in 1 .. N /\ k \in 0 .. N /\ k + 1 \in 1 .. N /\ (k + 1) - 1 = k
        BY <1>1
      <3>2. hop[k + 1] = h.node[hop[k]].ptr
        BY <1>1, <3>1
      <3>3. CASE k + 1 <= j - 1
        <4>1. k + 1 \in 1 .. j - 1
          BY <1>1, <3>3
        <4> QED BY <1>1, <3>1, <3>2, <4>1
      <3>4. CASE ~ (k + 1 <= j - 1)
        <4>1. k + 1 = j /\ i \in 1 .. j - 1
          BY <1>1, <1>5, <3>4
        <4>2. hop[j] = hop[i]
          BY <1>5
        <4>3. hop[i] = h.node[hop[k]].ptr
          BY <3>2, <4>1, <4>2
        <4> QED BY <1>1, <3>1, <4>1, <4>3
      <3> QED BY <3>3, <3>4
    <2>2. C # {}
      <3>1. i \in 1 .. j - 1
        BY <1>1, <1>5
      <3> QED BY <3>1
    <2>3. C = D
      <3>1. C \in SUBSET D /\ \A z \in C : h.node[z].ptr \in C
        BY <2>1
      <3> HIDE DEF C
      <3> QED BY <2>2, <3>1, ClosedIsAll DEF D
    <2>4. PICK k \in 1 .. j - 1 : hop[k] = x
      BY <2>3 DEF D
    <2>5. k \in 1 .. N
      BY <1>1
    <2> QED BY <2>4, <2>5
  <1>6. \A i, j \in 1 .. N : i < j \/ j < i \/ i = j
    BY <1>1
  <1>7. CASE ~ (\A i, j \in 1 .. N : f[i] = f[j] => i = j)
    <2>1. PICK i \in 1 .. N, j \in 1 .. N : f[i] = f[j] /\ i # j
      BY <1>7
    <2> HIDE DEF f
    <2> QED BY <1>5, <1>6, <2>1 DEF N, hop
  <1> QED BY <1>4, <1>7

(***************************************************************************)
(* The two ways in which the ring changes: a block comes in after p, and   *)
(* the block after x leaves, with or without its memory going to x.        *)
(***************************************************************************)
Insert(n, p, a, s) ==
  With(With(n, p, [n[p] EXCEPT !.ptr = a]), a, [ptr |-> n[p].ptr, size |-> s])
Skip(n, x, s) == With(Without(n, n[x].ptr), x, [ptr |-> n[n[x].ptr].ptr, size |-> s])

\* The free block after which bp belongs.
Below(n, p, bp) ==
  /\ p \in DOMAIN n /\ p < bp
  /\ n[p].ptr = 0 \/ n[p].ptr > bp
  /\ \A z \in DOMAIN n : z <= p \/ z > bp

\* A span of memory that is nobody's.
Unclaimed(n, bp, s) ==
  /\ bp \in Nat \ {0} /\ s \in Nat /\ bp \notin DOMAIN n
  /\ \A x \in DOMAIN n : bp \notin Span(x, n[x].size) /\ x \notin Span(bp, s)

\* i is the ring n with a block of s at bp after p.
Inserted(i, n, p, bp, s) ==
  /\ DOMAIN i = DOMAIN n \cup {bp} /\ i = [x \in DOMAIN i |-> i[x]]
  /\ i[bp] = [ptr |-> n[p].ptr, size |-> s]
  /\ i[p] = [ptr |-> bp, size |-> n[p].size]
  /\ \A x \in DOMAIN n : x # p => i[x] = n[x]

LEMMA InsertIs ==
  ASSUME NEW n, Chain(n), NEW p \in DOMAIN n, NEW bp, bp \notin DOMAIN n, NEW s
  PROVE  Inserted(Insert(n, p, bp, s), n, p, bp, s)
  <1>1. p # bp /\ n[p] = [ptr |-> n[p].ptr, size |-> n[p].size]
    BY DEF Chain
  <1> DEFINE m == With(n, p, [n[p] EXCEPT !.ptr = bp])
  <1>2. [n[p] EXCEPT !.ptr = bp] = [ptr |-> bp, size |-> n[p].size]
    BY <1>1
  <1>3. DOMAIN m = DOMAIN n /\ m[p] = [ptr |-> bp, size |-> n[p].size]
        /\ \A x \in DOMAIN n : x # p => m[x] = n[x]
    BY <1>2 DEF With
  <1> HIDE DEF m
  <1> DEFINE i == With(m, bp, [ptr |-> n[p].ptr, size |-> s])
  <1>4. DOMAIN i = DOMAIN m \cup {bp} /\ i = [x \in DOMAIN i |-> i[x]]
        /\ i[bp] = [ptr |-> n[p].ptr, size |-> s]
        /\ \A x \in DOMAIN m : x # bp => i[x] = m[x]
    BY DEF With
  <1>5. Insert(n, p, bp, s) = i
    BY DEF Insert, m
  <1> HIDE DEF i
  <1>6. Inserted(i, n, p, bp, s)
    BY <1>1, <1>3, <1>4 DEF Inserted
  <1> QED BY <1>5, <1>6

LEMMA InsertRight ==
  ASSUME NEW n, Chain(n), NEW bp, NEW s, Unclaimed(n, bp, s), NEW p, Below(n, p, bp)
  PROVE  Chain(Insert(n, p, bp, s))
  <1> DEFINE i == Insert(n, p, bp, s)
             q == n[p].ptr
  <1>1. /\ bp \in Nat \ {0} /\ s \in Nat /\ bp \notin DOMAIN n /\ p \in DOMAIN n
        /\ DOMAIN n \in SUBSET Nat /\ p < bp
    BY DEF Unclaimed, Below, Chain
  <1>2. /\ DOMAIN i = DOMAIN n \cup {bp} /\ i = [x \in DOMAIN i |-> i[x]]
        /\ i[bp] = [ptr |-> q, size |-> s] /\ i[p] = [ptr |-> bp, size |-> n[p].size]
        /\ \A x \in DOMAIN n : x # p => i[x] = n[x]
    <2>1. Inserted(i, n, p, bp, s)
      BY <1>1, InsertIs
    <2> HIDE DEF i
    <2> QED BY <2>1 DEF Inserted
  <1> HIDE DEF i
  <1>3. \A x \in DOMAIN n : /\ n[x] = [ptr |-> n[x].ptr, size |-> n[x].size]
                            /\ n[x].ptr \in DOMAIN n /\ n[x].size \in Nat
                            /\ Follows(n, x, n[x].ptr)
    BY DEF Chain
  <1>4. \A x \in DOMAIN n : i[x].size = n[x].size
    BY <1>2
  <1>5. DOMAIN i \in SUBSET Nat /\ IsFiniteSet(DOMAIN i) /\ 0 \in DOMAIN i
    BY <1>1, <1>2, FS_AddElement DEF Chain
  <1>6. i[0] = [ptr |-> i[0].ptr, size |-> 0]
    <2>1. 0 \in DOMAIN n /\ n[0] = [ptr |-> n[0].ptr, size |-> 0]
      BY DEF Chain
    <2> QED BY <1>1, <1>2, <2>1
  <1>7. ASSUME NEW x \in DOMAIN i
        PROVE  /\ i[x] = [ptr |-> i[x].ptr, size |-> i[x].size]
               /\ i[x].ptr \in DOMAIN i /\ i[x].size \in Nat /\ Follows(i, x, i[x].ptr)
    <2>1. CASE x = bp
      <3>1. i[x].ptr = q /\ q \in DOMAIN n /\ q \in Nat
        BY <1>1, <1>2, <1>3, <2>1
      <3>2. Follows(i, bp, q)
        <4>1. CASE q = 0 /\ \A z \in DOMAIN n : z <= p
          BY <1>1, <1>2, <4>1 DEF Follows
        <4>2. CASE q > p /\ \A z \in DOMAIN n : z <= p \/ z >= q
          <5>1. q > bp
            BY <1>1, <3>1, <4>2 DEF Below
          <5> QED BY <1>1, <1>2, <3>1, <4>2, <5>1 DEF Follows
        <4> QED BY <1>1, <1>3, <4>1, <4>2 DEF Follows
      <3> QED BY <1>1, <1>2, <2>1, <3>1, <3>2
    <2>2. CASE x = p
      <3>1. i[x].ptr = bp
        BY <1>2, <2>2
      <3>2. Follows(i, p, bp)
        <4>1. \A z \in DOMAIN n : z <= p \/ z >= bp
          BY <1>1 DEF Below
        <4> QED BY <1>1, <1>2, <4>1 DEF Follows
      <3> QED BY <1>1, <1>2, <1>3, <2>2, <3>1, <3>2
    <2>3. CASE x # p /\ x # bp
      <3>1. x \in DOMAIN n /\ i[x] = n[x] /\ x \in Nat
        BY <1>1, <1>2, <2>3
      <3>2. n[x].ptr \in Nat /\ (x <= p \/ x > bp)
        BY <1>1, <1>3, <3>1 DEF Below
      <3>3. CASE n[x].ptr = 0 /\ \A z \in DOMAIN n : z <= x
        <4>1. x > bp
          BY <1>1, <2>3, <3>1, <3>2, <3>3
        <4> QED BY <1>1, <1>2, <1>3, <3>1, <3>3, <4>1 DEF Follows
      <3>4. CASE n[x].ptr > x /\ \A z \in DOMAIN n : z <= x \/ z >= n[x].ptr
        <4>1. bp <= x \/ bp >= n[x].ptr
          BY <1>1, <2>3, <3>1, <3>2, <3>4
        <4> QED BY <1>1, <1>2, <1>3, <3>1, <3>4, <4>1 DEF Follows
      <3> QED BY <1>3, <3>1, <3>3, <3>4 DEF Follows
    <2> QED BY <2>1, <2>2, <2>3
  <1>8. ASSUME NEW x \in DOMAIN i, NEW y \in DOMAIN i, x # y PROVE y \notin Span(x, i[x].size)
    <2>1. CASE x = bp
      BY <1>2, <1>8, <2>1 DEF Unclaimed
    <2>2. CASE x # bp /\ y = bp
      BY <1>2, <1>4, <2>2 DEF Unclaimed
    <2>3. CASE x # bp /\ y # bp
      BY <1>2, <1>4, <1>8, <2>3 DEF Chain
    <2> QED BY <2>1, <2>2, <2>3
  <1>9. Chain(i)
    BY <1>2, <1>5, <1>6, <1>7, <1>8 DEF Chain
  <1> QED BY <1>9 DEF i

\* i is the ring n without q, that came after x; x has s.
Skipped(i, n, x, q, s) ==
  /\ DOMAIN i = DOMAIN n \ {q} /\ i = [z \in DOMAIN i |-> i[z]]
  /\ x \in DOMAIN i /\ i[x] = [ptr |-> n[q].ptr, size |-> s]
  /\ \A z \in DOMAIN i : z # x => i[z] = n[z]

LEMMA NextIs ==
  ASSUME NEW n, Chain(n), NEW x \in DOMAIN n, n[x].ptr # 0
  PROVE  /\ n[x].ptr \in DOMAIN n /\ n[x].ptr > x
         /\ \A z \in DOMAIN n : z <= x \/ z >= n[x].ptr
  BY DEF Chain, Follows

LEMMA SkipIs ==
  ASSUME NEW n, Chain(n), NEW x \in DOMAIN n, n[x].ptr # 0, NEW s
  PROVE  Skipped(Skip(n, x, s), n, x, n[x].ptr, s)
  <1> DEFINE q == n[x].ptr
             upd == Without(n, q)
  <1>1. q \in DOMAIN n /\ q > x /\ (\A z \in DOMAIN n : z <= x \/ z >= q)
    BY DEF Chain, Follows
  <1>2. x \in Nat /\ q \in Nat
    BY <1>1 DEF Chain
  <1>3. DOMAIN upd = DOMAIN n \ {q} /\ \A z \in DOMAIN upd : upd[z] = n[z]
    BY DEF Without
  <1>4. Skip(n, x, s) = With(upd, x, [ptr |-> n[q].ptr, size |-> s])
    BY DEF Skip
  <1>5. x \in DOMAIN n \ {q}
    BY <1>1, <1>2
  <1> HIDE DEF upd, q
  <1> DEFINE i == With(upd, x, [ptr |-> n[q].ptr, size |-> s])
  <1>6. DOMAIN i = DOMAIN n \ {q} /\ i = [z \in DOMAIN i |-> i[z]]
        /\ i[x] = [ptr |-> n[q].ptr, size |-> s]
        /\ \A z \in DOMAIN i : z # x => i[z] = n[z]
    BY <1>3, <1>5 DEF With
  <1> HIDE DEF i
  <1>7. Skipped(i, n, x, q, s)
    BY <1>3, <1>5, <1>6 DEF Skipped
  <1> QED BY <1>4, <1>7 DEF i, q

LEMMA SkipRight ==
  ASSUME NEW n, Chain(n), NEW x \in DOMAIN n, n[x].ptr # 0, NEW s \in Nat, x = 0 => s = 0,
         \A y \in DOMAIN n : y # x /\ y # n[x].ptr => y \notin Span(x, s)
  PROVE  Chain(Skip(n, x, s))
  <1> DEFINE i == Skip(n, x, s)
             q == n[x].ptr
  <1>1. q \in DOMAIN n /\ q > x /\ (\A z \in DOMAIN n : z <= x \/ z >= q)
    BY NextIs
  <1>2. /\ DOMAIN i = DOMAIN n \ {q} /\ i = [z \in DOMAIN i |-> i[z]]
        /\ x \in DOMAIN i /\ i[x] = [ptr |-> n[q].ptr, size |-> s]
        /\ \A z \in DOMAIN i : z # x => i[z] = n[z]
    <2>1. Skipped(i, n, x, q, s)
      BY SkipIs
    <2> HIDE DEF i, q
    <2> QED BY <2>1 DEF Skipped
  <1> HIDE DEF i
  <1>3. \A z \in DOMAIN n : /\ n[z] = [ptr |-> n[z].ptr, size |-> n[z].size]
                            /\ n[z].ptr \in DOMAIN n /\ n[z].size \in Nat
                            /\ Follows(n, z, n[z].ptr)
    BY DEF Chain
  <1>4. DOMAIN n \in SUBSET Nat /\ 0 \in DOMAIN n /\ x \in Nat /\ q \in Nat /\ q # 0
    BY <1>1 DEF Chain
  <1>5. DOMAIN i \in SUBSET Nat /\ IsFiniteSet(DOMAIN i) /\ 0 \in DOMAIN i
    BY <1>2, <1>4, FS_Subset DEF Chain
  <1>6. i[0] = [ptr |-> i[0].ptr, size |-> 0]
    <2>1. n[0] = [ptr |-> n[0].ptr, size |-> 0]
      BY DEF Chain
    <2> QED BY <1>2, <1>5, <2>1
  <1>7. ASSUME NEW z \in DOMAIN i
        PROVE  /\ i[z] = [ptr |-> i[z].ptr, size |-> i[z].size]
               /\ i[z].ptr \in DOMAIN i /\ i[z].size \in Nat /\ Follows(i, z, i[z].ptr)
    <2>1. CASE z = x
      <3> DEFINE rest == n[q].ptr
      <3>1. i[z].ptr = rest /\ i[z].size = s /\ rest \in DOMAIN n /\ rest \in Nat /\ Follows(n, q, rest)
        BY <1>1, <1>2, <1>3, <1>4, <2>1
      <3> HIDE DEF rest
      <3>2. rest # q
        BY <1>4, <3>1 DEF Follows
      <3>3. \A y \in DOMAIN i : y \in DOMAIN n /\ y # q /\ (y <= x \/ y >= q) /\ y \in Nat
        BY <1>1, <1>2, <1>4
      <3>4. CASE rest = 0 /\ \A y \in DOMAIN n : y <= q
        <4>1. \A y \in DOMAIN i : y <= x
          BY <1>4, <3>3, <3>4
        <4>2. Follows(i, x, rest)
          BY <3>4, <4>1 DEF Follows
        <4> QED BY <1>2, <2>1, <3>1, <3>2, <4>2
      <3>5. CASE rest > q /\ \A y \in DOMAIN n : y <= q \/ y >= rest
        <4>1. \A y \in DOMAIN i : y <= x \/ y >= rest
          BY <1>4, <3>1, <3>3, <3>5
        <4>2. rest > x
          BY <1>1, <1>4, <3>1, <3>5
        <4>3. Follows(i, x, rest)
          BY <4>1, <4>2 DEF Follows
        <4> QED BY <1>2, <2>1, <3>1, <3>2, <4>3
      <3> QED BY <3>1, <3>4, <3>5 DEF Follows
    <2>2. CASE z # x
      <3>1. z \in DOMAIN n /\ z # q /\ i[z] = n[z] /\ z \in Nat
        BY <1>2, <1>4, <2>2
      <3>2. n[z].ptr # q
        <4>1. SUFFICES ASSUME n[z].ptr = q PROVE FALSE
          OBVIOUS
        <4>2. q > z /\ \A y \in DOMAIN n : y <= z \/ y >= q
          BY <1>3, <1>4, <3>1, <4>1 DEF Follows
        <4>3. x <= z /\ z <= x
          BY <1>1, <1>4, <3>1, <4>2
        <4> QED BY <1>4, <2>2, <3>1, <4>3
      <3>3. Follows(i, z, n[z].ptr)
        BY <1>2, <1>3, <3>1 DEF Follows
      <3> QED BY <1>2, <1>3, <3>1, <3>2, <3>3
    <2> QED BY <2>1, <2>2
  <1>8. ASSUME NEW z \in DOMAIN i, NEW y \in DOMAIN i, z # y PROVE y \notin Span(z, i[z].size)
    <2>1. CASE z = x
      BY <1>2, <1>8, <2>1
    <2>2. CASE z # x
      BY <1>2, <1>8, <2>2 DEF Chain
    <2> QED BY <2>1, <2>2
  <1>9. Chain(i)
    BY <1>2, <1>5, <1>6, <1>7, <1>8 DEF Chain
  <1> QED BY <1>9 DEF i

\* Two blocks that touch become one.
LEMMA SpansMeet ==
  ASSUME NEW x \in Nat, NEW a \in Nat, NEW b \in Nat
  PROVE  Span(x, a + b) = Span(x, a) \cup Span(x + a, b)
  <1>1. ASSUME NEW c PROVE c \in Span(x, a + b) <=> c \in Span(x, a) \cup Span(x + a, b)
    BY DEF Span
  <1> QED BY <1>1

LEMMA InsertHeaders ==
  ASSUME NEW n, Chain(n), NEW bp, NEW s, Unclaimed(n, bp, s), NEW p \in DOMAIN n
  PROVE  Headers(Insert(n, p, bp, s)) = Headers(n) \cup Span(bp, s)
  <1> DEFINE i == Insert(n, p, bp, s)
  <1>1. bp \notin DOMAIN n /\ bp \in Nat /\ s \in Nat
    BY DEF Unclaimed
  <1>2. DOMAIN i = DOMAIN n \cup {bp} /\ i[bp].size = s /\ \A x \in DOMAIN n : i[x].size = n[x].size
    <2>1. Inserted(i, n, p, bp, s)
      BY <1>1, InsertIs
    <2> HIDE DEF i
    <2> QED BY <1>1, <2>1 DEF Inserted
  <1> HIDE DEF i
  <1>3. \A c \in Span(bp, s) : c \in Nat
    BY <1>1 DEF Span
  <1>4. ASSUME NEW c PROVE c \in Headers(i) <=> c \in Headers(n) \cup Span(bp, s)
    BY <1>2, <1>3 DEF Headers
  <1> QED BY <1>4 DEF i

LEMMA SkipHeaders ==
  ASSUME NEW n, Chain(n), NEW x \in DOMAIN n, n[x].ptr # 0, NEW s \in Nat, NEW c \in Nat
  PROVE  LET q == n[x].ptr IN
         c \in Headers(Skip(n, x, s)) <=>
           \/ c \in Span(x, s)
           \/ \E z \in DOMAIN n : z # x /\ z # q /\ c \in Span(z, n[z].size)
  <1> DEFINE i == Skip(n, x, s)
             q == n[x].ptr
  <1>1. /\ DOMAIN i = DOMAIN n \ {q} /\ x \in DOMAIN i /\ i[x].size = s
        /\ \A z \in DOMAIN i : z # x => i[z].size = n[z].size
    <2>1. Skipped(i, n, x, q, s)
      BY SkipIs
    <2> HIDE DEF i, q
    <2> QED BY <2>1 DEF Skipped
  <1> HIDE DEF i
  <1>2. c \in Headers(i) <=> \/ c \in Span(x, s)
                             \/ \E z \in DOMAIN n : z # x /\ z # q /\ c \in Span(z, n[z].size)
    BY <1>1 DEF Headers
  <1> QED BY <1>2 DEF i

\* The block after x is x's memory's end: joined, they have what both had.
Meets(n, x) == x + n[x].size = n[x].ptr /\ n[x].ptr # 0

LEMMA JoinRight ==
  ASSUME NEW n, Chain(n), NEW x \in DOMAIN n, Meets(n, x)
  PROVE  LET q == n[x].ptr
             i == Skip(n, x, n[x].size + n[q].size)
         IN  Chain(i) /\ Headers(i) = Headers(n) /\ i[x].size > n[x].size + n[q].size - 1 /\ i[x].size > 0
  <1> DEFINE q == n[x].ptr
             s == n[x].size + n[q].size
             i == Skip(n, x, s)
  <1>1. q \in DOMAIN n /\ q > x /\ x \in Nat /\ q \in Nat /\ n[x].size \in Nat /\ n[q].size \in Nat
    <2>1. q \in DOMAIN n /\ q > x
      BY NextIs DEF Meets
    <2> QED BY <2>1 DEF Chain
  <1>2. x + n[x].size = q /\ q # 0
    BY DEF Meets
  <1>3. s \in Nat /\ s > 0
    BY <1>1, <1>2
  <1>4. Span(x, s) = Span(x, n[x].size) \cup Span(q, n[q].size)
    <2>1. Span(x, s) = Span(x, n[x].size) \cup Span(x + n[x].size, n[q].size)
      <3> HIDE DEF q
      <3>1. \A a, b, c \in Nat : Span(a, b + c) = Span(a, b) \cup Span(a + b, c)
        BY SpansMeet
      <3> QED BY <1>1, <3>1
    <2> QED BY <1>2, <2>1
  <1>5. x # 0
    <2>1. n[0].size = 0
      BY DEF Chain
    <2> QED BY <1>1, <1>2, <2>1
  <1>6. Chain(i)
    <2>1. \A y \in DOMAIN n : y # x /\ y # q => y \notin Span(x, s)
      BY <1>1, <1>4 DEF Chain
    <2> HIDE DEF s
    <2> QED BY <1>2, <1>3, <1>5, <2>1, SkipRight
  <1>7. Headers(i) = Headers(n)
    <2>1. ASSUME NEW c \in Nat PROVE c \in Headers(i) <=> c \in Headers(n)
      <3>1. c \in Headers(i) <=> \/ c \in Span(x, s)
                                 \/ \E z \in DOMAIN n : z # x /\ z # q /\ c \in Span(z, n[z].size)
        <4> HIDE DEF s
        <4> QED BY <1>2, <1>3, SkipHeaders
      <3> QED BY <1>1, <1>4, <3>1 DEF Headers
    <2>2. Headers(i) \in SUBSET Nat /\ Headers(n) \in SUBSET Nat
      BY DEF Headers
    <2> QED BY <2>1, <2>2
  <1>8. i[x].size = s
    <2>1. Skipped(i, n, x, q, s)
      BY <1>2, SkipIs
    <2> HIDE DEF i, s
    <2> QED BY <2>1 DEF Skipped
  <1> QED BY <1>1, <1>3, <1>6, <1>7, <1>8

(***************************************************************************)
(* free: a block comes in, and is joined with its neighbours.              *)
(***************************************************************************)
IsMap(f) == f = [x \in DOMAIN f |-> f[x]]

LEMMA MapsEqual ==
  ASSUME NEW f, NEW g, IsMap(f), IsMap(g), DOMAIN f = DOMAIN g, \A x \in DOMAIN f : f[x] = g[x]
  PROVE  f = g
  BY DEF IsMap

IsWith(g, f, a, v) ==
  /\ IsMap(g) /\ DOMAIN g = DOMAIN f \cup {a} /\ g[a] = v
  /\ \A x \in DOMAIN f : x # a => g[x] = f[x]

IsWithout(g, f, a) ==
  IsMap(g) /\ DOMAIN g = DOMAIN f \ {a} /\ \A x \in DOMAIN g : g[x] = f[x]

LEMMA WithIs ==
  ASSUME NEW f, NEW a, NEW v
  PROVE  IsWith(With(f, a, v), f, a, v)
  BY DEF With, IsWith, IsMap

LEMMA WithoutIs ==
  ASSUME NEW f, NEW a
  PROVE  IsWithout(Without(f, a), f, a)
  BY DEF Without, IsWithout, IsMap

LEMMA BelowExists ==
  ASSUME NEW n, Chain(n), NEW bp \in Nat \ {0}, bp \notin DOMAIN n
  PROVE  \E p \in DOMAIN n : Below(n, p, bp)
  <1> DEFINE S == {z \in DOMAIN n : z < bp}
  <1>1. S \in SUBSET Nat /\ IsFiniteSet(S) /\ 0 \in S /\ DOMAIN n \in SUBSET Nat
    BY FS_Subset DEF Chain
  <1>2. PICK p \in S : \A y \in S : y <= p
    <2> HIDE DEF S
    <2> QED BY <1>1, GreatestOne
  <1>3. p \in DOMAIN n /\ p \in Nat /\ p < bp
    BY <1>1
  <1>4. \A z \in DOMAIN n : z <= p \/ z > bp
    <2>1. SUFFICES ASSUME NEW z \in DOMAIN n PROVE z <= p \/ z > bp
      OBVIOUS
    <2>2. z \in Nat /\ z # bp /\ (z < bp => z \in S)
      BY <1>1
    <2> QED BY <1>2, <2>2
  <1>5. n[p].ptr = 0 \/ n[p].ptr > bp
    <2>1. n[p].ptr \in DOMAIN n /\ Follows(n, p, n[p].ptr)
      BY <1>3 DEF Chain
    <2> QED BY <1>1, <1>3, <1>4, <2>1 DEF Follows
  <1> QED BY <1>3, <1>4, <1>5 DEF Below

LEMMA BetweenIsBelow ==
  ASSUME NEW h, Chain(h.node), NEW p \in DOMAIN h.node, NEW bp \in Nat \ {0}, bp \notin DOMAIN h.node
  PROVE  Between(h, p, bp) <=> Below(h.node, p, bp)
  <1> DEFINE n == h.node
             q == n[p].ptr
  <1>1. p \in Nat /\ q \in Nat /\ q \in DOMAIN n /\ Follows(n, p, q) /\ DOMAIN n \in SUBSET Nat
    BY DEF Chain
  <1>2. Between(h, p, bp) <=> (bp > p /\ bp < q) \/ (p >= q /\ (bp > p \/ bp < q))
    BY DEF Between
  <1> HIDE DEF q
  <1>3. CASE q = 0 /\ \A z \in DOMAIN n : z <= p
    <2>1. Between(h, p, bp) <=> bp > p
      BY <1>1, <1>2, <1>3
    <2>2. Below(n, p, bp) <=> bp > p
      BY <1>1, <1>3 DEF Below, q
    <2> QED BY <2>1, <2>2
  <1>4. CASE q > p /\ \A z \in DOMAIN n : z <= p \/ z >= q
    <2>1. Between(h, p, bp) <=> bp > p /\ bp < q
      BY <1>1, <1>2, <1>4
    <2>2. bp > p /\ bp < q => Below(n, p, bp)
      BY <1>1, <1>4 DEF Below, q
    <2>3. Below(n, p, bp) => bp > p /\ bp < q
      BY <1>1, <1>4 DEF Below, q
    <2> QED BY <2>1, <2>2, <2>3
  <1> QED BY <1>1, <1>3, <1>4 DEF Follows

LEMMA BeforeRight ==
  ASSUME NEW h, Chain(h.node), h.freep \in DOMAIN h.node,
         NEW bp \in Nat \ {0}, bp \notin DOMAIN h.node
  PROVE  Below(h.node, Before(h, bp), bp)
  <1> DEFINE N == Cardinality(DOMAIN h.node)
             hop == Hop(h)
             here == {k \in DOMAIN hop : Between(h, hop[k], bp)}
  <1>1. N \in Nat /\ DOMAIN hop = 0 .. N /\ \A k \in 0 .. N : hop[k] \in DOMAIN h.node
    BY HopIs
  <1>2. PICK p \in DOMAIN h.node : Below(h.node, p, bp)
    BY BelowExists
  <1>3. PICK k \in 1 .. N : hop[k] = p
    BY HopAll
  <1> HIDE DEF N, hop
  <1>4. k \in here /\ here \in SUBSET Nat
    <2>1. k \in DOMAIN hop
      BY <1>1
    <2> QED BY <1>1, <1>2, <1>3, <2>1, BetweenIsBelow
  <1>5. Min(here) \in here
    <2> HIDE DEF here
    <2> QED BY <1>4, MinIsLeast
  <1>6. Before(h, bp) = hop[Min(here)]
    BY DEF Before, hop
  <1>7. Between(h, hop[Min(here)], bp) /\ hop[Min(here)] \in DOMAIN h.node
    BY <1>1, <1>5
  <1> QED BY <1>6, <1>7, BetweenIsBelow

\* x with the memory of the block after it, if they touch.
Joined(n, x) ==
  IF Meets(n, x) THEN Skip(n, x, n[x].size + n[n[x].ptr].size) ELSE n

LEMMA JoinedRight ==
  ASSUME NEW n, Chain(n), NEW x \in DOMAIN n
  PROVE  LET j == Joined(n, x) IN
         /\ Chain(j) /\ Headers(j) = Headers(n) /\ x \in DOMAIN j /\ j[x].size >= n[x].size
         /\ \A z \in DOMAIN j : z \in DOMAIN n /\ (z # x => j[z] = n[z])
         /\ \A z \in DOMAIN j : j[z].size = 0 => n[z].size = 0
         /\ \A z \in DOMAIN j : z # x /\ Gap(n, z) => Gap(j, z)
         /\ (Meets(n, x) => Gap(n, n[x].ptr)) => Gap(j, x)
  <1> DEFINE j == Joined(n, x)
  <1>1. CASE ~ Meets(n, x)
    <2>1. j = n /\ n[x].size \in Nat
      BY <1>1 DEF Joined, Chain
    <2>2. Gap(n, x)
      BY <1>1 DEF Gap, Meets
    <2> HIDE DEF j
    <2>3. n[x].size >= n[x].size
      BY <2>1
    <2> QED BY <2>1, <2>2, <2>3 DEF j
  <1>2. CASE Meets(n, x)
    <2> DEFINE q == n[x].ptr
               s == n[x].size + n[q].size
               i == Skip(n, x, s)
    <2>1. j = i
      BY <1>2 DEF Joined
    <2>2. Chain(i) /\ Headers(i) = Headers(n) /\ i[x].size > 0
      BY <1>2, JoinRight
    <2>3. Skipped(i, n, x, q, s)
      BY <1>2, SkipIs DEF Meets
    <2>4. /\ q \in DOMAIN n /\ q > x /\ x \in Nat /\ q \in Nat /\ n[x].size \in Nat /\ n[q].size \in Nat
          /\ x + n[x].size = q /\ n[q].ptr \in Nat
      <3>1. q \in DOMAIN n /\ q > x
        BY <1>2, NextIs DEF Meets
      <3>2. \A z \in DOMAIN n : z \in Nat /\ n[z].ptr \in DOMAIN n /\ n[z].size \in Nat
        BY DEF Chain
      <3> QED BY <1>2, <3>1, <3>2 DEF Meets
    <2> HIDE DEF i, j, q
    <2>5. /\ DOMAIN i = DOMAIN n \ {q} /\ x \in DOMAIN i /\ i[x].ptr = n[q].ptr /\ i[x].size = s
          /\ \A z \in DOMAIN i : z # x => i[z] = n[z]
      BY <2>3 DEF Skipped
    <2>6. i[x].size >= n[x].size
      BY <2>4, <2>5
    <2>7. \A z \in DOMAIN i : i[z].size = 0 => n[z].size = 0
      BY <2>4, <2>5
    <2>8. \A z \in DOMAIN i : z # x /\ Gap(n, z) => Gap(i, z)
      BY <2>5 DEF Gap
    <2>9. Gap(n, q) => Gap(i, x)
      <3>1. x + s = q + n[q].size
        BY <2>4
      <3> QED BY <2>5, <3>1 DEF Gap
    <2>10. \A z \in DOMAIN i : z \in DOMAIN n
      BY <2>5
    <2> HIDE DEF s
    <2> QED BY <1>2, <2>1, <2>2, <2>5, <2>6, <2>7, <2>8, <2>9, <2>10 DEF q, j
  <1> QED BY <1>1, <1>2

\* What free does with the block above, in the words of its definition.
Upper(n, bp, s, q) ==
  IF Touches(bp, s, q)
  THEN [node |-> Without(n, q), head |-> [ptr |-> n[q].ptr, size |-> s + n[q].size]]
  ELSE [node |-> n, head |-> [ptr |-> q, size |-> s]]

\* The ring j is u's with a block at bp after p, a block of s.
Hangs(j, u, p, bp, s) ==
  /\ IsMap(j) /\ IsMap(u.node) /\ DOMAIN j = DOMAIN u.node \cup {bp}
  /\ bp \notin DOMAIN u.node /\ p \in DOMAIN u.node /\ p # bp
  /\ j[bp] = u.head /\ j[p] = [ptr |-> bp, size |-> s]
  /\ u.node[p] = [ptr |-> u.node[p].ptr, size |-> s]
  /\ \A z \in DOMAIN u.node : z # p => j[z] = u.node[z]

LEMMA UpperIs ==
  ASSUME NEW n, Chain(n), NEW bp, NEW s, Unclaimed(n, bp, s), NEW p, Below(n, p, bp)
  PROVE  Hangs(Joined(Insert(n, p, bp, s), bp), Upper(n, bp, s, n[p].ptr), p, bp, n[p].size)
  <1> DEFINE i == Insert(n, p, bp, s)
             q == n[p].ptr
             u == Upper(n, bp, s, q)
             j == Joined(i, bp)
  <1>1. /\ bp \in Nat \ {0} /\ s \in Nat /\ bp \notin DOMAIN n /\ p \in DOMAIN n /\ p < bp
        /\ DOMAIN n \in SUBSET Nat /\ q \in DOMAIN n /\ (q = 0 \/ q > bp)
        /\ n[p] = [ptr |-> q, size |-> n[p].size] /\ IsMap(n)
    BY DEF Unclaimed, Below, Chain, IsMap
  <1>2. Chain(i)
    BY <1>1, InsertRight
  <1>3. Inserted(i, n, p, bp, s)
    BY <1>1, InsertIs
  <1> HIDE DEF i
  <1>4. /\ DOMAIN i = DOMAIN n \cup {bp} /\ IsMap(i)
        /\ i[bp] = [ptr |-> q, size |-> s] /\ i[p] = [ptr |-> bp, size |-> n[p].size]
        /\ \A x \in DOMAIN n : x # p => i[x] = n[x]
    BY <1>3 DEF Inserted, IsMap
  <1> HIDE DEF q
  <1>5. Meets(i, bp) <=> Touches(bp, s, q)
    BY <1>1, <1>4 DEF Meets, Touches
  <1>6. p # bp
    BY <1>1
  <1>7. CASE ~ Touches(bp, s, q)
    <2>1. u.node = n /\ u.head = [ptr |-> q, size |-> s] /\ j = i
      BY <1>5, <1>7 DEF Upper, Joined
    <2> HIDE DEF u, j
    <2>2. /\ IsMap(j) /\ IsMap(u.node) /\ DOMAIN j = DOMAIN u.node \cup {bp}
             /\ bp \notin DOMAIN u.node /\ p \in DOMAIN u.node
             /\ j[bp] = u.head /\ j[p] = [ptr |-> bp, size |-> n[p].size]
      BY <1>1, <1>4, <2>1
    <2>3. /\ u.node[p] = [ptr |-> u.node[p].ptr, size |-> n[p].size]
          /\ \A z \in DOMAIN u.node : z # p => j[z] = u.node[z]
      BY <1>1, <1>4, <2>1
    <2>4. Hangs(j, u, p, bp, n[p].size)
      BY <1>6, <2>2, <2>3 DEF Hangs
    <2> QED BY <2>4 DEF i, q, u, j
  <1>8. CASE Touches(bp, s, q)
    <2>1. bp + s = q /\ q # p /\ q # bp /\ q # 0
      BY <1>1, <1>8 DEF Touches
    <2>2. u.node = Without(n, q) /\ u.head = [ptr |-> n[q].ptr, size |-> s + n[q].size]
      BY <1>8 DEF Upper
    <2> DEFINE t == i[bp].size + i[i[bp].ptr].size
    <2>3. j = Skip(i, bp, t)
      BY <1>5, <1>8 DEF Joined
    <2>4. i[bp].ptr = q /\ i[q] = n[q] /\ t = s + n[q].size /\ bp \in DOMAIN i
      BY <1>1, <1>4, <2>1
    <2> HIDE DEF t, u, j
    <2>5. Skipped(j, i, bp, q, t)
      <3>1. Skipped(Skip(i, bp, t), i, bp, i[bp].ptr, t)
        BY <1>2, <2>1, <2>4, SkipIs
      <3> QED BY <2>3, <2>4, <3>1
    <2>6. /\ DOMAIN j = DOMAIN i \ {q} /\ IsMap(j) /\ j[bp] = [ptr |-> i[q].ptr, size |-> t]
          /\ \A z \in DOMAIN j : z # bp => j[z] = i[z]
      BY <2>5 DEF Skipped, IsMap
    <2>7. /\ IsMap(u.node) /\ DOMAIN u.node = DOMAIN n \ {q}
          /\ \A x \in DOMAIN n : x # q => u.node[x] = n[x]
      <3>1. IsWithout(u.node, n, q)
        BY <2>2, WithoutIs
      <3> QED BY <3>1 DEF IsWithout
    <2>8. /\ DOMAIN j = DOMAIN u.node \cup {bp}
          /\ bp \notin DOMAIN u.node /\ p \in DOMAIN u.node
      BY <1>1, <1>4, <2>1, <2>6, <2>7
    <2>9. j[bp] = u.head
      BY <2>2, <2>4, <2>6
    <2>10. u.node[p] = n[p] /\ j[p] = i[p]
      BY <1>1, <1>6, <2>1, <2>6, <2>7, <2>8
    <2>11. ASSUME NEW z \in DOMAIN u.node, z # p PROVE j[z] = u.node[z]
      <3>1. z \in DOMAIN n /\ z # q /\ z # bp /\ z \in DOMAIN j
        BY <1>1, <2>7, <2>8, <2>11
      <3> QED BY <1>4, <2>6, <2>7, <2>11, <3>1
    <2>12. u.node[p] = [ptr |-> u.node[p].ptr, size |-> n[p].size]
      BY <1>1, <2>10
    <2>13. Hangs(j, u, p, bp, n[p].size)
      BY <1>4, <1>6, <2>6, <2>7, <2>8, <2>9, <2>10, <2>11, <2>12 DEF Hangs
    <2> QED BY <2>13 DEF i, q, u, j
  <1> QED BY <1>7, <1>8

LEMMA FreedIs ==
  ASSUME NEW h, Chain(h.node), NEW bp, NEW s, Unclaimed(h.node, bp, s), Below(h.node, Before(h, bp), bp)
  PROVE  Freed(h, bp, s) =
           [node  |-> Joined(Joined(Insert(h.node, Before(h, bp), bp, s), bp), Before(h, bp)),
            freep |-> Before(h, bp)]
  <1> DEFINE n == h.node
             p == Before(h, bp)
             q == n[p].ptr
             u == Upper(n, bp, s, q)
             j == Joined(Insert(n, p, bp, s), bp)
             k == Joined(j, p)
             T == Touches(p, u.node[p].size, bp)
             f == IF T THEN With(u.node, p, [ptr |-> u.head.ptr, size |-> u.node[p].size + u.head.size])
                       ELSE With(With(u.node, p, [u.node[p] EXCEPT !.ptr = bp]), bp, u.head)
  <1>1. Freed(h, bp, s) = [node |-> f, freep |-> p]
    BY DEF Freed, Upper
  <1>2. /\ IsMap(j) /\ IsMap(u.node) /\ DOMAIN j = DOMAIN u.node \cup {bp}
        /\ bp \notin DOMAIN u.node /\ p \in DOMAIN u.node /\ p # bp
        /\ j[bp] = u.head /\ j[p] = [ptr |-> bp, size |-> n[p].size]
        /\ u.node[p] = [ptr |-> u.node[p].ptr, size |-> n[p].size]
        /\ \A z \in DOMAIN u.node : z # p => j[z] = u.node[z]
    <2>1. Hangs(j, u, p, bp, n[p].size)
      BY UpperIs
    <2> HIDE DEF n, p, q, u, j
    <2> QED BY <2>1 DEF Hangs
  <1>3. Chain(j)
    <2>1. Chain(Insert(n, p, bp, s)) /\ bp \in DOMAIN Insert(n, p, bp, s)
      <3>1. Inserted(Insert(n, p, bp, s), n, p, bp, s)
        BY InsertIs DEF Unclaimed, Below
      <3>2. bp \in DOMAIN Insert(n, p, bp, s)
        BY <3>1 DEF Inserted
      <3> QED BY <3>2, InsertRight
    <2> QED BY <2>1, JoinedRight
  <1>4. bp # 0
    BY DEF Unclaimed
  <1> HIDE DEF n, p, q, u, j
  <1>5. Meets(j, p) <=> T
    BY <1>2, <1>4 DEF Meets, Touches
  <1>6. k = f
    <2>1. CASE T
      <3> DEFINE t == j[p].size + j[j[p].ptr].size
      <3>1. k = Skip(j, p, t)
        BY <1>5, <2>1 DEF Joined
      <3>2. j[p].ptr = bp /\ t = u.node[p].size + u.head.size /\ p \in DOMAIN j
        BY <1>2
      <3> HIDE DEF t
      <3>3. Skipped(Skip(j, p, t), j, p, bp, t)
        BY <1>3, <1>4, <3>2, SkipIs
      <3>4. /\ DOMAIN k = DOMAIN j \ {bp} /\ IsMap(k) /\ k[p] = [ptr |-> j[bp].ptr, size |-> t]
            /\ \A z \in DOMAIN k : z # p => k[z] = j[z]
        BY <3>1, <3>3 DEF Skipped, IsMap
      <3> DEFINE v == [ptr |-> u.head.ptr, size |-> u.node[p].size + u.head.size]
      <3>5. f = With(u.node, p, v)
        BY <2>1
      <3>6. v = k[p]
        BY <1>2, <3>2, <3>4
      <3> HIDE DEF v, f, k
      <3>7. IsMap(f) /\ DOMAIN f = DOMAIN u.node /\ f[p] = v
            /\ \A z \in DOMAIN u.node : z # p => f[z] = u.node[z]
        <4>1. IsWith(f, u.node, p, v)
          BY <3>5, WithIs
        <4> QED BY <1>2, <4>1 DEF IsWith
      <3>8. DOMAIN f = DOMAIN k /\ \A z \in DOMAIN f : f[z] = k[z]
        BY <1>2, <3>4, <3>6, <3>7
      <3> QED BY <3>4, <3>7, <3>8, MapsEqual
    <2>2. CASE ~ T
      <3>1. k = j
        BY <1>5, <2>2 DEF Joined
      <3> DEFINE v == [u.node[p] EXCEPT !.ptr = bp]
                 upd == With(u.node, p, v)
      <3>2. f = With(upd, bp, u.head)
        BY <2>2
      <3>3. v = [ptr |-> bp, size |-> n[p].size]
        BY <1>2
      <3>4. DOMAIN upd = DOMAIN u.node /\ upd[p] = v /\ \A z \in DOMAIN u.node : z # p => upd[z] = u.node[z]
        <4>1. IsWith(upd, u.node, p, v)
          BY WithIs
        <4> HIDE DEF v, upd
        <4> QED BY <1>2, <4>1 DEF IsWith
      <3> HIDE DEF upd, v, f, k
      <3>5. IsMap(f) /\ DOMAIN f = DOMAIN upd \cup {bp} /\ f[bp] = u.head
            /\ \A z \in DOMAIN upd : z # bp => f[z] = upd[z]
        <4>1. IsWith(f, upd, bp, u.head)
          BY <3>2, WithIs
        <4> QED BY <4>1 DEF IsWith
      <3>6. DOMAIN f = DOMAIN j /\ \A z \in DOMAIN f : f[z] = j[z]
        BY <1>2, <3>3, <3>4, <3>5
      <3>7. f = j
        BY <1>2, <3>5, <3>6, MapsEqual
      <3> QED BY <3>1, <3>7
    <2> QED BY <2>1, <2>2
  <1> HIDE DEF f, k
  <1>7. Freed(h, bp, s) = [node |-> k, freep |-> p]
    BY <1>1, <1>6
  <1> QED BY <1>7 DEF k, j, n, p

LEMMA FreedRight ==
  ASSUME NEW h, Ring(h.node), h.freep \in DOMAIN h.node, NEW bp, NEW s, Unclaimed(h.node, bp, s)
  PROVE  LET rest == Freed(h, bp, s) IN
         /\ Ring(rest.node) /\ rest.freep \in DOMAIN rest.node
         /\ Headers(rest.node) = Headers(h.node) \cup Span(bp, s)
         /\ \A x \in DOMAIN rest.node : rest.node[x].size = 0 =>
              (x \in DOMAIN h.node /\ h.node[x].size = 0) \/ (x = bp /\ s = 0)
         /\ \E x \in DOMAIN rest.node : rest.node[x].size >= s
  <1> DEFINE n == h.node
             p == Before(h, bp)
             i == Insert(n, p, bp, s)
             j == Joined(i, bp)
             k == Joined(j, p)
  <1>1. Chain(n) /\ \A x \in DOMAIN n : Gap(n, x)
    BY DEF Ring
  <1>2. bp \in Nat \ {0} /\ bp \notin DOMAIN n /\ s \in Nat
    BY DEF Unclaimed
  <1>3. Below(n, p, bp)
    BY <1>1, <1>2, BeforeRight
  <1>4. Freed(h, bp, s) = [node |-> k, freep |-> p]
    BY <1>1, <1>3, FreedIs
  <1>5. p \in DOMAIN n /\ p \in Nat /\ p # bp
    BY <1>1, <1>2, <1>3 DEF Below, Chain
  <1> HIDE DEF n, p
  <1>6. Chain(i) /\ Headers(i) = Headers(n) \cup Span(bp, s)
    BY <1>1, <1>3, <1>5, InsertRight, InsertHeaders DEF n
  <1>7. Inserted(i, n, p, bp, s)
    BY <1>1, <1>2, <1>5, InsertIs
  <1> HIDE DEF i
  <1>8. /\ DOMAIN i = DOMAIN n \cup {bp} /\ bp \in DOMAIN i /\ i[bp].size = s /\ i[bp].ptr = n[p].ptr
        /\ i[p].ptr = bp /\ i[p].size = n[p].size /\ \A x \in DOMAIN n : x # p => i[x] = n[x]
    BY <1>7 DEF Inserted
  <1>9. /\ Chain(j) /\ Headers(j) = Headers(i) /\ bp \in DOMAIN j /\ j[bp].size >= s
        /\ \A z \in DOMAIN j : z \in DOMAIN i /\ (z # bp => j[z] = i[z])
        /\ \A z \in DOMAIN j : j[z].size = 0 => i[z].size = 0
        /\ \A z \in DOMAIN j : z # bp /\ Gap(i, z) => Gap(j, z)
        /\ (Meets(i, bp) => Gap(i, i[bp].ptr)) => Gap(j, bp)
    <2>1. j[bp].size >= i[bp].size
      BY <1>6, <1>8, JoinedRight
    <2> QED BY <1>6, <1>8, <2>1, JoinedRight
  <1>10. p \in DOMAIN j
    <2>1. CASE Meets(i, bp)
      <3>1. Skipped(Skip(i, bp, i[bp].size + i[i[bp].ptr].size), i, bp, i[bp].ptr, i[bp].size + i[i[bp].ptr].size)
        BY <1>6, <1>8, <2>1, SkipIs DEF Meets
      <3>2. DOMAIN j = DOMAIN i \ {i[bp].ptr}
        BY <2>1, <3>1 DEF Joined, Skipped
      <3>3. i[bp].ptr # p
        <4>1. i[bp].ptr # 0
          BY <2>1 DEF Meets
        <4>2. i[bp].ptr > bp
          BY <1>6, <1>8, <4>1, NextIs
        <4> QED BY <1>2, <1>3, <1>5, <4>2 DEF Below
      <3> QED BY <1>5, <1>8, <3>2, <3>3
    <2>2. CASE ~ Meets(i, bp)
      BY <1>5, <1>8, <2>2 DEF Joined
    <2> QED BY <2>1, <2>2
  <1>11. ASSUME NEW z \in DOMAIN i, z # p, z # bp PROVE Gap(i, z)
    <2>1. z \in DOMAIN n /\ i[z] = n[z]
      BY <1>8, <1>11
    <2> QED BY <1>1, <2>1 DEF Gap
  <1>12. Meets(i, bp) => Gap(i, i[bp].ptr)
    <2>1. SUFFICES ASSUME Meets(i, bp) PROVE Gap(i, i[bp].ptr)
      OBVIOUS
    <2>2. i[bp].ptr \in DOMAIN i /\ i[bp].ptr > bp
      BY <1>6, <1>8, <2>1, NextIs DEF Meets
    <2>3. i[bp].ptr # p /\ i[bp].ptr # bp
      <3>1. i[bp].ptr \in Nat
        BY <1>6, <2>2 DEF Chain
      <3> QED BY <1>2, <1>3, <1>5, <2>2, <3>1 DEF Below
    <2> QED BY <1>11, <2>2, <2>3
  <1> HIDE DEF j
  <1>13. /\ Chain(k) /\ Headers(k) = Headers(j) /\ p \in DOMAIN k /\ k[p].size >= j[p].size
         /\ \A z \in DOMAIN k : z \in DOMAIN j /\ (z # p => k[z] = j[z])
         /\ \A z \in DOMAIN k : k[z].size = 0 => j[z].size = 0
         /\ \A z \in DOMAIN k : z # p /\ Gap(j, z) => Gap(k, z)
         /\ (Meets(j, p) => Gap(j, j[p].ptr)) => Gap(k, p)
    BY <1>9, <1>10, JoinedRight
  <1>14. j[p].ptr = bp
    BY <1>5, <1>8, <1>9, <1>10
  <1>15. bp \in DOMAIN k \/ k[p].size >= s
    <2>1. CASE Meets(j, p)
      <3> DEFINE t == j[p].size + j[j[p].ptr].size
      <3>1. Skipped(Skip(j, p, t), j, p, j[p].ptr, t)
        BY <1>9, <1>10, <2>1, SkipIs DEF Meets
      <3>2. k[p].size = t
        BY <2>1, <3>1 DEF Joined, Skipped
      <3>3. j[p].size \in Nat /\ j[bp].size \in Nat
        BY <1>9, <1>10 DEF Chain
      <3> QED BY <1>2, <1>9, <1>14, <3>2, <3>3
    <2>2. CASE ~ Meets(j, p)
      BY <1>9, <2>2 DEF Joined
    <2> QED BY <2>1, <2>2
  <1> HIDE DEF k
  <1>16. \A z \in DOMAIN k : Gap(k, z)
    <2>1. Gap(j, bp)
      BY <1>9, <1>12
    <2>2. ASSUME NEW z \in DOMAIN k, z # p PROVE Gap(k, z)
      <3>1. z \in DOMAIN j /\ z \in DOMAIN i
        BY <1>9, <1>13
      <3>2. Gap(j, z)
        BY <1>9, <1>11, <2>1, <2>2, <3>1
      <3> QED BY <1>13, <2>2, <3>2
    <2>3. Gap(k, p)
      BY <1>13, <1>14, <2>1
    <2> QED BY <2>2, <2>3
  <1>17. ASSUME NEW x \in DOMAIN k, k[x].size = 0
         PROVE  (x \in DOMAIN n /\ n[x].size = 0) \/ (x = bp /\ s = 0)
    <2>1. x \in DOMAIN j /\ x \in DOMAIN i /\ i[x].size = 0
      BY <1>9, <1>13, <1>17
    <2> QED BY <1>8, <2>1
  <1>18. \E x \in DOMAIN k : k[x].size >= s
    <2>1. bp # p /\ (bp \in DOMAIN k => k[bp] = j[bp])
      BY <1>5, <1>13
    <2> QED BY <1>9, <1>13, <1>15, <2>1
  <1>19. Freed(h, bp, s).node = k /\ Freed(h, bp, s).freep = p
    BY <1>4
  <1> QED BY <1>6, <1>9, <1>13, <1>16, <1>17, <1>18, <1>19 DEF n, Ring

(***************************************************************************)
(* malloc: a block, or the end of one, leaves the ring.                    *)
(***************************************************************************)
LEMMA FitsThere ==
  ASSUME NEW h, Chain(h.node), h.freep \in DOMAIN h.node, NEW m \in Nat,
         \E x \in DOMAIN h.node : h.node[x].size >= m
  PROVE  Fits(h, m) # {}
  <1> DEFINE hop == Hop(h)
             N == Cardinality(DOMAIN h.node)
  <1>1. N \in Nat /\ DOMAIN hop = 0 .. N
    BY HopIs
  <1>2. PICK x \in DOMAIN h.node : h.node[x].size >= m
    OBVIOUS
  <1>3. PICK k \in 1 .. N : hop[k] = x
    BY HopAll
  <1> HIDE DEF N, hop
  <1>4. k \in DOMAIN hop \ {0} /\ h.node[hop[k]].size >= m
    BY <1>1, <1>2, <1>3
  <1> QED BY <1>4 DEF Fits, hop

\* n without the last m Headers of the block at p.
Shrunk(n, p, m) == [n EXCEPT ![p].size = n[p].size - m]

\* What malloc of m leaves in the ring n, and the block a that it gives.
CutTo(n, m, i, f, a) ==
  /\ Ring(i) /\ f \in DOMAIN i /\ a \in Nat \ {0}
  /\ \A c \in Span(a, m) : c \in Headers(n)
  /\ Headers(i) = Headers(n) \ Span(a, m)
  /\ \A x \in DOMAIN i : i[x].size = 0 => x \in DOMAIN n /\ n[x].size = 0

LEMMA ShrunkIs ==
  ASSUME NEW n, Ring(n), NEW p \in DOMAIN n, NEW m \in Nat \ {0}, n[p].size > m, NEW f \in DOMAIN n
  PROVE  CutTo(n, m, Shrunk(n, p, m), f, p + n[p].size - m)
  <1> DEFINE i == Shrunk(n, p, m)
             s == n[p].size
             a == p + s - m
  <1>1. Chain(n) /\ \A x \in DOMAIN n : Gap(n, x)
    BY DEF Ring
  <1>2. DOMAIN n \in SUBSET Nat /\ p \in Nat /\ s \in Nat /\ s > m /\ IsFiniteSet(DOMAIN n) /\ 0 \in DOMAIN n
    BY <1>1 DEF Chain
  <1>3. \A x \in DOMAIN n : /\ n[x] = [ptr |-> n[x].ptr, size |-> n[x].size]
                            /\ n[x].ptr \in DOMAIN n /\ n[x].size \in Nat
                            /\ Follows(n, x, n[x].ptr)
    BY <1>1 DEF Chain
  <1>4. n = [x \in DOMAIN n |-> n[x]]
    BY <1>1 DEF Chain
  <1>5. DOMAIN i = DOMAIN n /\ i = [x \in DOMAIN i |-> i[x]]
        /\ i[p] = [ptr |-> n[p].ptr, size |-> s - m]
        /\ \A x \in DOMAIN n : x # p => i[x] = n[x]
    BY <1>2, <1>3 DEF Shrunk
  <1> HIDE DEF i, s
  <1>6. p # 0
    BY <1>1, <1>2 DEF Chain, s
  <1>7. \A x \in DOMAIN n : i[x].ptr = n[x].ptr
    BY <1>5
  <1>8. s - m \in Nat /\ s - m > 0 /\ s - m < s /\ a \in Nat \ {0}
    BY <1>2
  <1>9. Span(p, s) = Span(p, s - m) \cup Span(a, m) /\ Span(p, s - m) \cap Span(a, m) = {}
    <2>1. ASSUME NEW c
          PROVE /\ c \in Span(p, s) <=> c \in Span(p, s - m) \/ c \in Span(a, m)
                /\ ~ (c \in Span(p, s - m) /\ c \in Span(a, m))
      BY <1>2, <1>8 DEF Span
    <2> QED BY <2>1
  <1>10. Chain(i)
    <2>1. i[0] = [ptr |-> i[0].ptr, size |-> 0]
      <3>1. n[0] = [ptr |-> n[0].ptr, size |-> 0]
        BY <1>1 DEF Chain
      <3> QED BY <1>2, <1>5, <1>6, <3>1
    <2>2. ASSUME NEW x \in DOMAIN i
          PROVE  /\ i[x] = [ptr |-> i[x].ptr, size |-> i[x].size]
                 /\ i[x].ptr \in DOMAIN i /\ i[x].size \in Nat /\ Follows(i, x, i[x].ptr)
      <3>1. Follows(i, x, i[x].ptr)
        BY <1>3, <1>5, <1>7 DEF Follows
      <3>2. i[x] = [ptr |-> i[x].ptr, size |-> i[x].size] /\ i[x].size \in Nat
        BY <1>3, <1>5, <1>8
      <3> QED BY <1>3, <1>5, <1>7, <3>1, <3>2
    <2>3. ASSUME NEW x \in DOMAIN i, NEW y \in DOMAIN i, x # y PROVE y \notin Span(x, i[x].size)
      <3>1. y \notin Span(x, n[x].size)
        BY <1>1, <1>5, <2>3 DEF Chain
      <3>2. CASE x = p
        <4>1. Span(x, n[x].size) = Span(p, s)
          BY <3>2 DEF s
        <4>2. i[x].size = s - m
          BY <1>5, <3>2
        <4> QED BY <1>9, <3>1, <3>2, <4>1, <4>2
      <3> QED BY <1>5, <3>1, <3>2
    <2> QED BY <1>2, <1>5, <2>1, <2>2, <2>3 DEF Chain
  <1>11. ASSUME NEW x \in DOMAIN i PROVE Gap(i, x)
    <2>1. CASE x = p
      <3> DEFINE rest == n[p].ptr
      <3>1. rest \in DOMAIN n /\ rest \in Nat /\ Follows(n, p, rest)
        BY <1>2, <1>3
      <3>2. rest # p => rest \notin Span(p, s)
        BY <1>1, <3>1 DEF Chain, s
      <3> HIDE DEF rest
      <3>3. p + (s - m) # rest \/ rest = 0
        BY <1>2, <1>8, <3>1, <3>2 DEF Follows, Span
      <3> QED BY <1>5, <2>1, <3>3 DEF Gap, rest
    <2>2. CASE x # p
      BY <1>1, <1>5, <2>2 DEF Gap
    <2> QED BY <2>1, <2>2
  <1>12. ASSUME NEW c
         PROVE  /\ c \in Span(a, m) => c \in Headers(n)
                /\ c \in Headers(i) <=> c \in Headers(n) /\ c \notin Span(a, m)
    <2>1. c \in Span(a, m) => c \in Span(p, s) /\ c \in Nat
      BY <1>8, <1>9 DEF Span
    <2>2. c \in Span(a, m) => c \in Headers(n)
      BY <2>1 DEF Headers, s
    <2>3. \A x \in DOMAIN n : x # p /\ c \in Span(x, n[x].size) => c \notin Span(p, s)
      <3>1. SUFFICES ASSUME NEW x \in DOMAIN n, x # p, c \in Span(x, n[x].size), c \in Span(p, s)
                     PROVE FALSE
        OBVIOUS
      <3>2. p \notin Span(x, n[x].size) /\ x \notin Span(p, s)
        BY <1>1, <3>1 DEF Chain, s
      <3>3. x \in Nat /\ n[x].size \in Nat
        BY <1>2, <1>3
      <3> QED BY <1>2, <3>1, <3>2, <3>3 DEF Span
    <2>4. \A x \in DOMAIN n : x # p => i[x].size = n[x].size
      BY <1>5
    <2>5. i[p].size = s - m
      BY <1>5
    <2>6. ASSUME c \in Headers(i) PROVE c \in Headers(n) /\ c \notin Span(a, m)
      <3>1. PICK x \in DOMAIN i : c \in Span(x, i[x].size) /\ c \in Nat
        BY <2>6 DEF Headers
      <3>2. CASE x = p
        <4>1. c \in Span(p, s) /\ c \notin Span(a, m)
          BY <1>9, <2>5, <3>1, <3>2
        <4> QED BY <3>1, <4>1 DEF Headers, s
      <3>3. CASE x # p
        <4>1. x \in DOMAIN n /\ c \in Span(x, n[x].size)
          BY <1>5, <2>4, <3>1, <3>3
        <4> QED BY <2>1, <2>3, <3>1, <3>3, <4>1 DEF Headers
      <3> QED BY <3>2, <3>3
    <2>7. ASSUME c \in Headers(n), c \notin Span(a, m) PROVE c \in Headers(i)
      <3>1. PICK x \in DOMAIN n : c \in Span(x, n[x].size) /\ c \in Nat
        BY <2>7 DEF Headers
      <3>2. CASE x = p
        <4>1. c \in Span(p, s - m)
          BY <1>9, <2>7, <3>1, <3>2 DEF s
        <4> QED BY <1>5, <2>5, <3>1, <4>1 DEF Headers
      <3>3. CASE x # p
        BY <1>5, <2>4, <3>1, <3>3 DEF Headers
      <3> QED BY <3>2, <3>3
    <2> QED BY <2>2, <2>6, <2>7
  <1>13. \A x \in DOMAIN i : i[x].size = 0 => x \in DOMAIN n /\ n[x].size = 0
    BY <1>5, <1>8
  <1>14. Ring(i) /\ f \in DOMAIN i
    BY <1>5, <1>10, <1>11 DEF Ring
  <1>15. Headers(i) = Headers(n) \ Span(a, m)
    BY <1>12
  <1> QED BY <1>8, <1>12, <1>13, <1>14, <1>15 DEF CutTo, i, s

LEMMA TakenWhole ==
  ASSUME NEW n, Ring(n), NEW x \in DOMAIN n, NEW p, p = n[x].ptr, NEW m \in Nat \ {0}, n[p].size = m
  PROVE  CutTo(n, m, Skip(n, x, n[x].size), x, p)
  <1> DEFINE s == n[x].size
             i == Skip(n, x, s)
  <1>1. Chain(n) /\ \A z \in DOMAIN n : Gap(n, z)
    BY DEF Ring
  <1>2. p \in DOMAIN n /\ x \in Nat /\ s \in Nat /\ p \in Nat /\ n[0].size = 0
    BY <1>1 DEF Chain
  <1>3. p # 0
    BY <1>2
  <1>4. p > x /\ \A z \in DOMAIN n : z <= x \/ z >= p
    BY <1>1, <1>3, NextIs
  <1>5. Skipped(i, n, x, p, s)
    BY <1>1, <1>3, SkipIs
  <1>6. \A y \in DOMAIN n : y # x => y \notin Span(x, s)
    BY <1>1 DEF Chain
  <1>7. x = 0 => s = 0
    BY <1>2
  <1> HIDE DEF s
  <1>8. Chain(i)
    BY <1>1, <1>2, <1>3, <1>6, <1>7, SkipRight
  <1> HIDE DEF i
  <1>9. /\ DOMAIN i = DOMAIN n \ {p} /\ x \in DOMAIN i /\ i[x] = [ptr |-> n[p].ptr, size |-> s]
        /\ \A z \in DOMAIN i : z # x => i[z] = n[z]
    BY <1>5 DEF Skipped
  <1>10. ASSUME NEW z \in DOMAIN i PROVE Gap(i, z)
    <2>1. CASE z = x
      <3> DEFINE rest == n[p].ptr
      <3>1. rest \in Nat /\ Follows(n, p, rest)
        BY <1>1, <1>2 DEF Chain
      <3>2. p \notin Span(x, s)
        BY <1>2, <1>4, <1>6
      <3> HIDE DEF rest
      <3>3. x + s # rest \/ rest = 0
        BY <1>2, <1>4, <3>1, <3>2 DEF Follows, Span
      <3> QED BY <1>9, <2>1, <3>3 DEF Gap, rest
    <2>2. CASE z # x
      <3>1. Gap(n, z)
        BY <1>1, <1>9
      <3> QED BY <1>9, <2>2, <3>1 DEF Gap
    <2> QED BY <2>1, <2>2
  <1>11. ASSUME NEW c \in Nat
         PROVE  /\ c \in Span(p, m) => c \in Headers(n)
                /\ c \in Headers(i) <=> c \in Headers(n) /\ c \notin Span(p, m)
    <2>1. c \in Span(p, m) => c \in Headers(n)
      BY <1>2 DEF Headers
    <2>2. ASSUME NEW z \in DOMAIN n, z # p, c \in Span(z, n[z].size) PROVE c \notin Span(p, m)
      <3>1. p \notin Span(z, n[z].size) /\ z \notin Span(p, m)
        BY <1>1, <1>2, <2>2 DEF Chain
      <3>2. z \in Nat /\ n[z].size \in Nat
        BY <1>1 DEF Chain
      <3> QED BY <1>2, <2>2, <3>1, <3>2 DEF Span
    <2>3. \A z \in DOMAIN i : z \in DOMAIN n /\ z # p /\ i[z].size = n[z].size
      BY <1>9 DEF s
    <2>4. \A z \in DOMAIN n : z # p => z \in DOMAIN i
      BY <1>9
    <2>5. c \in Headers(i) => c \in Headers(n) /\ c \notin Span(p, m)
      BY <2>2, <2>3 DEF Headers
    <2>6. c \in Headers(n) /\ c \notin Span(p, m) => c \in Headers(i)
      BY <2>3, <2>4 DEF Headers
    <2> QED BY <2>1, <2>5, <2>6
  <1>12. \A z \in DOMAIN i : i[z].size = 0 => z \in DOMAIN n /\ n[z].size = 0
    BY <1>9 DEF s
  <1>13. \A c \in Span(p, m) : c \in Nat
    BY <1>2 DEF Span
  <1>14. Headers(i) = Headers(n) \ Span(p, m)
    <2>1. Headers(i) \in SUBSET Nat /\ Headers(n) \in SUBSET Nat
      BY DEF Headers
    <2> QED BY <1>11, <2>1
  <1>15. Ring(i)
    BY <1>8, <1>10 DEF Ring
  <1> QED BY <1>2, <1>3, <1>9, <1>11, <1>12, <1>13, <1>14, <1>15 DEF CutTo, i, s

LEMMA CutRight ==
  ASSUME NEW h, Ring(h.node), h.freep \in DOMAIN h.node, NEW m \in Nat \ {0}, Fits(h, m) # {}
  PROVE  LET c == Cut(h, m) IN CutTo(h.node, m, c.heap.node, c.heap.freep, c.block)
  <1> DEFINE n == h.node
             hop == Hop(h)
             N == Cardinality(DOMAIN n)
             k == Min(Fits(h, m))
             x == hop[k - 1]
             p == hop[k]
             s == n[p].size
             upd == [n EXCEPT ![x].ptr = n[p].ptr]
  <1>1. Chain(n)
    BY DEF Ring
  <1>2. /\ N \in Nat /\ DOMAIN hop = 0 .. N
        /\ \A j \in 1 .. N : hop[j] = n[hop[j - 1]].ptr
        /\ \A j \in 0 .. N : hop[j] \in DOMAIN n
    BY <1>1, HopIs
  <1>3. k \in 1 .. N /\ k - 1 \in 0 .. N /\ s >= m
    <2>1. Fits(h, m) = {j \in DOMAIN hop \ {0} : n[hop[j]].size >= m}
      BY DEF Fits
    <2> HIDE DEF hop, N, n
    <2>2. Fits(h, m) \in SUBSET Nat
      BY <1>2, <2>1
    <2>3. k \in Fits(h, m)
      BY <2>2, MinIsLeast
    <2>4. k \in DOMAIN hop \ {0} /\ s >= m
      <3> HIDE DEF k
      <3> QED BY <2>1, <2>3
    <2> HIDE DEF k
    <2> QED BY <1>2, <2>4
  <1> HIDE DEF hop, N, k
  <1>4. x \in DOMAIN n /\ p \in DOMAIN n /\ p = n[x].ptr
    BY <1>2, <1>3
  <1>5. Cut(h, m) = IF s = m THEN [heap |-> [node |-> Without(upd, p), freep |-> x], block |-> p]
                    ELSE [heap |-> [node |-> Shrunk(n, p, m), freep |-> x], block |-> p + s - m]
    BY DEF Cut, Shrunk, k, hop
  <1> HIDE DEF n, x, p
  <1>6. CASE s = m
    <2> DEFINE i == Skip(n, x, n[x].size)
               u == Without(upd, p)
    <2>1. CutTo(n, m, i, x, p)
      BY <1>4, <1>6, TakenWhole DEF n
    <2>2. p # 0 /\ n[x] = [ptr |-> p, size |-> n[x].size]
      <3>1. n[0].size = 0 /\ n[x] = [ptr |-> n[x].ptr, size |-> n[x].size]
        BY <1>1, <1>4 DEF Chain
      <3> QED BY <1>4, <1>6, <3>1
    <2>3. Skipped(i, n, x, p, n[x].size)
      BY <1>1, <1>4, <2>2, SkipIs
    <2>4. IsWithout(u, upd, p)
      BY WithoutIs
    <2>5. IsMap(n)
      BY <1>1 DEF Chain, IsMap
    <2>6. DOMAIN upd = DOMAIN n /\ upd[x] = [ptr |-> n[p].ptr, size |-> n[x].size]
          /\ \A z \in DOMAIN n : z # x => upd[z] = n[z]
      BY <1>4, <2>2, <2>5 DEF IsMap
    <2> HIDE DEF upd, u, i
    <2>7. /\ DOMAIN i = DOMAIN n \ {p} /\ IsMap(i) /\ i[x] = [ptr |-> n[p].ptr, size |-> n[x].size]
          /\ \A z \in DOMAIN i : z # x => i[z] = n[z]
      BY <2>3 DEF Skipped, IsMap
    <2>8. IsMap(u) /\ DOMAIN u = DOMAIN n \ {p} /\ \A z \in DOMAIN u : u[z] = upd[z]
      BY <2>4, <2>6 DEF IsWithout
    <2>9. DOMAIN u = DOMAIN i /\ \A z \in DOMAIN u : u[z] = i[z]
      BY <2>6, <2>7, <2>8
    <2>10. u = i
      BY <2>7, <2>8, <2>9, MapsEqual
    <2>11. Cut(h, m) = [heap |-> [node |-> i, freep |-> x], block |-> p]
      BY <1>5, <1>6, <2>10 DEF u
    <2> QED BY <2>1, <2>11 DEF n
  <1>7. CASE s # m
    <2>1. s > m
      <3>1. s \in Nat
        BY <1>1, <1>4 DEF Chain
      <3> QED BY <1>3, <1>7, <3>1
    <2>2. CutTo(n, m, Shrunk(n, p, m), x, p + s - m)
      BY <1>4, <2>1, ShrunkIs DEF n
    <2>3. Cut(h, m) = [heap |-> [node |-> Shrunk(n, p, m), freep |-> x], block |-> p + s - m]
      BY <1>5, <1>7
    <2> QED BY <2>2, <2>3 DEF n
  <1> QED BY <1>6, <1>7

(***************************************************************************)
(* The whole heap.                                                         *)
(***************************************************************************)
Good(h, g, limit) ==
  /\ Ring(h.node) /\ h.freep \in DOMAIN h.node
  /\ Shared(h.node, g, limit) /\ EmptyRight(h.node)

LEMMA ConstantsAre ==
  Start \in Nat \ {0} /\ Chunk \in Nat \ {0} /\ Page \in Nat \ {0} /\ Wanted \subseteq Nat
  BY HeapAssumption

LEMMA AlignedIs ==
  ASSUME NEW p \in Nat
  PROVE  Aligned(p) \in p .. p + Page - 1
  <1>1. p % Page \in 0 .. Page - 1
    BY ConstantsAre, Divide
  <1> DEFINE rest == p % Page
  <1>2. Aligned(p) = IF rest = 0 THEN p ELSE p + (Page - rest)
    BY DEF Aligned
  <1> HIDE DEF rest
  <1> QED BY <1>1, <1>2, ConstantsAre DEF rest

\* A block of the program lies in what sbrk gave, apart from the free blocks,
\* and no free block begins in it, unless it is a lost one.
LEMMA BlockApart ==
  ASSUME LiveInv, NEW h, NEW g, NEW limit, Good(h, g, limit),
         NEW b \in DOMAIN live, NEW x \in DOMAIN h.node, live[b].use # "lost"
  PROVE  b \notin Span(x, h.node[x].size) /\ x \notin Span(b, live[b].size)
  <1> DEFINE n == h.node
             s == live[b].size
  <1>1. x \in Nat /\ n[x].size \in Nat /\ b \in Nat \ {0} /\ s \in Nat \ {0}
    BY DEF Good, Ring, Chain, LiveInv, InUseRight
  <1>2. \A c \in Headers(n) : c \notin Span(b, s)
    BY DEF Good, Shared
  <1> HIDE DEF n, s
  <1>3. b \in Span(b, s)
    BY <1>1 DEF Span
  <1>4. b \notin Span(x, n[x].size)
    BY <1>1, <1>2, <1>3 DEF Headers, n
  <1>5. x \notin Span(b, s)
    <2>1. CASE n[x].size > 0
      <3>1. x \in Span(x, n[x].size)
        BY <1>1, <2>1 DEF Span
      <3> QED BY <1>1, <1>2, <3>1 DEF Headers, n
    <2>2. CASE n[x].size = 0 /\ x # 0
      <3>1. PICK c \in DOMAIN live : live[c].use = "lost" /\ x > c /\ x \in Span(c, live[c].size)
        BY <2>2 DEF Good, EmptyRight, n
      <3>2. c # b
        BY <3>1
      <3> QED BY <3>1, <3>2 DEF LiveInv, s
    <2>3. CASE x = 0
      BY <1>1, <2>3 DEF Span
    <2> QED BY <1>1, <2>1, <2>2, <2>3
  <1> QED BY <1>4, <1>5 DEF n, s

LEMMA BegunGood ==
  ASSUME HeapInv
  PROVE  Good(Begun, core, brk)
  <1>1. CASE freep # -1
    <2>1. Begun.node = node /\ Begun.freep = freep
      BY <1>1 DEF Begun, Heap
    <2> QED BY <1>1, <2>1 DEF HeapInv, Good
  <1>2. CASE freep = -1
    <2> DEFINE n == [a \in {0} |-> [ptr |-> 0, size |-> 0]]
    <2>1. Begun.node = n /\ Begun.freep = 0
      BY <1>2 DEF Begun
    <2>2. DOMAIN n = {0} /\ n[0] = [ptr |-> 0, size |-> 0] /\ n = [x \in DOMAIN n |-> n[x]]
      OBVIOUS
    <2>3. DOMAIN live = {} /\ core = {}
      BY <1>2 DEF HeapInv
    <2> HIDE DEF n
    <2>4. Span(0, 0) = {}
      BY DEF Span
    <2>5. Chain(n)
      <3>1. IsFiniteSet(DOMAIN n)
        BY <2>2, FS_EmptySet, FS_AddElement
      <3>2. Follows(n, 0, 0)
        BY <2>2 DEF Follows
      <3>3. \A x \in DOMAIN n : x = 0
        BY <2>2
      <3>4. \A x \in DOMAIN n : n[x] = [ptr |-> 0, size |-> 0]
        BY <2>2, <3>3
      <3>5. \A x \in DOMAIN n : /\ n[x] = [ptr |-> n[x].ptr, size |-> n[x].size]
                                /\ n[x].ptr \in DOMAIN n /\ n[x].size \in Nat /\ Follows(n, x, n[x].ptr)
        BY <2>2, <3>2, <3>3
      <3> QED BY <2>2, <3>1, <3>3, <3>5 DEF Chain
    <2>6. Ring(n)
      BY <2>2, <2>5 DEF Ring, Gap
    <2>7. Headers(n) = {}
      BY <2>2, <2>4 DEF Headers
    <2>8. Shared(n, core, brk)
      BY <2>3, <2>7 DEF Shared
    <2>9. EmptyRight(n)
      BY <2>2 DEF EmptyRight
    <2> QED BY <2>1, <2>2, <2>6, <2>8, <2>9 DEF Good
  <1> QED BY <1>1, <1>2

LEMMA MoreGood ==
  ASSUME LiveInv, NEW h, NEW g, NEW limit \in Nat, limit >= Start, Good(h, g, limit), NEW m \in Nat \ {0}
  PROVE  LET rest == Freed(h, limit, m) IN
         Good(rest, g \cup (limit .. limit + m - 1), limit + m) /\ \E x \in DOMAIN rest.node : rest.node[x].size >= m
  <1> DEFINE n == h.node
             rest == Freed(h, limit, m)
             a == limit .. limit + m - 1
  <1>1. Ring(n) /\ h.freep \in DOMAIN n /\ Shared(n, g, limit) /\ EmptyRight(n)
    BY DEF Good
  <1>2. \A x \in DOMAIN n : x \in Nat /\ n[x].size \in Nat
    BY <1>1 DEF Ring, Chain
  <1>3. g \in SUBSET (Start .. limit - 1)
        /\ (\A c \in Headers(n) : c \in g)
        /\ \A b \in DOMAIN live : \A c \in Span(b, live[b].size) : c \in g
    <2>1. \A b \in DOMAIN live : b \in Nat /\ live[b].size \in Nat
      BY DEF LiveInv, InUseRight
    <2>2. \A b \in DOMAIN live : \A c \in Span(b, live[b].size) : c \in Nat
      BY <2>1 DEF Span
    <2>3. \A c \in Headers(n) : c \in Nat
      BY DEF Headers
    <2> QED BY <1>1, <2>2, <2>3 DEF Shared
  <1>4. Start \in Nat \ {0} /\ limit \in Nat \ {0}
    BY ConstantsAre
  <1>5. Unclaimed(n, limit, m)
    <2>1. ASSUME NEW x \in DOMAIN n PROVE x < limit
      <3>1. CASE x = 0
        BY <1>4, <3>1
      <3>2. CASE n[x].size > 0
        <4>1. x \in Span(x, n[x].size)
          BY <1>2, <3>2 DEF Span
        <4>2. x \in g
          BY <1>2, <1>3, <4>1 DEF Headers
        <4> QED BY <1>3, <1>4, <4>2
      <3>3. CASE n[x].size = 0 /\ x # 0
        <4>1. x \in g
          BY <1>1, <1>3, <3>3 DEF EmptyRight
        <4> QED BY <1>3, <1>4, <4>1
      <3> QED BY <1>2, <3>1, <3>2, <3>3
    <2>2. ASSUME NEW x \in DOMAIN n PROVE limit \notin Span(x, n[x].size)
      <3>1. limit \notin g
        BY <1>3, <1>4
      <3> QED BY <1>3, <3>1 DEF Headers
    <2>3. \A x \in DOMAIN n : x \notin Span(limit, m)
      BY <1>2, <2>1 DEF Span
    <2>4. limit \notin DOMAIN n
      BY <2>1
    <2> QED BY <1>4, <2>2, <2>3, <2>4 DEF Unclaimed
  <1>6. /\ Ring(rest.node) /\ rest.freep \in DOMAIN rest.node
        /\ Headers(rest.node) = Headers(n) \cup Span(limit, m)
        /\ \A x \in DOMAIN rest.node : rest.node[x].size = 0 =>
             (x \in DOMAIN n /\ n[x].size = 0) \/ (x = limit /\ m = 0)
        /\ \E x \in DOMAIN rest.node : rest.node[x].size >= m
    BY <1>1, <1>5, FreedRight
  <1> HIDE DEF rest, n
  <1>7. Span(limit, m) = a
    BY DEF Span
  <1>8. Shared(rest.node, g \cup a, limit + m)
    <2>1. g \cup a \in SUBSET (Start .. (limit + m) - 1)
      BY <1>3, <1>4
    <2>2. g \cap a = {}
      BY <1>3, <1>4
    <2>3. \A c \in Headers(rest.node) : \A b \in DOMAIN live : c \notin Span(b, live[b].size)
      BY <1>1, <1>3, <1>6, <1>7, <2>2 DEF Shared
    <2>4. \A c \in Nat : c \in g \cup a <=> \/ c \in Headers(rest.node)
                                            \/ \E b \in DOMAIN live : c \in Span(b, live[b].size)
      BY <1>1, <1>6, <1>7 DEF Shared
    <2> QED BY <2>1, <2>3, <2>4 DEF Shared
  <1>9. EmptyRight(rest.node)
    BY <1>1, <1>6 DEF EmptyRight
  <1> QED BY <1>6, <1>8, <1>9 DEF Good, rest, n

\* malloc's block becomes the program's.
LEMMA BlockTaken ==
  ASSUME LiveInv, NEW h, Good(h, core', brk'), brk' \in Nat, brk' >= Start,
         NEW m \in Nat \ {0}, NEW a, CutTo(h.node, m, node', freep', a),
         NEW use \in Uses, use # "block" => m = 2 * Page + 1,
         live' = With(live, a, Block(m, Pointer(use, a + 1), use))
  PROVE  HeapInv'
  <1> DEFINE n == h.node
             v == Block(m, Pointer(use, a + 1), use)
  <1>1. /\ Ring(node') /\ freep' \in DOMAIN node' /\ a \in Nat \ {0}
        /\ \A c \in Span(a, m) : c \in Headers(n)
        /\ Headers(node') = Headers(n) \ Span(a, m)
        /\ \A x \in DOMAIN node' : node'[x].size = 0 => x \in DOMAIN n /\ n[x].size = 0
    BY DEF CutTo
  <1>2. Shared(n, core', brk') /\ EmptyRight(n)
    BY DEF Good
  <1> HIDE DEF n
  <1>3. IsWith(live', live, a, v)
    BY WithIs
  <1>4. /\ v = [size |-> v.size, given |-> v.given, use |-> v.use]
        /\ v.size = m /\ v.use = use /\ v.given = Pointer(use, a + 1)
    BY DEF Block
  <1>5. v.given \in Nat /\ (use # "block" => v.given = Aligned(a + 1))
    <2>1. a + 1 \in Nat /\ Aligned(a + 1) \in a + 1 .. a + 1 + Page - 1
      BY <1>1, AlignedIs
    <2>2. Aligned(a + 1) \in Nat
      BY <1>1, <2>1, ConstantsAre
    <2> HIDE DEF v
    <2> QED BY <1>4, <2>1, <2>2 DEF Pointer
  <1> HIDE DEF v
  <1>6. a \notin DOMAIN live
    <2>1. SUFFICES ASSUME a \in DOMAIN live PROVE FALSE
      OBVIOUS
    <2>2. live[a].size \in Nat \ {0}
      BY <2>1 DEF LiveInv, InUseRight
    <2>3. a \in Span(a, live[a].size) /\ a \in Span(a, m)
      BY <1>1, <2>2 DEF Span
    <2> QED BY <1>1, <1>2, <2>1, <2>3 DEF Shared
  <1>7. /\ DOMAIN live' = DOMAIN live \cup {a} /\ live'[a] = v
        /\ \A b \in DOMAIN live : live'[b] = live[b]
    BY <1>3, <1>6 DEF IsWith
  <1>8. LiveInv'
    <2>1. DOMAIN live' \in SUBSET (Nat \ {0})
      BY <1>1, <1>7 DEF LiveInv
    <2>2. ASSUME NEW b \in DOMAIN live' PROVE InUseRight(b)'
      <3>1. CASE b = a
        BY <1>4, <1>5, <1>7, <3>1 DEF InUseRight
      <3>2. CASE b # a
        <4>1. b \in DOMAIN live /\ live'[b] = live[b]
          BY <1>7, <3>2
        <4>2. InUseRight(b)
          BY <4>1 DEF LiveInv
        <4> QED BY <4>1, <4>2 DEF InUseRight
      <3> QED BY <3>1, <3>2
    <2>3. ASSUME NEW b \in DOMAIN live PROVE Span(b, live[b].size) \cap Span(a, m) = {}
      BY <1>1, <1>2 DEF Shared
    <2>4. ASSUME NEW b \in DOMAIN live', NEW c \in DOMAIN live', b # c
          PROVE  Span(b, live'[b].size) \cap Span(c, live'[c].size) = {}
      <3>1. CASE b = a
        <4>1. c \in DOMAIN live /\ live'[c] = live[c] /\ live'[b].size = m
          BY <1>4, <1>7, <2>4, <3>1
        <4> QED BY <2>3, <3>1, <4>1
      <3>2. CASE c = a
        <4>1. b \in DOMAIN live /\ live'[b] = live[b] /\ live'[c].size = m
          BY <1>4, <1>7, <2>4, <3>2
        <4> QED BY <2>3, <3>2, <4>1
      <3>3. CASE b # a /\ c # a
        <4>1. b \in DOMAIN live /\ live'[b] = live[b] /\ c \in DOMAIN live /\ live'[c] = live[c]
          BY <1>7, <3>3
        <4> QED BY <2>4, <4>1 DEF LiveInv
      <3> QED BY <3>1, <3>2, <3>3
    <2> QED BY <2>1, <2>2, <2>4 DEF LiveInv
  <1>9. Shared(node, core, brk)'
    <2>1. ASSUME NEW c \in Headers(node'), NEW b \in DOMAIN live' PROVE c \notin Span(b, live'[b].size)
      <3>1. CASE b = a
        <4>1. live'[b].size = m
          BY <1>4, <1>7, <3>1
        <4> QED BY <1>1, <3>1, <4>1
      <3>2. CASE b # a
        <4>1. b \in DOMAIN live /\ live'[b] = live[b] /\ c \in Headers(n)
          BY <1>1, <1>7, <3>2
        <4> QED BY <1>2, <4>1 DEF Shared
      <3> QED BY <3>1, <3>2
    <2>2. ASSUME NEW c \in Nat
          PROVE  c \in core' <=> \/ c \in Headers(node')
                                \/ \E b \in DOMAIN live' : c \in Span(b, live'[b].size)
      <3>1. (\E b \in DOMAIN live' : c \in Span(b, live'[b].size))
              <=> c \in Span(a, m) \/ \E b \in DOMAIN live : c \in Span(b, live[b].size)
        <4>1. live'[a].size = m
          BY <1>4, <1>7
        <4> QED BY <1>7, <4>1
      <3>2. c \in core' <=> \/ c \in Headers(n)
                           \/ \E b \in DOMAIN live : c \in Span(b, live[b].size)
        BY <1>2 DEF Shared
      <3> QED BY <1>1, <3>1, <3>2
    <2>3. core' \in SUBSET (Start .. brk' - 1)
      BY <1>2 DEF Shared
    <2> QED BY <2>1, <2>2, <2>3 DEF Shared
  <1>10. EmptyRight(node)'
    <2>1. SUFFICES ASSUME NEW x \in DOMAIN node', node'[x].size = 0, x # 0
                   PROVE  \E b \in DOMAIN live' : live'[b].use = "lost" /\ x > b
                                                    /\ x \in Span(b, live'[b].size)
      BY DEF EmptyRight
    <2>2. PICK b \in DOMAIN live : live[b].use = "lost" /\ x > b /\ x \in Span(b, live[b].size)
      BY <1>1, <1>2, <2>1 DEF EmptyRight
    <2> QED BY <1>7, <2>2
  <1>11. freep' # -1
    BY <1>1 DEF Ring, Chain
  <1> QED BY <1>1, <1>8, <1>9, <1>10, <1>11 DEF HeapInv

LEMMA AllocatedRight ==
  ASSUME HeapInv, NEW m \in Nat \ {0}, NEW use \in Uses, use # "block" => m = 2 * Page + 1,
         Allocated(m, use)
  PROVE  HeapInv'
  <1>1. Good(Begun, core, brk) /\ LiveInv /\ brk \in Nat /\ brk >= Start
    BY BegunGood DEF HeapInv
  <1>2. CASE /\ Fits(Begun, m) # {}
             /\ LET c == Cut(Begun, m) IN
                  /\ SetHeap(c.heap)
                  /\ live' = With(live, c.block, Block(m, Pointer(use, c.block + 1), use))
             /\ UNCHANGED << brk, core >>
    <2> DEFINE c == Cut(Begun, m)
    <2>1. CutTo(Begun.node, m, c.heap.node, c.heap.freep, c.block)
      BY <1>1, <1>2, CutRight DEF Good
    <2>2. node' = c.heap.node /\ freep' = c.heap.freep
          /\ live' = With(live, c.block, Block(m, Pointer(use, c.block + 1), use))
      BY <1>2 DEF SetHeap
    <2>3. brk' = brk /\ core' = core
      BY <1>2
    <2> HIDE DEF c
    <2>4. CutTo(Begun.node, m, node', freep', c.block)
      BY <2>1, <2>2
    <2>5. Good(Begun, core', brk') /\ brk' \in Nat /\ brk' >= Start
      BY <1>1, <2>3
    <2> QED BY <1>1, <2>2, <2>4, <2>5, BlockTaken
  <1>3. CASE /\ Fits(Begun, m) = {} /\ brk + More(m) <= MaxBrk
             /\ LET c == Cut(Freed(Begun, brk, More(m)), m) IN
                  /\ SetHeap(c.heap)
                  /\ live' = With(live, c.block, Block(m, Pointer(use, c.block + 1), use))
             /\ brk' = brk + More(m) /\ core' = core \cup (brk .. brk + More(m) - 1)
    <2> DEFINE rest == Freed(Begun, brk, More(m))
               c == Cut(rest, m)
    <2>1. More(m) \in Nat \ {0} /\ More(m) >= m
      BY ConstantsAre DEF More
    <2>2. Good(rest, core \cup (brk .. brk + More(m) - 1), brk + More(m))
          /\ \E x \in DOMAIN rest.node : rest.node[x].size >= More(m)
      BY <1>1, <2>1, MoreGood
    <2>3. node' = c.heap.node /\ freep' = c.heap.freep
          /\ live' = With(live, c.block, Block(m, Pointer(use, c.block + 1), use))
      BY <1>3 DEF SetHeap
    <2>4. brk' = brk + More(m) /\ core' = core \cup (brk .. brk + More(m) - 1)
      BY <1>3
    <2> HIDE DEF rest
    <2>5. Good(rest, core', brk') /\ brk' \in Nat /\ brk' >= Start
      BY <1>1, <2>1, <2>2, <2>4, ConstantsAre
    <2>6. Fits(rest, m) # {}
      <3>1. \E x \in DOMAIN rest.node : rest.node[x].size >= m
        <4>1. \A x \in DOMAIN rest.node : rest.node[x].size \in Nat
          BY <2>2 DEF Good, Ring, Chain
        <4> QED BY <2>1, <2>2, <4>1
      <3>2. Chain(rest.node) /\ rest.freep \in DOMAIN rest.node
        BY <2>2 DEF Good, Ring
      <3> QED BY <3>1, <3>2, FitsThere
    <2>7. CutTo(rest.node, m, c.heap.node, c.heap.freep, c.block)
      BY <2>2, <2>6, CutRight DEF Good
    <2> HIDE DEF c
    <2>8. CutTo(rest.node, m, node', freep', c.block)
      BY <2>3, <2>7
    <2> QED BY <1>1, <2>3, <2>5, <2>8, BlockTaken
  <1> QED BY <1>2, <1>3 DEF Allocated

LEMMA BlockFreed ==
  ASSUME HeapInv, NEW b \in DOMAIN live, live[b].use # "lost",
         SetHeap(Freed(Heap, b, live[b].size)), live' = Without(live, b), UNCHANGED << brk, core >>
  PROVE  HeapInv'
  <1> DEFINE s == live[b].size
             rest == Freed(Heap, b, s)
  <1>1. freep # -1
    BY DEF HeapInv
  <1>2. Good(Heap, core, brk) /\ LiveInv /\ Heap.node = node /\ Heap.freep = freep
    BY <1>1 DEF HeapInv, Good, Heap
  <1>3. Unclaimed(node, b, s)
    <2>1. b \in Nat \ {0} /\ s \in Nat \ {0}
      BY <1>2 DEF LiveInv, InUseRight
    <2>2. \A x \in DOMAIN node : b \notin Span(x, node[x].size) /\ x \notin Span(b, s)
      BY <1>2, BlockApart
    <2>3. b \notin DOMAIN node
      <3>1. b \in Span(b, s)
        BY <2>1 DEF Span
      <3> QED BY <2>2, <3>1
    <2> QED BY <2>1, <2>2, <2>3 DEF Unclaimed
  <1>4. /\ Ring(rest.node) /\ rest.freep \in DOMAIN rest.node
        /\ Headers(rest.node) = Headers(node) \cup Span(b, s)
        /\ \A x \in DOMAIN rest.node : rest.node[x].size = 0 =>
             (x \in DOMAIN node /\ node[x].size = 0) \/ (x = b /\ s = 0)
    BY <1>2, <1>3, FreedRight DEF Good
  <1>5. node' = rest.node /\ freep' = rest.freep
    BY DEF SetHeap
  <1>6. s \in Nat \ {0} /\ b \in Nat
    BY <1>2 DEF LiveInv, InUseRight
  <1> HIDE DEF rest
  <1>7. IsWithout(live', live, b)
    BY WithoutIs
  <1>8. DOMAIN live' = DOMAIN live \ {b} /\ \A c \in DOMAIN live' : live'[c] = live[c]
    BY <1>7 DEF IsWithout
  <1>9. LiveInv'
    <2>1. DOMAIN live' \in SUBSET (Nat \ {0})
      BY <1>2, <1>8 DEF LiveInv
    <2>2. ASSUME NEW c \in DOMAIN live' PROVE InUseRight(c)'
      <3>1. c \in DOMAIN live /\ live'[c] = live[c]
        BY <1>8
      <3>2. InUseRight(c)
        BY <1>2, <3>1 DEF LiveInv
      <3> QED BY <3>1, <3>2 DEF InUseRight
    <2>3. \A c, d \in DOMAIN live' : c # d => Span(c, live'[c].size) \cap Span(d, live'[d].size) = {}
      BY <1>2, <1>8 DEF LiveInv
    <2> QED BY <2>1, <2>2, <2>3 DEF LiveInv
  <1>10. Shared(node, core, brk) /\ EmptyRight(node)
    BY <1>2 DEF Good
  <1>11. Shared(node, core, brk)'
    <2>1. ASSUME NEW c \in Headers(node'), NEW d \in DOMAIN live' PROVE c \notin Span(d, live'[d].size)
      <3>1. d \in DOMAIN live /\ d # b /\ live'[d] = live[d]
        BY <1>8
      <3>2. Span(b, s) \cap Span(d, live[d].size) = {}
        BY <1>2, <3>1 DEF LiveInv
      <3>3. c \in Headers(node) \/ c \in Span(b, s)
        BY <1>4, <1>5
      <3> HIDE DEF s
      <3> QED BY <1>10, <3>1, <3>2, <3>3 DEF Shared
    <2>2. ASSUME NEW c \in Nat
          PROVE  c \in core' <=> \/ c \in Headers(node')
                                \/ \E d \in DOMAIN live' : c \in Span(d, live'[d].size)
      <3>1. (\E d \in DOMAIN live : c \in Span(d, live[d].size))
              <=> c \in Span(b, s) \/ \E d \in DOMAIN live' : c \in Span(d, live'[d].size)
        BY <1>8
      <3>2. c \in core' <=> \/ c \in Headers(node)
                           \/ \E d \in DOMAIN live : c \in Span(d, live[d].size)
        BY <1>10 DEF Shared
      <3> QED BY <1>4, <1>5, <3>1, <3>2
    <2>3. core' \in SUBSET (Start .. brk' - 1)
      BY <1>10 DEF Shared
    <2> QED BY <2>1, <2>2, <2>3 DEF Shared
  <1>12. EmptyRight(node)'
    <2>1. SUFFICES ASSUME NEW x \in DOMAIN node', node'[x].size = 0, x # 0
                   PROVE  \E d \in DOMAIN live' : live'[d].use = "lost" /\ x > d
                                                    /\ x \in Span(d, live'[d].size)
      BY DEF EmptyRight
    <2>2. x \in DOMAIN node /\ node[x].size = 0
      BY <1>4, <1>5, <1>6, <2>1
    <2>3. PICK d \in DOMAIN live : live[d].use = "lost" /\ x > d /\ x \in Span(d, live[d].size)
      BY <1>10, <2>1, <2>2 DEF EmptyRight
    <2> QED BY <1>8, <2>3
  <1>13. freep' # -1 /\ Ring(node') /\ freep' \in DOMAIN node' /\ brk' = brk
    <2>1. Ring(node') /\ freep' \in DOMAIN node'
      BY <1>4, <1>5
    <2> QED BY <2>1 DEF Ring, Chain
  <1>14. brk' \in Nat /\ brk' >= Start
    BY <1>13 DEF HeapInv
  <1> QED BY <1>9, <1>11, <1>12, <1>13, <1>14 DEF HeapInv

\* thread_join's free of a stack whose pointer is not malloc's.
LEMMA StackLost ==
  ASSUME HeapInv, NEW b \in DOMAIN live, live[b].use = "stack", live[b].given # b + 1,
         SetHeap(Freed(Heap, live[b].given - 1, 0)),
         live' = [live EXCEPT ![b].use = "lost"], UNCHANGED << brk, core >>
  PROVE  HeapInv'
  <1> DEFINE a == live[b].given - 1
             rest == Freed(Heap, a, 0)
  <1>1. freep # -1
    BY DEF HeapInv
  <1>2. Good(Heap, core, brk) /\ LiveInv /\ Heap.node = node /\ Heap.freep = freep
    BY <1>1 DEF HeapInv, Good, Heap
  <1>3. /\ b \in Nat \ {0} /\ live[b].size \in Nat \ {0} /\ live[b].size = 2 * Page + 1
        /\ live[b].given = Aligned(b + 1) /\ live[b].given \in Nat
        /\ live[b] = [size |-> live[b].size, given |-> live[b].given, use |-> live[b].use]
    BY <1>2 DEF LiveInv, InUseRight
  <1>4. a \in Nat \ {0} /\ a > b /\ a \in Span(b, live[b].size)
    <2>1. Aligned(b + 1) \in b + 1 .. (b + 1) + Page - 1
      BY <1>3, AlignedIs
    <2>2. live[b].given \in b + 2 .. b + Page
      BY <1>3, <2>1, ConstantsAre
    <2> QED BY <1>3, <2>2, ConstantsAre DEF Span
  <1> HIDE DEF a
  <1>5. \A x \in DOMAIN node : x \notin Span(b, live[b].size)
    BY <1>2, BlockApart
  <1>6. Shared(node, core, brk) /\ EmptyRight(node)
    BY <1>2 DEF Good
  <1>7. Unclaimed(node, a, 0)
    <2>1. a \notin DOMAIN node
      BY <1>4, <1>5
    <2>2. Span(a, 0) = {}
      BY <1>4 DEF Span
    <2>3. \A x \in DOMAIN node : a \notin Span(x, node[x].size)
      <3>1. a \notin Headers(node)
        BY <1>4, <1>6 DEF Shared
      <3> QED BY <1>4, <3>1 DEF Headers
    <2> QED BY <1>4, <2>1, <2>2, <2>3 DEF Unclaimed
  <1>8. /\ Ring(rest.node) /\ rest.freep \in DOMAIN rest.node
        /\ Headers(rest.node) = Headers(node) \cup Span(a, 0)
        /\ \A x \in DOMAIN rest.node : rest.node[x].size = 0 =>
             (x \in DOMAIN node /\ node[x].size = 0) \/ (x = a /\ 0 = 0)
    BY <1>2, <1>7, FreedRight DEF Good
  <1>9. node' = rest.node /\ freep' = rest.freep
    BY DEF SetHeap, a
  <1> HIDE DEF rest
  <1>10. Headers(node') = Headers(node)
    <2>1. Span(a, 0) = {}
      BY <1>4 DEF Span
    <2> QED BY <1>8, <1>9, <2>1
  <1>11. /\ DOMAIN live' = DOMAIN live /\ \A c \in DOMAIN live : c # b => live'[c] = live[c]
         /\ live'[b] = [size |-> live[b].size, given |-> live[b].given, use |-> "lost"]
    BY <1>3
  <1>12. \A c \in DOMAIN live : live'[c].size = live[c].size
    BY <1>11
  <1>13. LiveInv'
    <2>1. ASSUME NEW c \in DOMAIN live' PROVE InUseRight(c)'
      <3>1. CASE c = b
        BY <1>3, <1>11, <3>1 DEF InUseRight, Uses
      <3>2. CASE c # b
        <4>1. c \in DOMAIN live /\ live'[c] = live[c]
          BY <1>11, <3>2
        <4>2. InUseRight(c)
          BY <1>2, <4>1 DEF LiveInv
        <4> QED BY <4>1, <4>2 DEF InUseRight
      <3> QED BY <3>1, <3>2
    <2>2. \A c, d \in DOMAIN live' : c # d => Span(c, live'[c].size) \cap Span(d, live'[d].size) = {}
      BY <1>2, <1>11, <1>12 DEF LiveInv
    <2>3. DOMAIN live' \in SUBSET (Nat \ {0})
      BY <1>2, <1>11 DEF LiveInv
    <2> QED BY <2>1, <2>2, <2>3 DEF LiveInv
  <1>14. Shared(node, core, brk)'
    <2>1. core' = core /\ brk' = brk
      OBVIOUS
    <2> QED BY <1>6, <1>10, <1>11, <1>12, <2>1 DEF Shared
  <1>15. EmptyRight(node)'
    <2>1. SUFFICES ASSUME NEW x \in DOMAIN node', node'[x].size = 0, x # 0
                   PROVE  \E d \in DOMAIN live' : live'[d].use = "lost" /\ x > d
                                                    /\ x \in Span(d, live'[d].size)
      BY DEF EmptyRight
    <2>2. CASE x = a
      <3>1. b \in DOMAIN live' /\ live'[b].use = "lost" /\ live'[b].size = live[b].size
        BY <1>11
      <3> QED BY <1>4, <2>2, <3>1
    <2>3. CASE x # a
      <3>1. x \in DOMAIN node /\ node[x].size = 0
        BY <1>8, <1>9, <2>1, <2>3
      <3>2. PICK d \in DOMAIN live : live[d].use = "lost" /\ x > d /\ x \in Span(d, live[d].size)
        BY <1>6, <2>1, <3>1 DEF EmptyRight
      <3>3. d # b
        BY <3>2
      <3> QED BY <1>11, <3>2, <3>3
    <2> QED BY <2>2, <2>3
  <1>16. freep' # -1 /\ Ring(node') /\ freep' \in DOMAIN node'
    <2>1. Ring(node') /\ freep' \in DOMAIN node'
      BY <1>8, <1>9
    <2> QED BY <2>1 DEF Ring, Chain
  <1>17. brk' \in Nat /\ brk' >= Start
    BY DEF HeapInv
  <1> QED BY <1>13, <1>14, <1>15, <1>16, <1>17 DEF HeapInv

LEMMA HeapStep ==
  ASSUME HeapInv, [HeapNext]_heapvars
  PROVE  HeapInv'
  <1>1. CASE UNCHANGED heapvars
    BY <1>1 DEF heapvars, HeapInv, LiveInv, InUseRight, Shared, EmptyRight
  <1>2. ASSUME NEW n \in Wanted, Malloc(n) PROVE HeapInv'
    <2>1. n + 1 \in Nat \ {0}
      BY ConstantsAre
    <2>2. CASE Allocated(n + 1, "block")
      BY <2>1, <2>2, AllocatedRight DEF Uses
    <2>3. CASE NoMemory(n + 1)
      <3>1. Good(Begun, core, brk) /\ LiveInv /\ brk \in Nat /\ brk >= Start
        BY BegunGood DEF HeapInv
      <3>2. node' = Begun.node /\ freep' = Begun.freep /\ brk' = brk /\ live' = live /\ core' = core
        BY <2>3 DEF NoMemory, SetHeap
      <3>3. Ring(node') /\ freep' \in DOMAIN node' /\ Shared(node', core, brk) /\ EmptyRight(node')
        BY <3>1, <3>2 DEF Good
      <3>4. Shared(node, core, brk)' /\ EmptyRight(node)'
        BY <3>2, <3>3 DEF Shared, EmptyRight
      <3>5. freep' # -1
        BY <3>3 DEF Ring, Chain
      <3>6. LiveInv'
        BY <3>1, <3>2 DEF LiveInv, InUseRight
      <3> QED BY <3>1, <3>2, <3>3, <3>4, <3>5, <3>6 DEF HeapInv
    <2> QED BY <1>2, <2>2, <2>3 DEF Malloc
  <1>3. ASSUME NEW b \in DOMAIN live, Free(b) PROVE HeapInv'
    <2>1. live[b].use # "lost"
      BY <1>3 DEF Free
    <2> QED BY <1>3, <2>1, BlockFreed DEF Free
  <1>4. ASSUME NEW b \in DOMAIN live, ThreadJoin(b) PROVE HeapInv'
    <2>1. live[b].use = "stack" /\ live[b].use # "lost"
      BY <1>4 DEF ThreadJoin
    <2>2. CASE live[b].given = b + 1
      BY <1>4, <2>1, <2>2, BlockFreed DEF ThreadJoin
    <2>3. CASE live[b].given # b + 1
      BY <1>4, <2>1, <2>3, StackLost DEF ThreadJoin
    <2> QED BY <2>2, <2>3
  <1>5. CASE OwnSbrk
    <2>1. /\ brk' = brk + 1 /\ node' = node /\ freep' = freep /\ live' = live /\ core' = core
          /\ brk \in Nat /\ brk >= Start
      BY <1>5 DEF OwnSbrk, HeapInv
    <2>2. LiveInv'
      BY <2>1 DEF HeapInv, LiveInv, InUseRight
    <2>3. brk' \in Nat /\ brk' >= Start
      BY <2>1, ConstantsAre
    <2>4. CASE freep # -1
      <3>1. Ring(node) /\ freep \in DOMAIN node /\ Shared(node, core, brk) /\ EmptyRight(node)
        BY <2>4 DEF HeapInv
      <3>2. \A S : S \in SUBSET (Start .. brk - 1) => S \in SUBSET (Start .. (brk + 1) - 1)
        BY <2>1, ConstantsAre
      <3>3. Shared(node, core, brk)'
        BY <2>1, <3>1, <3>2 DEF Shared
      <3>4. EmptyRight(node)'
        BY <2>1, <3>1 DEF EmptyRight
      <3> QED BY <2>1, <2>2, <2>3, <2>4, <3>1, <3>3, <3>4 DEF HeapInv
    <2>5. CASE freep = -1
      BY <2>1, <2>2, <2>3, <2>5 DEF HeapInv
    <2> QED BY <2>4, <2>5
  <1>6. CASE ThreadCreate
    <2>1. 2 * Page + 1 \in Nat \ {0}
      BY ConstantsAre
    <2>2. CASE Allocated(2 * Page + 1, "stack")
      BY <2>1, <2>2, AllocatedRight DEF Uses
    <2>3. CASE Allocated(2 * Page + 1, "lost")
      BY <2>1, <2>3, AllocatedRight DEF Uses
    <2> QED BY <1>6, <2>2, <2>3 DEF ThreadCreate
  <1> QED BY <1>1, <1>2, <1>3, <1>4, <1>5, <1>6 DEF HeapNext

LEMMA HeapInitRight ==
  ASSUME HeapInit
  PROVE  HeapInv
  <1>1. DOMAIN live = {} /\ freep = -1 /\ brk = Start /\ live = << >> /\ core = {}
    BY DEF HeapInit
  <1>2. LiveInv
    BY <1>1 DEF LiveInv
  <1> QED BY <1>1, <1>2, ConstantsAre DEF HeapInv

\* What the invariant says is what the property asks.
LEMMA InvIsInOrder ==
  ASSUME HeapInv
  PROVE  HeapInOrder
  <1> SUFFICES ASSUME freep # -1 PROVE HeapInOrder
    BY DEF HeapInOrder
  <1> DEFINE cells(a, n) == a .. a + n - 1
             blocks == {<< a, node[a].size >> : a \in DOMAIN node}
                         \cup {<< b, live[b].size >> : b \in DOMAIN live}
  <1>1. /\ Ring(node) /\ freep \in DOMAIN node /\ Shared(node, core, brk) /\ EmptyRight(node)
        /\ Chain(node) /\ LiveInv
    BY DEF HeapInv, Ring
  <1>2. /\ DOMAIN node \in SUBSET Nat /\ 0 \in DOMAIN node
        /\ \A x \in DOMAIN node : node[x].size \in Nat /\ node[x].ptr \in DOMAIN node
                                    /\ Follows(node, x, node[x].ptr)
    BY <1>1 DEF Chain
  <1>3. \A a, n : cells(a, n) = Span(a, n)
    BY DEF Span
  <1>4. ASSUME NEW a \in DOMAIN node
        PROVE  LET above == {b \in DOMAIN node : b > a} IN
               /\ node[a].ptr = IF above = {} THEN 0 ELSE Min(above)
               /\ node[a].ptr # a + node[a].size \/ node[a].ptr = 0
    <2> DEFINE above == {b \in DOMAIN node : b > a}
               q == node[a].ptr
    <2>1. Gap(node, a)
      BY <1>1 DEF Ring
    <2>2. q \in DOMAIN node /\ q \in Nat /\ a \in Nat /\ Follows(node, a, q)
      BY <1>2
    <2>3. above \in SUBSET Nat /\ \A z \in above : z \in DOMAIN node /\ z > a
      BY <1>2
    <2>4. CASE q = 0 /\ \A z \in DOMAIN node : z <= a
      <3>1. above = {}
        BY <1>2, <2>2, <2>4
      <3> HIDE DEF above
      <3> QED BY <2>1, <2>4, <3>1 DEF Gap, above
    <2>5. CASE q > a /\ \A z \in DOMAIN node : z <= a \/ z >= q
      <3>1. q \in above
        BY <2>2, <2>5
      <3>2. \A z \in above : z >= q
        BY <1>2, <2>2, <2>5
      <3> HIDE DEF above, q
      <3>3. Min(above) \in above /\ \A z \in above : Min(above) <= z
        BY <2>3, <3>1, MinIsLeast
      <3>4. Min(above) = q
        <4>1. Min(above) \in Nat /\ Min(above) <= q /\ q <= Min(above)
          BY <2>2, <2>3, <3>1, <3>2, <3>3
        <4> QED BY <2>2, <4>1
      <3> QED BY <2>1, <3>1, <3>4 DEF Gap, above, q
    <2> QED BY <2>2, <2>4, <2>5 DEF Follows
  <1>5. ASSUME NEW a \in DOMAIN node, node[a].size = 0, a # 0
        PROVE  \E b \in DOMAIN live : live[b].use = "lost" /\ a \in cells(b, live[b].size)
    <2>1. \E b \in DOMAIN live : live[b].use = "lost" /\ a \in Span(b, live[b].size)
      BY <1>1, <1>5 DEF EmptyRight
    <2> QED BY <2>1 DEF Span
  <1>6. ASSUME NEW a \in DOMAIN node, NEW b \in DOMAIN live
        PROVE  Span(a, node[a].size) \cap Span(b, live[b].size) = {}
    <2>1. SUFFICES ASSUME NEW c \in Span(a, node[a].size), c \in Span(b, live[b].size) PROVE FALSE
      OBVIOUS
    <2>2. c \in Headers(node)
      <3>1. c \in Nat
        BY <1>2 DEF Span
      <3> QED BY <3>1 DEF Headers
    <2> QED BY <1>1, <2>1, <2>2 DEF Shared
  <1>7. ASSUME NEW a \in DOMAIN node, NEW b \in DOMAIN node, a # b
        PROVE  Span(a, node[a].size) \cap Span(b, node[b].size) = {}
    <2>1. a \notin Span(b, node[b].size) /\ b \notin Span(a, node[a].size)
      BY <1>1, <1>7 DEF Chain
    <2>2. a \in Nat /\ b \in Nat /\ node[a].size \in Nat /\ node[b].size \in Nat
      BY <1>2
    <2> QED BY <1>7, <2>1, <2>2 DEF Span
  <1>8. ASSUME NEW x \in blocks, NEW y \in blocks, x # y
        PROVE  cells(x[1], x[2]) \cap cells(y[1], y[2]) = {}
    <2>1. Span(x[1], x[2]) \cap Span(y[1], y[2]) = {}
      <3>1. CASE \E a, b \in DOMAIN node : x = << a, node[a].size >> /\ y = << b, node[b].size >>
        <4>1. PICK a \in DOMAIN node, b \in DOMAIN node : x = << a, node[a].size >> /\ y = << b, node[b].size >>
          BY <3>1
        <4>2. a # b
          BY <1>8, <4>1
        <4> QED BY <1>7, <4>1, <4>2
      <3>2. CASE \E a \in DOMAIN node, b \in DOMAIN live : x = << a, node[a].size >> /\ y = << b, live[b].size >>
        BY <1>6, <3>2
      <3>3. CASE \E a \in DOMAIN node, b \in DOMAIN live : y = << a, node[a].size >> /\ x = << b, live[b].size >>
        BY <1>6, <3>3
      <3>4. CASE \E a, b \in DOMAIN live : x = << a, live[a].size >> /\ y = << b, live[b].size >>
        <4>1. PICK a \in DOMAIN live, b \in DOMAIN live : x = << a, live[a].size >> /\ y = << b, live[b].size >>
          BY <3>4
        <4>2. a # b
          BY <1>8, <4>1
        <4> QED BY <1>1, <4>1, <4>2 DEF LiveInv
      <3> QED BY <3>1, <3>2, <3>3, <3>4
    <2> QED BY <2>1 DEF Span
  <1>9. ASSUME NEW c
        PROVE  (\E x \in blocks : c \in cells(x[1], x[2])) <=> c \in core
    <2>1. c \in Headers(node) <=> \E a \in DOMAIN node : c \in Span(a, node[a].size)
      <3>1. \A a \in DOMAIN node : c \in Span(a, node[a].size) => c \in Nat
        BY <1>2 DEF Span
      <3> QED BY <3>1 DEF Headers
    <2>2. (\E x \in blocks : c \in Span(x[1], x[2])) <=>
            \/ c \in Headers(node)
            \/ \E b \in DOMAIN live : c \in Span(b, live[b].size)
      <3>1. ASSUME NEW x \in blocks, c \in Span(x[1], x[2])
            PROVE  \/ \E a \in DOMAIN node : c \in Span(a, node[a].size)
                   \/ \E b \in DOMAIN live : c \in Span(b, live[b].size)
        BY <3>1
      <3>2. ASSUME NEW a \in DOMAIN node, c \in Span(a, node[a].size)
            PROVE  \E x \in blocks : c \in Span(x[1], x[2])
        <4>1. << a, node[a].size >> \in blocks
          OBVIOUS
        <4> HIDE DEF blocks
        <4> QED BY <3>2, <4>1
      <3>3. ASSUME NEW b \in DOMAIN live, c \in Span(b, live[b].size)
            PROVE  \E x \in blocks : c \in Span(x[1], x[2])
        <4>1. << b, live[b].size >> \in blocks
          OBVIOUS
        <4> HIDE DEF blocks
        <4> QED BY <3>3, <4>1
      <3> HIDE DEF blocks
      <3> QED BY <2>1, <3>1, <3>2, <3>3
    <2>3. (\E x \in blocks : c \in cells(x[1], x[2])) <=> \E x \in blocks : c \in Span(x[1], x[2])
      BY DEF Span
    <2>4. \A b \in DOMAIN live : c \in Span(b, live[b].size) => c \in Nat
      <3>1. \A b \in DOMAIN live : b \in Nat /\ live[b].size \in Nat
        BY <1>1 DEF LiveInv, InUseRight
      <3> QED BY <3>1 DEF Span
    <2>5. c \in Headers(node) \/ c \in core => c \in Nat
      <3>1. \A d \in Start .. brk - 1 : d \in Nat
        BY ConstantsAre
      <3> QED BY <1>1, <3>1 DEF Headers, Shared
    <2> HIDE DEF blocks, cells
    <2> QED BY <1>1, <2>2, <2>3, <2>4, <2>5 DEF Shared
  <1>10. UNION {cells(x[1], x[2]) : x \in blocks} = core
    <2> HIDE DEF blocks, cells
    <2> QED BY <1>9
  <1>11. \A x \in blocks : cells(x[1], x[2]) \subseteq Start .. brk - 1
    <2>1. core \subseteq Start .. brk - 1
      BY <1>1 DEF Shared
    <2> HIDE DEF blocks, cells
    <2> QED BY <1>9, <2>1
  <1> QED BY <1>1, <1>2, <1>4, <1>5, <1>8, <1>10, <1>11 DEF HeapInOrder

(* The ring of free blocks is in the order of their addresses, joined       *)
(* wherever two touch, and free blocks and blocks in use share all that     *)
(* sbrk gave: nothing is lost but the stacks that thread_join cannot give   *)
(* back, and no Header belongs to two blocks.                               *)
THEOREM HeapStaysInOrder == HeapInit /\ [][HeapNext]_heapvars => []HeapInOrder
  <1>1. HeapInit => HeapInv
    BY HeapInitRight
  <1>2. HeapInv /\ [HeapNext]_heapvars => HeapInv'
    BY HeapStep
  <1>3. HeapInv => HeapInOrder
    BY InvIsInOrder
  <1> QED BY <1>1, <1>2, <1>3, PTL
=============================================================================
