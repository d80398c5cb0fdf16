----------------------------- MODULE InodeProofs ----------------------------
(***************************************************************************)
(* Proofs about Inodes.  While any finite number of processes runs the     *)
(* calls of sysfile.c at once, ref counts the pointers to a slot of the    *)
(* cache, I_BUSY has one holder, and what a slot says is what the disk     *)
(* says.  The difficult moment is iput's: it gives up icache.lock to run   *)
(* itrunc and iupdate, with the inode locked and one reference left.       *)
(* CacheInv says what nobody else may do meanwhile.  For each action there *)
(* is a lemma that the action keeps CacheInv; a step that frees no inode   *)
(* is first shown to be Ordinary, which is enough.                         *)
(* The second half is about the tree of directories and the number of      *)
(* links, over CacheInv: TreeInv says that what a call has found is still  *)
(* so when it acts on it, and which links are not yet, or no more, names.  *)
(***************************************************************************)
EXTENDS Inodes, Numbers, FiniteSetTheorems, SequenceTheorems, TLAPS

Types  == {"none", "T_DIR", "T_FILE"}
Record == [inum : Inum \cup {None}, ref : Nat, busy : BOOLEAN, valid : BOOLEAN,
           type : Types, nlink : Int]
Names  == Name \cup {".."}

\* Where a process of ours has locked ip, where dp, and where ip is still to be locked.
IpLocked == {"dots", "dotdot", "enter", "made", "undot", "erased"}
DpLocked == {"ialloc", "inew", "dots", "dotdot", "enter", "victim", "undot", "not_empty"}
Waiting  == {"walk", "found", "exists", "inew", "victim"}
HasIp    == Waiting \cup IpLocked
HasDp    == DpLocked \cup {"parent"}
Labels   == HasIp \cup HasDp \cup {"user", "bad"}

Typed ==
  /\ dinode \in [Inum -> [type : Types, nlink : Int]]
  /\ dir \in [Inum -> [Names -> Inum \cup {None}]]
  /\ icache \in [Slot -> Record]
  /\ cwd \in [Proc -> Slot] /\ fd \in [Proc -> Slot \cup {NoSlot}]
  /\ pc \in [Proc -> Labels] /\ call \in [Proc -> Calls \cup {NoCall}]
  /\ rest \in [Proc -> Seq(Names)]
  /\ ip \in [Proc -> Slot \cup {NoSlot}] /\ dp \in [Proc -> Slot \cup {NoSlot}]
  /\ held \in [Proc -> Slot \cup {NoSlot}]
  /\ puts \in [Proc -> Seq(Slot)]
  /\ freeing \in [Proc -> {"no", "itrunc", "done"}]
  /\ lost \subseteq Inum

\* The first and the second of puts.
Put1(q, s) == 1 \in DOMAIN puts[q] /\ puts[q][1] = s
Put2(q, s) == 2 \in DOMAIN puts[q] /\ puts[q][2] = s

\* At most two iputs are to be done, and the one under way is the first.
PutsShort(q) == Len(puts[q]) <= 2 /\ (freeing[q] # "no" => puts[q] # << >>)

\* What a process has at hand at each place of a call.
InPlace(q) ==
  /\ pc[q] \in HasIp <=> ip[q] # NoSlot
  /\ pc[q] \in HasDp <=> dp[q] # NoSlot
  /\ held[q] # NoSlot => pc[q] \in {"walk", "parent", "bad"} /\ call[q].op = "link"
  /\ pc[q] = "bad" => held[q] # NoSlot
  /\ pc[q] = "parent" /\ call[q].op = "link" => held[q] # NoSlot
  /\ pc[q] \in {"walk"} \cup (HasDp \ {"undot", "not_empty"}) => rest[q] # << >>
  /\ pc[q] # "user" => call[q] \in Calls
  /\ pc[q] \in IpLocked \cap DpLocked => ip[q] # dp[q]

Placed(q) == InPlace(q) /\ PutsShort(q)

\* References to an inode that has been found to be there: all but an ip not yet locked.
Keeps(q, s) ==
  \/ cwd[q] = s \/ fd[q] = s \/ dp[q] = s \/ held[q] = s
  \/ ip[q] = s /\ pc[q] \notin Waiting

\* q is inside iput's itrunc or behind it; behind it, the inode on disk is free.
Frees(q, s) == freeing[q] # "no" /\ Put1(q, s)
DoneWith(q, s) == freeing[q] = "done" /\ Put1(q, s)

\* q has I_BUSY of s.
Holds(q, s) ==
  \/ pc[q] \in DpLocked /\ dp[q] = s
  \/ pc[q] \in IpLocked /\ ip[q] = s
  \/ Frees(q, s)

\* ref counts the pointers of all processes.
Counted == \A s \in Slot : icache[s].ref = References(s)
\* iget never gives one inode two slots.
NumbersRight ==
  /\ \A s \in Slot : icache[s].ref > 0 => icache[s].inum \in Inum
  /\ \A s, t \in Slot : icache[s].ref > 0 /\ icache[t].ref > 0
                          /\ icache[s].inum = icache[t].inum => s = t
\* I_BUSY is set while one process, and never two, has the lock.
LocksRight ==
  /\ \A s \in Slot : icache[s].busy <=> \E q \in Proc : Holds(q, s)
  /\ \A q, r \in Proc, s \in Slot : Holds(q, s) /\ Holds(r, s) => q = r

\* Nobody has a settled reference to what is being freed.
FreedAlone ==
  \A q, r \in Proc, s \in Slot : Frees(q, s) =>
    /\ icache[s].valid
    /\ ~Keeps(r, s) /\ ~Put2(r, s) /\ (Put1(r, s) => r = q)

\* The copy in the cache is the inode on disk, except between iput's iupdate and its end.
Match(s) ==
  LET d == dinode[icache[s].inum] IN
  d.type = icache[s].type /\ d.nlink = icache[s].nlink /\ d.type # "none"
Copied ==
  \A s \in Slot : icache[s].ref > 0 /\ icache[s].valid =>
    Match(s) \/ \E q \in Proc : DoneWith(q, s)

\* Who keeps an inode keeps one that has a type: nobody has freed it under him.
Settled ==
  \A q \in Proc, s \in Slot :
    /\ Keeps(q, s) \/ Put2(q, s) \/ (Put1(q, s) /\ freeing[q] # "done") =>
         dinode[icache[s].inum].type # "none"
    /\ dp[q] = s \/ held[q] = s \/ (ip[q] = s /\ pc[q] \in IpLocked) => icache[s].valid

CacheInv ==
  /\ Typed /\ (\A q \in Proc : Placed(q)) /\ Counted /\ NumbersRight /\ LocksRight
  /\ FreedAlone /\ Copied /\ Settled

(***************************************************************************)
(* Sets that differ in one element.                                        *)
(***************************************************************************)
LEMMA OneMoves ==
  ASSUME NEW S, IsFiniteSet(S), NEW A \in SUBSET S, NEW B \in SUBSET S, NEW x \in S,
         \A y \in S : y # x => (y \in A <=> y \in B)
  PROVE  /\ Cardinality(A) \in Nat /\ Cardinality(B) \in Nat
         /\ Cardinality(B) = Cardinality(A) - Is(x \in A) + Is(x \in B)
  <1> DEFINE C == A \ {x}
  <1>1. IsFiniteSet(A) /\ IsFiniteSet(B) /\ IsFiniteSet(C)
    BY FS_Subset
  <1>2. C = B \ {x}
    OBVIOUS
  <1>3. /\ Cardinality(A) \in Nat /\ Cardinality(B) \in Nat /\ Cardinality(C) \in Nat
    BY <1>1, FS_CardinalityType
  <1>4. Cardinality(C) = Cardinality(A) - Is(x \in A)
    <2>1. CASE x \in A
      BY <1>1, <2>1, FS_RemoveElement DEF Is
    <2>2. CASE x \notin A
      <3>1. Cardinality(C) = Cardinality(A)
        <4>1. C = A
          BY <1>2, <2>2
        <4> HIDE DEF C
        <4> QED BY <4>1
      <3> HIDE DEF C
      <3> QED BY <1>3, <2>2, <3>1 DEF Is
    <2> QED BY <2>1, <2>2
  <1>5. Cardinality(C) = Cardinality(B) - Is(x \in B)
    <2>1. CASE x \in B
      BY <1>1, <1>2, <2>1, FS_RemoveElement DEF Is
    <2>2. CASE x \notin B
      <3>1. Cardinality(C) = Cardinality(B)
        <4>1. C = B
          BY <1>2, <2>2
        <4> HIDE DEF C
        <4> QED BY <4>1
      <3> HIDE DEF C
      <3> QED BY <1>3, <2>2, <3>1 DEF Is
    <2> QED BY <2>1, <2>2
  <1> QED BY <1>3, <1>4, <1>5 DEF Is

LEMMA TwoInside ==
  ASSUME NEW S, IsFiniteSet(S), NEW A \in SUBSET S, NEW x \in S, NEW y \in S, x # y
  PROVE  Cardinality(A) \in Nat /\ Cardinality(A) >= Is(x \in A) + Is(y \in A)
  <1> DEFINE B == A \ {x}
             C == B \ {y}
  <1>1. /\ Cardinality(A) \in Nat /\ Cardinality(B) \in Nat
        /\ Cardinality(B) = Cardinality(A) - Is(x \in A) + Is(x \in B)
    BY OneMoves
  <1>2. /\ Cardinality(C) \in Nat
        /\ Cardinality(C) = Cardinality(B) - Is(y \in B) + Is(y \in C)
    BY OneMoves
  <1>3. x \notin B /\ y \notin C /\ (y \in B <=> y \in A)
    OBVIOUS
  <1> QED BY <1>1, <1>2, <1>3 DEF Is

(***************************************************************************)
(* References, process by process.                                         *)
(***************************************************************************)
Mine(p, s) == Is(cwd[p] = s) + Is(fd[p] = s) + Is(ip[p] = s) + Is(dp[p] = s)
                + Is(held[p] = s) + Is(Put1(p, s)) + Is(Put2(p, s))

LEMMA MineNat == ASSUME NEW p, NEW s PROVE Mine(p, s) \in Nat
  BY DEF Mine, Is

Others(p) == \A q \in Proc : q # p =>
  /\ cwd'[q] = cwd[q] /\ fd'[q] = fd[q] /\ ip'[q] = ip[q] /\ dp'[q] = dp[q]
  /\ held'[q] = held[q] /\ puts'[q] = puts[q] /\ freeing'[q] = freeing[q]
  /\ pc'[q] = pc[q] /\ call'[q] = call[q] /\ rest'[q] = rest[q]

LEMMA ReferencesMove ==
  ASSUME NEW p \in Proc, NEW s, Others(p)
  PROVE  /\ References(s) \in Nat /\ References(s)' \in Nat
         /\ References(s)' = References(s) - Mine(p, s) + Mine(p, s)'
  <1> DEFINE A(k) == {q \in Proc : k \in DOMAIN puts[q] /\ puts[q][k] = s}
             B(k) == {q \in Proc : k \in DOMAIN puts'[q] /\ puts'[q][k] = s}
  <1>1. IsFiniteSet(Proc)
    BY InodesAssumption
  <1>2. ASSUME NEW k
        PROVE  /\ Puts(k, s) \in Nat /\ Puts(k, s)' \in Nat
               /\ Puts(k, s)' = Puts(k, s) - Is(p \in A(k)) + Is(p \in B(k))
    <2>1. A(k) \in SUBSET Proc /\ B(k) \in SUBSET Proc
      OBVIOUS
    <2>2. \A y \in Proc : y # p => (y \in A(k) <=> y \in B(k))
      BY DEF Others
    <2>3. /\ Cardinality(A(k)) \in Nat /\ Cardinality(B(k)) \in Nat
          /\ Cardinality(B(k)) = Cardinality(A(k)) - Is(p \in A(k)) + Is(p \in B(k))
      <3> HIDE DEF A, B
      <3> QED BY <1>1, <2>1, <2>2, OneMoves
    <2> QED BY <2>3 DEF Puts
  <1>3. /\ p \in A(1) <=> Put1(p, s)
        /\ p \in A(2) <=> Put2(p, s)
        /\ p \in B(1) <=> Put1(p, s)'
        /\ p \in B(2) <=> Put2(p, s)'
    BY DEF Put1, Put2
  <1>4. /\ Puts(1, s) \in Nat /\ Puts(1, s)' \in Nat
        /\ Puts(1, s)' = Puts(1, s) - Is(Put1(p, s)) + Is(Put1(p, s)')
        /\ Puts(2, s) \in Nat /\ Puts(2, s)' \in Nat
        /\ Puts(2, s)' = Puts(2, s) - Is(Put2(p, s)) + Is(Put2(p, s)')
        /\ Is(Put1(p, s)) \in Nat /\ Is(Put1(p, s)') \in Nat
        /\ Is(Put2(p, s)) \in Nat /\ Is(Put2(p, s)') \in Nat
    <2> HIDE DEF A, B
    <2>1. \A b \in BOOLEAN : Is(b) \in Nat
      BY DEF Is
    <2> QED BY <1>2, <1>3, <2>1 DEF Is
  <1>5. /\ Users(cwd, s) \in Nat /\ Users(cwd, s)' \in Nat
        /\ Is(cwd[p] = s) \in Nat /\ Is(cwd'[p] = s) \in Nat
        /\ Users(cwd, s)' = Users(cwd, s) - Is(cwd[p] = s) + Is(cwd'[p] = s)
    <2> DEFINE C == {q \in Proc : cwd[q] = s}
               D == {q \in Proc : cwd'[q] = s}
    <2>1. /\ C \in SUBSET Proc /\ D \in SUBSET Proc
          /\ \A y \in Proc : y # p => (y \in C <=> y \in D)
          /\ (p \in C <=> cwd[p] = s) /\ (p \in D <=> cwd'[p] = s)
      BY DEF Others
    <2>2. Users(cwd, s) = Cardinality(C) /\ Users(cwd, s)' = Cardinality(D)
      BY DEF Users
    <2> HIDE DEF C, D
    <2>3. /\ Cardinality(C) \in Nat /\ Cardinality(D) \in Nat
          /\ Cardinality(D) = Cardinality(C) - Is(p \in C) + Is(p \in D)
      BY <1>1, <2>1, OneMoves
    <2> QED BY <2>1, <2>2, <2>3 DEF Is
  <1>6. /\ Users(fd, s) \in Nat /\ Users(fd, s)' \in Nat
        /\ Is(fd[p] = s) \in Nat /\ Is(fd'[p] = s) \in Nat
        /\ Users(fd, s)' = Users(fd, s) - Is(fd[p] = s) + Is(fd'[p] = s)
    <2> DEFINE C == {q \in Proc : fd[q] = s}
               D == {q \in Proc : fd'[q] = s}
    <2>1. /\ C \in SUBSET Proc /\ D \in SUBSET Proc
          /\ \A y \in Proc : y # p => (y \in C <=> y \in D)
          /\ (p \in C <=> fd[p] = s) /\ (p \in D <=> fd'[p] = s)
      BY DEF Others
    <2>2. Users(fd, s) = Cardinality(C) /\ Users(fd, s)' = Cardinality(D)
      BY DEF Users
    <2> HIDE DEF C, D
    <2>3. /\ Cardinality(C) \in Nat /\ Cardinality(D) \in Nat
          /\ Cardinality(D) = Cardinality(C) - Is(p \in C) + Is(p \in D)
      BY <1>1, <2>1, OneMoves
    <2> QED BY <2>1, <2>2, <2>3 DEF Is
  <1>7. /\ Users(ip, s) \in Nat /\ Users(ip, s)' \in Nat
        /\ Is(ip[p] = s) \in Nat /\ Is(ip'[p] = s) \in Nat
        /\ Users(ip, s)' = Users(ip, s) - Is(ip[p] = s) + Is(ip'[p] = s)
    <2> DEFINE C == {q \in Proc : ip[q] = s}
               D == {q \in Proc : ip'[q] = s}
    <2>1. /\ C \in SUBSET Proc /\ D \in SUBSET Proc
          /\ \A y \in Proc : y # p => (y \in C <=> y \in D)
          /\ (p \in C <=> ip[p] = s) /\ (p \in D <=> ip'[p] = s)
      BY DEF Others
    <2>2. Users(ip, s) = Cardinality(C) /\ Users(ip, s)' = Cardinality(D)
      BY DEF Users
    <2> HIDE DEF C, D
    <2>3. /\ Cardinality(C) \in Nat /\ Cardinality(D) \in Nat
          /\ Cardinality(D) = Cardinality(C) - Is(p \in C) + Is(p \in D)
      BY <1>1, <2>1, OneMoves
    <2> QED BY <2>1, <2>2, <2>3 DEF Is
  <1>8. /\ Users(dp, s) \in Nat /\ Users(dp, s)' \in Nat
        /\ Is(dp[p] = s) \in Nat /\ Is(dp'[p] = s) \in Nat
        /\ Users(dp, s)' = Users(dp, s) - Is(dp[p] = s) + Is(dp'[p] = s)
    <2> DEFINE C == {q \in Proc : dp[q] = s}
               D == {q \in Proc : dp'[q] = s}
    <2>1. /\ C \in SUBSET Proc /\ D \in SUBSET Proc
          /\ \A y \in Proc : y # p => (y \in C <=> y \in D)
          /\ (p \in C <=> dp[p] = s) /\ (p \in D <=> dp'[p] = s)
      BY DEF Others
    <2>2. Users(dp, s) = Cardinality(C) /\ Users(dp, s)' = Cardinality(D)
      BY DEF Users
    <2> HIDE DEF C, D
    <2>3. /\ Cardinality(C) \in Nat /\ Cardinality(D) \in Nat
          /\ Cardinality(D) = Cardinality(C) - Is(p \in C) + Is(p \in D)
      BY <1>1, <2>1, OneMoves
    <2> QED BY <2>1, <2>2, <2>3 DEF Is
  <1>9. /\ Users(held, s) \in Nat /\ Users(held, s)' \in Nat
        /\ Is(held[p] = s) \in Nat /\ Is(held'[p] = s) \in Nat
        /\ Users(held, s)' = Users(held, s) - Is(held[p] = s) + Is(held'[p] = s)
    <2> DEFINE C == {q \in Proc : held[q] = s}
               D == {q \in Proc : held'[q] = s}
    <2>1. /\ C \in SUBSET Proc /\ D \in SUBSET Proc
          /\ \A y \in Proc : y # p => (y \in C <=> y \in D)
          /\ (p \in C <=> held[p] = s) /\ (p \in D <=> held'[p] = s)
      BY DEF Others
    <2>2. Users(held, s) = Cardinality(C) /\ Users(held, s)' = Cardinality(D)
      BY DEF Users
    <2> HIDE DEF C, D
    <2>3. /\ Cardinality(C) \in Nat /\ Cardinality(D) \in Nat
          /\ Cardinality(D) = Cardinality(C) - Is(p \in C) + Is(p \in D)
      BY <1>1, <2>1, OneMoves
    <2> QED BY <2>1, <2>2, <2>3 DEF Is
  <1>10. /\ References(s) = Users(cwd, s) + Users(fd, s) + Users(ip, s) + Users(dp, s)
                              + Users(held, s) + Puts(1, s) + Puts(2, s)
         /\ References(s)' = Users(cwd, s)' + Users(fd, s)' + Users(ip, s)' + Users(dp, s)'
                              + Users(held, s)' + Puts(1, s)' + Puts(2, s)'
    BY DEF References, Users
  <1>11. /\ Mine(p, s) = Is(cwd[p] = s) + Is(fd[p] = s) + Is(ip[p] = s) + Is(dp[p] = s)
                + Is(held[p] = s) + Is(Put1(p, s)) + Is(Put2(p, s))
         /\ Mine(p, s)' = Is(cwd'[p] = s) + Is(fd'[p] = s) + Is(ip'[p] = s) + Is(dp'[p] = s)
                + Is(held'[p] = s) + Is(Put1(p, s)') + Is(Put2(p, s)')
    BY DEF Mine, Is
  <1> HIDE DEF A, B
  <1> QED BY <1>4, <1>5, <1>6, <1>7, <1>8, <1>9, <1>10, <1>11

\* Two references make two, whether of one process or of two.
LEMMA MineInside ==
  ASSUME NEW q \in Proc, NEW r \in Proc, NEW s
  PROVE  /\ References(s) \in Nat /\ References(s) >= Mine(q, s)
         /\ q # r => References(s) >= Mine(q, s) + Mine(r, s)
  <1>1. IsFiniteSet(Proc)
    BY InodesAssumption
  <1>2. ASSUME NEW A \in SUBSET Proc
        PROVE  /\ Cardinality(A) \in Nat
               /\ Is(q \in A) \in Nat /\ Is(r \in A) \in Nat
               /\ Cardinality(A) >= Is(q \in A)
               /\ q # r => Cardinality(A) >= Is(q \in A) + Is(r \in A)
    <2> DEFINE B == A \ {q}
    <2>1. B \in SUBSET Proc /\ q \notin B /\ \A y \in Proc : y # q => (y \in A <=> y \in B)
      BY <1>2
    <2>2. /\ Cardinality(A) \in Nat /\ Cardinality(B) \in Nat
          /\ Cardinality(B) = Cardinality(A) - Is(q \in A) + Is(q \in B)
      <3> HIDE DEF B
      <3> QED BY <1>1, <2>1, OneMoves
    <2>3. q # r => Cardinality(A) >= Is(q \in A) + Is(r \in A)
      BY <1>1, TwoInside
    <2> QED BY <2>1, <2>2, <2>3 DEF Is
  <1>3. /\ Users(cwd, s) \in Nat /\ Is(cwd[q] = s) \in Nat /\ Is(cwd[r] = s) \in Nat
        /\ Users(cwd, s) >= Is(cwd[q] = s)
        /\ q # r => Users(cwd, s) >= Is(cwd[q] = s) + Is(cwd[r] = s)
    <2> DEFINE C == {o \in Proc : cwd[o] = s}
    <2>1. C \in SUBSET Proc /\ (q \in C <=> cwd[q] = s) /\ (r \in C <=> cwd[r] = s)
      OBVIOUS
    <2>2. Users(cwd, s) = Cardinality(C)
      BY DEF Users
    <2> HIDE DEF C
    <2> QED BY <1>2, <2>1, <2>2 DEF Is
  <1>4. /\ Users(fd, s) \in Nat /\ Is(fd[q] = s) \in Nat /\ Is(fd[r] = s) \in Nat
        /\ Users(fd, s) >= Is(fd[q] = s)
        /\ q # r => Users(fd, s) >= Is(fd[q] = s) + Is(fd[r] = s)
    <2> DEFINE C == {o \in Proc : fd[o] = s}
    <2>1. C \in SUBSET Proc /\ (q \in C <=> fd[q] = s) /\ (r \in C <=> fd[r] = s)
      OBVIOUS
    <2>2. Users(fd, s) = Cardinality(C)
      BY DEF Users
    <2> HIDE DEF C
    <2> QED BY <1>2, <2>1, <2>2 DEF Is
  <1>5. /\ Users(ip, s) \in Nat /\ Is(ip[q] = s) \in Nat /\ Is(ip[r] = s) \in Nat
        /\ Users(ip, s) >= Is(ip[q] = s)
        /\ q # r => Users(ip, s) >= Is(ip[q] = s) + Is(ip[r] = s)
    <2> DEFINE C == {o \in Proc : ip[o] = s}
    <2>1. C \in SUBSET Proc /\ (q \in C <=> ip[q] = s) /\ (r \in C <=> ip[r] = s)
      OBVIOUS
    <2>2. Users(ip, s) = Cardinality(C)
      BY DEF Users
    <2> HIDE DEF C
    <2> QED BY <1>2, <2>1, <2>2 DEF Is
  <1>6. /\ Users(dp, s) \in Nat /\ Is(dp[q] = s) \in Nat /\ Is(dp[r] = s) \in Nat
        /\ Users(dp, s) >= Is(dp[q] = s)
        /\ q # r => Users(dp, s) >= Is(dp[q] = s) + Is(dp[r] = s)
    <2> DEFINE C == {o \in Proc : dp[o] = s}
    <2>1. C \in SUBSET Proc /\ (q \in C <=> dp[q] = s) /\ (r \in C <=> dp[r] = s)
      OBVIOUS
    <2>2. Users(dp, s) = Cardinality(C)
      BY DEF Users
    <2> HIDE DEF C
    <2> QED BY <1>2, <2>1, <2>2 DEF Is
  <1>7. /\ Users(held, s) \in Nat /\ Is(held[q] = s) \in Nat /\ Is(held[r] = s) \in Nat
        /\ Users(held, s) >= Is(held[q] = s)
        /\ q # r => Users(held, s) >= Is(held[q] = s) + Is(held[r] = s)
    <2> DEFINE C == {o \in Proc : held[o] = s}
    <2>1. C \in SUBSET Proc /\ (q \in C <=> held[q] = s) /\ (r \in C <=> held[r] = s)
      OBVIOUS
    <2>2. Users(held, s) = Cardinality(C)
      BY DEF Users
    <2> HIDE DEF C
    <2> QED BY <1>2, <2>1, <2>2 DEF Is
  <1>8. /\ Puts(1, s) \in Nat /\ Is(Put1(q, s)) \in Nat /\ Is(Put1(r, s)) \in Nat
        /\ Puts(1, s) >= Is(Put1(q, s))
        /\ q # r => Puts(1, s) >= Is(Put1(q, s)) + Is(Put1(r, s))
    <2> DEFINE C == {o \in Proc : 1 \in DOMAIN puts[o] /\ puts[o][1] = s}
    <2>1. C \in SUBSET Proc /\ (q \in C <=> Put1(q, s)) /\ (r \in C <=> Put1(r, s))
      BY DEF Put1
    <2>2. Puts(1, s) = Cardinality(C)
      BY DEF Puts
    <2> HIDE DEF C
    <2> QED BY <1>2, <2>1, <2>2 DEF Is
  <1>9. /\ Puts(2, s) \in Nat /\ Is(Put2(q, s)) \in Nat /\ Is(Put2(r, s)) \in Nat
        /\ Puts(2, s) >= Is(Put2(q, s))
        /\ q # r => Puts(2, s) >= Is(Put2(q, s)) + Is(Put2(r, s))
    <2> DEFINE C == {o \in Proc : 2 \in DOMAIN puts[o] /\ puts[o][2] = s}
    <2>1. C \in SUBSET Proc /\ (q \in C <=> Put2(q, s)) /\ (r \in C <=> Put2(r, s))
      BY DEF Put2
    <2>2. Puts(2, s) = Cardinality(C)
      BY DEF Puts
    <2> HIDE DEF C
    <2> QED BY <1>2, <2>1, <2>2 DEF Is
  <1> QED BY <1>3, <1>4, <1>5, <1>6, <1>7, <1>8, <1>9 DEF References, Mine

Has(q, s) ==
  \/ cwd[q] = s \/ fd[q] = s \/ ip[q] = s \/ dp[q] = s \/ held[q] = s
  \/ Put1(q, s) \/ Put2(q, s)

LEMMA HasMine ==
  ASSUME NEW q, NEW s
  PROVE  Mine(q, s) \in Nat /\ (Has(q, s) <=> Mine(q, s) >= 1)
  BY DEF Has, Mine, Is

LEMMA Taken ==
  ASSUME Counted, NEW q \in Proc, NEW s \in Slot, Has(q, s)
  PROVE  icache[s].ref >= 1 /\ icache[s].ref \in Nat
  BY HasMine, MineInside DEF Counted

\* The only reference to s is q's.
LEMMA Lone ==
  ASSUME Counted, NEW q \in Proc, NEW s \in Slot, Has(q, s), icache[s].ref = 1
  PROVE  Mine(q, s) = 1 /\ \A r \in Proc : r # q => ~Has(r, s)
  <1>1. Mine(q, s) \in Nat /\ Mine(q, s) >= 1 /\ References(s) = 1
    BY HasMine DEF Counted
  <1>2. Mine(q, s) <= 1
    BY <1>1, MineInside
  <1>3. ASSUME NEW r \in Proc, r # q, Has(r, s) PROVE FALSE
    <2>1. Mine(r, s) \in Nat /\ Mine(r, s) >= 1
      BY <1>3, HasMine
    <2>2. References(s) >= Mine(q, s) + Mine(r, s)
      BY <1>3, MineInside
    <2> QED BY <1>1, <2>1, <2>2
  <1> QED BY <1>1, <1>2, <1>3

(***************************************************************************)
(* The operations of the cache, as values.                                 *)
(***************************************************************************)
Caches == [Slot -> Record]

LEMMA SlotFacts ==
  /\ Slot \in SUBSET Nat /\ NoSlot \notin Slot /\ ROOTINO \in Inum
  /\ None \notin Inum /\ 1 \in Slot /\ Inum \in SUBSET Nat
  BY InodesAssumption DEF Slot, Inum, ROOTINO, None

LEMMA IgetSlotFacts ==
  ASSUME NEW c \in Caches, NEW i \in Inum, IgetSlot(c, i) # NoSlot
  PROVE  /\ IgetSlot(c, i) \in Slot
         /\ \/ c[IgetSlot(c, i)].ref > 0 /\ c[IgetSlot(c, i)].inum = i
            \/ /\ c[IgetSlot(c, i)].ref = 0
               /\ \A s \in Slot : ~(c[s].ref > 0 /\ c[s].inum = i)
  <1> DEFINE mine  == {s \in Slot : c[s].ref > 0 /\ c[s].inum = i}
             empty == {s \in Slot : c[s].ref = 0}
  <1>1. IgetSlot(c, i) = IF mine # {} THEN CHOOSE s \in mine : TRUE
                         ELSE IF empty # {} THEN Min(empty) ELSE NoSlot
    BY DEF IgetSlot
  <1>2. CASE mine # {}
    <2>1. IgetSlot(c, i) \in mine
      <3> HIDE DEF mine
      <3> QED BY <1>1, <1>2
    <2> QED BY <2>1
  <1>3. CASE mine = {}
    <2>1. empty \in SUBSET Nat /\ empty # {} /\ IgetSlot(c, i) = Min(empty)
      BY <1>1, <1>3, SlotFacts
    <2>2. IgetSlot(c, i) \in empty
      <3> HIDE DEF empty
      <3> QED BY <2>1, MinInSet
    <2> QED BY <1>3, <2>2
  <1> QED BY <1>2, <1>3

\* One more reference to the slot; a slot that was not in use is new.
LEMMA IgetFacts ==
  ASSUME NEW c \in Caches, NEW i \in Inum, IgetSlot(c, i) # NoSlot,
         NEW t, t = IgetSlot(c, i), NEW d, d = iget(c, i)
  PROVE  /\ t \in Slot /\ d \in Caches
         /\ \A s \in Slot : s # t => d[s] = c[s]
         /\ d[t].inum = i /\ d[t].ref = c[t].ref + 1 /\ c[t].ref \in Nat
         /\ \/ /\ c[t].ref > 0 /\ c[t].inum = i
               /\ d[t].busy = c[t].busy /\ d[t].valid = c[t].valid
               /\ d[t].type = c[t].type /\ d[t].nlink = c[t].nlink
            \/ /\ c[t].ref = 0 /\ ~d[t].busy /\ ~d[t].valid
               /\ \A s \in Slot : ~(c[s].ref > 0 /\ c[s].inum = i)
  <1>1. /\ t \in Slot
        /\ \/ c[t].ref > 0 /\ c[t].inum = i
           \/ /\ c[t].ref = 0
              /\ \A s \in Slot : ~(c[s].ref > 0 /\ c[s].inum = i)
    BY IgetSlotFacts
  <1>2. c[t] \in Record /\ c[t].ref \in Nat
    BY <1>1 DEF Caches, Record
  <1>3. CASE c[t].ref > 0
    <2>1. d = [c EXCEPT ![t].ref = @ + 1]
      BY <1>3 DEF iget
    <2>2. d[t] = [c[t] EXCEPT !.ref = @ + 1] /\ \A s \in Slot : s # t => d[s] = c[s]
      BY <1>1, <2>1 DEF Caches
    <2>3. [c[t] EXCEPT !.ref = @ + 1] \in Record
      BY <1>2 DEF Record
    <2>4. d \in Caches
      BY <1>1, <2>1, <2>2, <2>3 DEF Caches
    <2> QED BY <1>1, <1>2, <1>3, <2>2, <2>4 DEF Record
  <1>4. CASE ~(c[t].ref > 0)
    <2>1. d = [c EXCEPT ![t] = [Unused EXCEPT !.inum = i, !.ref = 1]]
      BY <1>4 DEF iget
    <2>2. Unused \in Record /\ ~Unused.busy /\ ~Unused.valid
      BY DEF Unused, Record, Types
    <2> DEFINE new == [Unused EXCEPT !.inum = i, !.ref = 1]
    <2>5. new \in Record /\ new.inum = i /\ new.ref = 1 /\ ~new.busy /\ ~new.valid
      BY <2>2 DEF Record
    <2>6. new = [Unused EXCEPT !.inum = i, !.ref = 1]
      OBVIOUS
    <2> HIDE DEF new
    <2>3. d[t] = new /\ \A s \in Slot : s # t => d[s] = c[s]
      BY <1>1, <2>1, <2>6 DEF Caches
    <2>4. d \in Caches
      BY <1>1, <2>1, <2>5, <2>6 DEF Caches
    <2> QED BY <1>1, <1>2, <1>4, <2>3, <2>4, <2>5
  <1> QED BY <1>3, <1>4

LEMMA LoadedFacts ==
  ASSUME Typed, NEW s \in Slot, icache[s].inum \in Inum
  PROVE  /\ Loaded(s) \in Record /\ Loaded(s).valid
         /\ Loaded(s).inum = icache[s].inum /\ Loaded(s).ref = icache[s].ref
         /\ Loaded(s).busy = icache[s].busy
         /\ icache[s].valid => Loaded(s) = icache[s]
         /\ ~icache[s].valid => /\ Loaded(s).type = dinode[icache[s].inum].type
                                /\ Loaded(s).nlink = dinode[icache[s].inum].nlink
  <1>1. icache[s] \in Record
    BY DEF Typed
  <1>2. CASE icache[s].valid
    BY <1>1, <1>2 DEF Loaded, Record
  <1>3. CASE ~icache[s].valid
    <2>1. dinode[icache[s].inum] \in [type : Types, nlink : Int]
      BY DEF Typed
    <2> QED BY <1>1, <1>3, <2>1 DEF Loaded, Record
  <1> QED BY <1>2, <1>3

LEMMA UseFacts ==
  ASSUME Typed, NEW s \in Slot, icache[s].inum \in Inum
  PROVE  /\ Use(s) \in Caches /\ Use(s)[s] = Loaded(s)
         /\ \A t \in Slot : t # s => Use(s)[t] = icache[t]
  <1>1. Loaded(s) \in Record /\ icache \in Caches
    BY LoadedFacts DEF Typed, Caches
  <1> QED BY <1>1 DEF Use, Caches

LEMMA LockFacts ==
  ASSUME Typed, NEW s \in Slot, icache[s].inum \in Inum
  PROVE  /\ Lock(s) \in Caches /\ Lock(s)[s].busy /\ Lock(s)[s].valid
         /\ Lock(s)[s].inum = icache[s].inum /\ Lock(s)[s].ref = icache[s].ref
         /\ Lock(s)[s].type = Loaded(s).type /\ Lock(s)[s].nlink = Loaded(s).nlink
         /\ \A t \in Slot : t # s => Lock(s)[t] = icache[t]
  <1> DEFINE y == [Loaded(s) EXCEPT !.busy = TRUE]
  <1>1. Loaded(s) \in Record /\ icache \in Caches
    BY LoadedFacts DEF Typed, Caches
  <1>2. /\ y \in Record /\ y.busy = TRUE /\ y.inum = Loaded(s).inum /\ y.ref = Loaded(s).ref
        /\ y.valid = Loaded(s).valid /\ y.type = Loaded(s).type /\ y.nlink = Loaded(s).nlink
    BY <1>1 DEF Record
  <1>3. Lock(s) = [icache EXCEPT ![s] = y]
    BY DEF Lock
  <1> HIDE DEF y
  <1>4. Lock(s) \in Caches /\ Lock(s)[s] = y /\ \A t \in Slot : t # s => Lock(s)[t] = icache[t]
    BY <1>1, <1>2, <1>3 DEF Caches
  <1> QED BY <1>2, <1>4, LoadedFacts

LEMMA AddLinkFacts ==
  ASSUME NEW c \in Caches, NEW s \in Slot, NEW n \in Int, NEW d, d = AddLink(c, s, n)
  PROVE  /\ d \in Caches /\ d[s].busy = c[s].busy /\ d[s].inum = c[s].inum
         /\ d[s].ref = c[s].ref /\ d[s].valid = c[s].valid /\ d[s].type = c[s].type
         /\ d[s].nlink = c[s].nlink + n
         /\ \A t \in Slot : t # s => d[t] = c[t]
  <1> DEFINE y == [c[s] EXCEPT !.nlink = @ + n]
  <1>1. c[s] \in Record
    BY DEF Caches
  <1>2. /\ y \in Record /\ y.busy = c[s].busy /\ y.inum = c[s].inum /\ y.ref = c[s].ref
        /\ y.valid = c[s].valid /\ y.type = c[s].type /\ y.nlink = c[s].nlink + n
    BY <1>1 DEF Record
  <1>3. d = [c EXCEPT ![s] = y]
    BY DEF AddLink
  <1> HIDE DEF y
  <1> QED BY <1>2, <1>3 DEF Caches

LEMMA IupdateFacts ==
  ASSUME Typed, NEW c \in Caches, NEW s \in Slot, c[s].inum \in Inum, iupdate(c, s)
  PROVE  /\ dinode' \in [Inum -> [type : Types, nlink : Int]]
         /\ dinode'[c[s].inum].type = c[s].type /\ dinode'[c[s].inum].nlink = c[s].nlink
         /\ \A i \in Inum : i # c[s].inum => dinode'[i] = dinode[i]
  <1>1. c[s].type \in Types /\ c[s].nlink \in Int
    BY DEF Caches, Record
  <1> QED BY <1>1 DEF Typed, iupdate


(***************************************************************************)
(* What all steps but those of an iput that frees have in common: p changes *)
(* its own variables, and the slots that it refers to.                     *)
(***************************************************************************)
Settles(p, s) == Keeps(p, s) \/ Put1(p, s) \/ Put2(p, s)

RefsMove(p) == \A s \in Slot : icache'[s].ref = icache[s].ref - Mine(p, s) + Mine(p, s)'

SlotsStay == \A s \in Slot : icache[s].ref > 0 =>
  icache'[s].inum = icache[s].inum /\ (icache[s].valid => icache'[s].valid)

SlotsNew == \A s, t \in Slot : icache[s].ref = 0 /\ icache'[s].ref > 0 =>
  /\ icache'[s].inum \in Inum
  /\ icache'[t].ref > 0 /\ icache'[t].inum = icache'[s].inum => t = s

BusyMoves(p) == \A s \in Slot :
  /\ icache'[s].busy <=> Holds(p, s)' \/ (~Holds(p, s) /\ icache[s].busy)
  /\ Holds(p, s)' => Holds(p, s) \/ ~icache[s].busy

TypesStay == \A i \in Inum : dinode[i].type # "none" => dinode'[i].type = dinode[i].type

CopiedThen == \A s \in Slot : icache'[s].ref > 0 /\ icache'[s].valid =>
  Match(s)' \/ \E q \in Proc : DoneWith(q, s)

SettlesLocked(p) == \A s \in Slot : Settles(p, s)' =>
  \/ Settles(p, s)
  \/ /\ Holds(p, s) \/ ~icache[s].busy
     /\ dinode'[icache'[s].inum].type # "none"

ValidThen(p) == \A s \in Slot :
  (dp[p] = s \/ held[p] = s \/ (ip[p] = s /\ pc[p] \in IpLocked))' => icache'[s].valid

Ordinary(p) ==
  /\ Typed' /\ Placed(p)' /\ Others(p) /\ freeing[p] = "no" /\ freeing'[p] = "no"
  /\ RefsMove(p) /\ SlotsStay /\ SlotsNew /\ BusyMoves(p) /\ TypesStay /\ CopiedThen
  /\ SettlesLocked(p) /\ ValidThen(p)

\* Nothing of a process that does not move changes.
LEMMA OthersStay ==
  ASSUME NEW p, Others(p), NEW q \in Proc, q # p, NEW s
  PROVE  /\ Placed(q)' <=> Placed(q)
         /\ Keeps(q, s)' <=> Keeps(q, s)
         /\ Put1(q, s)' <=> Put1(q, s)
         /\ Put2(q, s)' <=> Put2(q, s)
         /\ Frees(q, s)' <=> Frees(q, s)
         /\ DoneWith(q, s)' <=> DoneWith(q, s)
         /\ Holds(q, s)' <=> Holds(q, s)
  <1>1. /\ cwd'[q] = cwd[q] /\ fd'[q] = fd[q] /\ ip'[q] = ip[q] /\ dp'[q] = dp[q]
        /\ held'[q] = held[q] /\ puts'[q] = puts[q] /\ freeing'[q] = freeing[q]
        /\ pc'[q] = pc[q] /\ call'[q] = call[q] /\ rest'[q] = rest[q]
    BY DEF Others
  <1>2. (Put1(q, s)' <=> Put1(q, s)) /\ (Put2(q, s)' <=> Put2(q, s))
    BY <1>1 DEF Put1, Put2
  <1>3. Placed(q)' <=> Placed(q)
    BY <1>1 DEF Placed, InPlace, PutsShort
  <1>4. Keeps(q, s)' <=> Keeps(q, s)
    BY <1>1 DEF Keeps
  <1>5. /\ Frees(q, s)' <=> Frees(q, s)
        /\ DoneWith(q, s)' <=> DoneWith(q, s)
    BY <1>1, <1>2 DEF Frees, DoneWith
  <1>6. Holds(q, s)' <=> Holds(q, s)
    BY <1>1, <1>5 DEF Holds
  <1> QED BY <1>2, <1>3, <1>4, <1>5, <1>6

\* A slot that somebody keeps, puts or holds is in use.
LEMMA HeldIsHad ==
  ASSUME NEW q, NEW s, Holds(q, s) \/ Settles(q, s) \/ Frees(q, s) \/ DoneWith(q, s)
  PROVE  Has(q, s)
  BY DEF Holds, Settles, Keeps, Frees, DoneWith, Has

LEMMA InUse ==
  ASSUME Counted, NEW q \in Proc, NEW s \in Slot, 
         Holds(q, s) \/ Settles(q, s) \/ Frees(q, s) \/ DoneWith(q, s)
  PROVE  icache[s].ref > 0
  BY HeldIsHad, Taken

LEMMA OrdinaryKeeps ==
  ASSUME CacheInv, NEW p \in Proc, Ordinary(p)
  PROVE  CacheInv'
  <1> USE DEF CacheInv, Ordinary
  <1>0. /\ \A s \in Slot : icache[s].ref \in Nat /\ icache'[s].ref \in Nat
    BY DEF Typed, Record
  <1>1. \A q \in Proc : Placed(q)'
    BY OthersStay
  <1>2. Counted'
    BY ReferencesMove DEF Counted, RefsMove
  <1>3. NumbersRight'
    <2>1. ASSUME NEW s \in Slot, icache'[s].ref > 0 PROVE icache'[s].inum \in Inum
      BY <1>0, <2>1 DEF NumbersRight, SlotsStay, SlotsNew
    <2>2. ASSUME NEW s \in Slot, NEW t \in Slot, icache'[s].ref > 0, icache'[t].ref > 0,
                 icache'[s].inum = icache'[t].inum
          PROVE  s = t
      <3>1. CASE icache[s].ref = 0
        BY <2>2, <3>1 DEF SlotsNew
      <3>2. CASE icache[t].ref = 0
        BY <2>2, <3>2 DEF SlotsNew
      <3>3. CASE icache[s].ref > 0 /\ icache[t].ref > 0
        BY <2>2, <3>3 DEF SlotsStay, NumbersRight
      <3> QED BY <1>0, <3>1, <3>2, <3>3
    <2> QED BY <2>1, <2>2 DEF NumbersRight
  <1>4. LocksRight'
    <2>1. ASSUME NEW s \in Slot PROVE icache'[s].busy <=> \E q \in Proc : Holds(q, s)'
      <3>1. CASE Holds(p, s)'
        BY <3>1 DEF BusyMoves
      <3>2. CASE ~Holds(p, s)'
        <4>1. icache'[s].busy <=> ~Holds(p, s) /\ icache[s].busy
          BY <3>2 DEF BusyMoves
        <4>2. ASSUME NEW q \in Proc, Holds(q, s)' PROVE icache'[s].busy
          <5>1. q # p /\ Holds(q, s)
            BY <3>2, <4>2, OthersStay
          <5> QED BY <4>1, <5>1 DEF LocksRight
        <4>3. ASSUME icache'[s].busy PROVE \E q \in Proc : Holds(q, s)'
          <5>1. PICK q \in Proc : Holds(q, s) /\ q # p
            BY <4>1, <4>3 DEF LocksRight
          <5> QED BY <5>1, OthersStay
        <4> QED BY <4>2, <4>3
      <3> QED BY <3>1, <3>2
    <2>2. ASSUME NEW q \in Proc, NEW s \in Slot, Holds(q, s)', Holds(p, s)', q # p PROVE FALSE
      <3>1. Holds(q, s) /\ icache[s].busy
        BY <2>2, OthersStay DEF LocksRight
      <3> QED BY <2>2, <3>1 DEF BusyMoves, LocksRight
    <2>3. ASSUME NEW q \in Proc, NEW r \in Proc, NEW s \in Slot, Holds(q, s)', Holds(r, s)'
          PROVE  q = r
      BY <2>2, <2>3, OthersStay DEF LocksRight
    <2> QED BY <2>1, <2>3 DEF LocksRight
  <1>5. FreedAlone'
    <2> SUFFICES ASSUME NEW q \in Proc, NEW r \in Proc, NEW s \in Slot, Frees(q, s)'
                 PROVE  /\ icache'[s].valid
                        /\ ~Keeps(r, s)' /\ ~Put2(r, s)' /\ (Put1(r, s)' => r = q)
      BY DEF FreedAlone
    <2>1. q # p /\ Frees(q, s) /\ Holds(q, s) /\ icache[s].busy
      <3>1. q # p
        BY DEF Frees
      <3> QED BY <3>1, OthersStay DEF Holds, LocksRight
    <2>2. icache'[s].valid
      BY <2>1, InUse DEF FreedAlone, SlotsStay
    <2>3. CASE r # p
      BY <2>1, <2>2, <2>3, OthersStay DEF FreedAlone
    <2>4. CASE r = p
      <3>1. ~Settles(p, s) /\ ~Holds(p, s)
        BY <2>1 DEF Settles, FreedAlone, LocksRight
      <3>2. ~Settles(p, s)'
        BY <2>1, <3>1 DEF SettlesLocked
      <3> QED BY <2>2, <2>4, <3>2 DEF Settles
    <2> QED BY <2>3, <2>4
  <1>6. Copied'
    <2>1. ASSUME NEW q \in Proc, NEW s, DoneWith(q, s) PROVE DoneWith(q, s)'
      <3>1. q # p
        BY <2>1 DEF DoneWith
      <3> QED BY <2>1, <3>1, OthersStay
    <2> QED BY <2>1 DEF Copied, CopiedThen
  <1>7. Settled'
    <2>1. ASSUME NEW q \in Proc, NEW s \in Slot, q # p,
                 (Keeps(q, s) \/ Put2(q, s) \/ (Put1(q, s) /\ freeing[q] # "done"))'
          PROVE  dinode'[icache'[s].inum].type # "none"
      <3>1. Keeps(q, s) \/ Put2(q, s) \/ (Put1(q, s) /\ freeing[q] # "done")
        BY <2>1, OthersStay DEF Others
      <3>2. dinode[icache[s].inum].type # "none" /\ icache[s].ref > 0
        BY <3>1, InUse DEF Settled, Settles
      <3> QED BY <3>2 DEF SlotsStay, TypesStay, NumbersRight
    <2>2. ASSUME NEW s \in Slot, Settles(p, s)'
          PROVE  dinode'[icache'[s].inum].type # "none"
      <3>1. CASE Settles(p, s)
        <4>1. dinode[icache[s].inum].type # "none" /\ icache[s].ref > 0
          BY <3>1, InUse DEF Settled, Settles
        <4> QED BY <4>1 DEF SlotsStay, TypesStay, NumbersRight
      <3> QED BY <2>2, <3>1 DEF SettlesLocked
    <2>3. ASSUME NEW q \in Proc, NEW s \in Slot, q # p,
                 (dp[q] = s \/ held[q] = s \/ (ip[q] = s /\ pc[q] \in IpLocked))'
          PROVE  icache'[s].valid
      <3>1. dp[q] = s \/ held[q] = s \/ (ip[q] = s /\ pc[q] \in IpLocked)
        BY <2>3 DEF Others
      <3>2. icache[s].valid /\ Has(q, s)
        BY <3>1 DEF Settled, Has
      <3>3. icache[s].ref > 0
        BY <3>2, Taken
      <3> QED BY <3>2, <3>3 DEF SlotsStay
    <2>4. ASSUME NEW s \in Slot,
                 (Keeps(p, s) \/ Put2(p, s) \/ (Put1(p, s) /\ freeing[p] # "done"))'
          PROVE  dinode'[icache'[s].inum].type # "none"
      BY <2>2, <2>4 DEF Settles
    <2>5. ASSUME NEW q \in Proc, NEW s \in Slot
          PROVE  /\ (Keeps(q, s) \/ Put2(q, s) \/ (Put1(q, s) /\ freeing[q] # "done"))' =>
                     dinode'[icache'[s].inum].type # "none"
                 /\ (dp[q] = s \/ held[q] = s \/ (ip[q] = s /\ pc[q] \in IpLocked))' =>
                     icache'[s].valid
      BY <2>1, <2>3, <2>4 DEF ValidThen
    <2> QED BY <2>5 DEF Settled
  <1> QED BY <1>1, <1>2, <1>3, <1>4, <1>5, <1>6, <1>7

(***************************************************************************)
(* The steps.                                                              *)
(***************************************************************************)
LEMMA TailFacts ==
  ASSUME NEW S, NEW q \in Seq(S), q # << >>
  PROVE  Tail(q) \in Seq(S) /\ (Len(q) # 1 => Tail(q) # << >>)
  <1>1. Tail(q) \in Seq(S) /\ Len(Tail(q)) = Len(q) - 1 /\ Len(q) \in Nat
    OBVIOUS
  <1>2. Len(q) # 1 => Len(Tail(q)) # 0
    BY <1>1
  <1> QED BY <1>1, <1>2

LEMMA PutsFacts ==
  ASSUME NEW p, NEW t
  PROVE  /\ puts[p] = << >> => ~Put1(p, t) /\ ~Put2(p, t)
         /\ \A s : puts[p] = << s >> => (Put1(p, t) <=> t = s) /\ ~Put2(p, t)
         /\ \A s, u : puts[p] = << s, u >> => (Put1(p, t) <=> t = s) /\ (Put2(p, t) <=> t = u)
  BY DEF Put1, Put2

LEMMA PutsFactsThen ==
  ASSUME NEW p, NEW t
  PROVE  /\ puts'[p] = << >> => ~Put1(p, t)' /\ ~Put2(p, t)'
         /\ \A s : puts'[p] = << s >> => (Put1(p, t)' <=> t = s) /\ ~Put2(p, t)'
         /\ \A s, u : puts'[p] = << s, u >> => (Put1(p, t)' <=> t = s) /\ (Put2(p, t)' <=> t = u)
  BY DEF Put1, Put2

LEMMA PutsShortThen ==
  ASSUME NEW p, freeing'[p] = "no",
         \/ puts'[p] = << >>
         \/ \E s \in Slot : puts'[p] = << s >>
         \/ \E s, u \in Slot : puts'[p] = << s, u >>
  PROVE  puts'[p] \in Seq(Slot) /\ PutsShort(p)'
  <1>1. puts'[p] \in Seq(Slot) /\ Len(puts'[p]) <= 2
    <2>1. CASE puts'[p] = << >>
      BY <2>1
    <2>2. CASE \E s \in Slot : puts'[p] = << s >>
      BY <2>2
    <2>3. CASE \E s, u \in Slot : puts'[p] = << s, u >>
      BY <2>3
    <2> QED BY <2>1, <2>2, <2>3
  <1> QED BY <1>1 DEF PutsShort

\* A process that is ready puts nothing and frees nothing.
LEMMA ReadyFacts ==
  ASSUME CacheInv, NEW p \in Proc, NEW l, Ready(p, l)
  PROVE  /\ puts[p] = << >> /\ pc[p] = l /\ freeing[p] = "no" /\ panic = "none"
         /\ \A t : ~Put1(p, t) /\ ~Put2(p, t) /\ ~Frees(p, t) /\ ~DoneWith(p, t)
  BY PutsFacts DEF CacheInv, Placed, PutsShort, Ready, Frees, DoneWith

\* What p can lock, or has locked, is being freed by nobody else.
LEMMA NotFreed ==
  ASSUME CacheInv, NEW p \in Proc, freeing[p] = "no", NEW s \in Slot,
         ~icache[s].busy \/ Holds(p, s)
  PROVE  \A q \in Proc : ~Frees(q, s) /\ ~DoneWith(q, s)
  BY DEF CacheInv, LocksRight, Holds, Frees, DoneWith

LEMMA LoadedMatches ==
  ASSUME CacheInv, NEW s \in Slot, icache[s].ref > 0,
         \A q \in Proc : ~DoneWith(q, s), Loaded(s).type # "none"
  PROVE  /\ icache[s].inum \in Inum
         /\ dinode[icache[s].inum].type = Loaded(s).type
         /\ dinode[icache[s].inum].nlink = Loaded(s).nlink
  BY LoadedFacts DEF CacheInv, NumbersRight, Copied, Match

\* The tables of one process change.
LEMMA CopiedAfterUse ==
  ASSUME CacheInv, dinode' = dinode, NEW s \in Slot, icache[s].ref > 0,
         \A q \in Proc : ~DoneWith(q, s), Loaded(s).type # "none",
         icache'[s].inum = icache[s].inum, icache'[s].type = Loaded(s).type,
         icache'[s].nlink = Loaded(s).nlink,
         \A t \in Slot : t # s /\ icache'[t].ref > 0 /\ icache'[t].valid =>
           /\ icache[t].ref > 0 /\ icache[t].valid /\ icache'[t].inum = icache[t].inum
           /\ icache'[t].type = icache[t].type /\ icache'[t].nlink = icache[t].nlink
  PROVE  CopiedThen
  <1>1. Match(s)'
    BY LoadedMatches DEF Match
  <1>2. ASSUME NEW t \in Slot, t # s, icache'[t].ref > 0, icache'[t].valid
        PROVE  Match(t)' \/ \E q \in Proc : DoneWith(q, t)
    BY <1>2 DEF CacheInv, Copied, Match
  <1> QED BY <1>1, <1>2 DEF CopiedThen

LEMMA RefsStay ==
  ASSUME CacheInv, NEW p, \A t \in Slot : Mine(p, t)' = Mine(p, t),
         \A t \in Slot : icache'[t].ref = icache[t].ref
  PROVE  RefsMove(p)
  <1>1. \A t \in Slot : Mine(p, t) \in Nat /\ icache[t].ref \in Nat
    BY MineNat DEF CacheInv, Typed, Record
  <1> QED BY <1>1 DEF RefsMove

LEMMA RefsGet ==
  ASSUME CacheInv, NEW p, NEW s,
         \A t \in Slot : Mine(p, t)' = Mine(p, t) + Is(t = s),
         \A t \in Slot : icache'[t].ref = icache[t].ref + Is(t = s)
  PROVE  RefsMove(p)
  <1>1. \A t \in Slot : Mine(p, t) \in Nat /\ icache[t].ref \in Nat /\ Is(t = s) \in Nat
    BY MineNat DEF CacheInv, Typed, Record, Is
  <1> QED BY <1>1 DEF RefsMove

\* The variables of p, and of nobody else, change.
Moves(p) ==
  /\ cwd' = [cwd EXCEPT ![p] = cwd'[p]] /\ fd' = [fd EXCEPT ![p] = fd'[p]]
  /\ pc' = [pc EXCEPT ![p] = pc'[p]] /\ call' = [call EXCEPT ![p] = call'[p]]
  /\ rest' = [rest EXCEPT ![p] = rest'[p]] /\ ip' = [ip EXCEPT ![p] = ip'[p]]
  /\ dp' = [dp EXCEPT ![p] = dp'[p]] /\ held' = [held EXCEPT ![p] = held'[p]]
  /\ puts' = [puts EXCEPT ![p] = puts'[p]] /\ freeing' = [freeing EXCEPT ![p] = freeing'[p]]

LocalsTyped(p) ==
  /\ cwd[p] \in Slot /\ fd[p] \in Slot \cup {NoSlot} /\ pc[p] \in Labels
  /\ call[p] \in Calls \cup {NoCall} /\ rest[p] \in Seq(Names)
  /\ ip[p] \in Slot \cup {NoSlot} /\ dp[p] \in Slot \cup {NoSlot}
  /\ held[p] \in Slot \cup {NoSlot} /\ puts[p] \in Seq(Slot)
  /\ freeing[p] \in {"no", "itrunc", "done"}

DiskTyped ==
  /\ dinode \in [Inum -> [type : Types, nlink : Int]]
  /\ dir \in [Inum -> [Names -> Inum \cup {None}]]

LEMMA TypedFacts ==
  ASSUME Typed
  PROVE  DiskTyped /\ icache \in Caches /\ lost \subseteq Inum /\ \A p \in Proc : LocalsTyped(p)
  BY DEF Typed, DiskTyped, LocalsTyped, Caches

LEMMA MovesFacts ==
  ASSUME Typed, NEW p \in Proc, Moves(p)
  PROVE  /\ Others(p)
         /\ LocalsTyped(p)' /\ DiskTyped' /\ icache' \in Caches /\ lost' \subseteq Inum => Typed'
  <1>1. Others(p)
    BY DEF Others, Moves, Typed
  <1>3. /\ cwd'[p] \in Slot => cwd' \in [Proc -> Slot]
        /\ fd'[p] \in Slot \cup {NoSlot} => fd' \in [Proc -> Slot \cup {NoSlot}]
        /\ pc'[p] \in Labels => pc' \in [Proc -> Labels]
        /\ call'[p] \in Calls \cup {NoCall} => call' \in [Proc -> Calls \cup {NoCall}]
        /\ rest'[p] \in Seq(Names) => rest' \in [Proc -> Seq(Names)]
    BY DEF Moves, Typed
  <1>4. /\ ip'[p] \in Slot \cup {NoSlot} => ip' \in [Proc -> Slot \cup {NoSlot}]
        /\ dp'[p] \in Slot \cup {NoSlot} => dp' \in [Proc -> Slot \cup {NoSlot}]
        /\ held'[p] \in Slot \cup {NoSlot} => held' \in [Proc -> Slot \cup {NoSlot}]
        /\ puts'[p] \in Seq(Slot) => puts' \in [Proc -> Seq(Slot)]
        /\ freeing'[p] \in {"no", "itrunc", "done"} =>
             freeing' \in [Proc -> {"no", "itrunc", "done"}]
    BY DEF Moves, Typed
  <1> QED BY <1>1, <1>3, <1>4 DEF Typed, LocalsTyped, DiskTyped, Caches

\* A step of p makes cache c of icache, and may take one more reference then.
Kept(c) == \A t \in Slot :
  /\ c[t].ref = icache[t].ref /\ c[t].inum = icache[t].inum
  /\ icache[t].valid => c[t].valid
  /\ c[t].ref = 0 => ~c[t].busy

Right(c) == \A t \in Slot : c[t].ref > 0 /\ c[t].valid =>
  \/ LET d == dinode'[c[t].inum] IN
       d.type = c[t].type /\ d.nlink = c[t].nlink /\ d.type # "none"
  \/ \E q \in Proc : DoneWith(q, t)

BusyTo(p, c) == \A t \in Slot :
  /\ c[t].busy <=> Holds(p, t)' \/ (~Holds(p, t) /\ icache[t].busy)
  /\ Holds(p, t)' => Holds(p, t) \/ ~icache[t].busy

SettledTo(p) == \A t \in Slot : Settles(p, t)' =>
  \/ Settles(p, t)
  \/ /\ Has(p, t) /\ (Holds(p, t) \/ ~icache[t].busy)
     /\ dinode'[icache[t].inum].type # "none"

ValidTo(p, c) == \A t \in Slot :
  (dp[p] = t \/ held[p] = t \/ (ip[p] = t /\ pc[p] \in IpLocked))' =>
    c[t].valid /\ c[t].ref > 0

StepTo(p, c) ==
  /\ Moves(p) /\ LocalsTyped(p)' /\ DiskTyped' /\ lost' \subseteq Inum /\ Placed(p)'
  /\ freeing[p] = "no" /\ freeing'[p] = "no"
  /\ c \in Caches /\ Kept(c) /\ Right(c) /\ TypesStay
  /\ BusyTo(p, c) /\ SettledTo(p) /\ ValidTo(p, c)

LEMMA SettledByLock ==
  ASSUME NEW p, NEW s \in Slot, Has(p, s), Holds(p, s) \/ ~icache[s].busy,
         dinode'[icache[s].inum].type # "none",
         \A t \in Slot : t # s /\ Settles(p, t)' => Settles(p, t)
  PROVE  SettledTo(p)
  <1>1. ASSUME NEW t \in Slot, Settles(p, t)'
        PROVE  \/ Settles(p, t)
               \/ /\ Has(p, t) /\ (Holds(p, t) \/ ~icache[t].busy)
                  /\ dinode'[icache[t].inum].type # "none"
    <2>1. CASE t = s
      BY <2>1
    <2>2. CASE t # s
      BY <1>1, <2>2
    <2> QED BY <2>1, <2>2
  <1> QED BY <1>1 DEF SettledTo

LEMMA ValidBefore ==
  ASSUME CacheInv, NEW p \in Proc, NEW t \in Slot,
         dp[p] = t \/ held[p] = t \/ (ip[p] = t /\ pc[p] \in IpLocked)
  PROVE  icache[t].valid /\ icache[t].ref > 0
  <1>1. Has(p, t)
    BY DEF Has
  <1>2. icache[t].ref > 0
    BY <1>1, Taken DEF CacheInv
  <1> QED BY <1>2 DEF CacheInv, Settled

LEMMA StayStep ==
  ASSUME CacheInv, NEW p \in Proc, StepTo(p, icache'), \A t \in Slot : Mine(p, t)' = Mine(p, t)
  PROVE  Ordinary(p)
  <1> USE DEF StepTo
  <1>1. Others(p) /\ Typed'
    BY MovesFacts DEF CacheInv
  <1>2. RefsMove(p)
    BY RefsStay DEF Kept
  <1>3. SlotsStay /\ SlotsNew
    BY DEF SlotsStay, SlotsNew, Kept
  <1>4. BusyMoves(p) /\ ValidThen(p)
    BY DEF BusyTo, BusyMoves, ValidTo, ValidThen
  <1>5. CopiedThen
    BY DEF CopiedThen, Right, Match
  <1>6. SettlesLocked(p)
    BY DEF SettledTo, SettlesLocked, Kept
  <1> QED BY <1>1, <1>2, <1>3, <1>4, <1>5, <1>6 DEF Ordinary

\* One more reference to a slot in use, or to one that is new.
LEMMA GetStep ==
  ASSUME CacheInv, NEW p \in Proc, NEW c, StepTo(p, c), NEW s \in Slot,
         \A t \in Slot : Mine(p, t)' = Mine(p, t) + Is(t = s),
         icache' \in Caches, \A t \in Slot : t # s => icache'[t] = c[t],
         icache'[s].ref = c[s].ref + 1,
         \/ /\ c[s].ref > 0
            /\ icache'[s].inum = c[s].inum /\ icache'[s].busy = c[s].busy
            /\ icache'[s].valid = c[s].valid /\ icache'[s].type = c[s].type
            /\ icache'[s].nlink = c[s].nlink
         \/ /\ c[s].ref = 0 /\ ~icache'[s].busy /\ ~icache'[s].valid
            /\ icache'[s].inum \in Inum
            /\ \A t \in Slot : ~(c[t].ref > 0 /\ c[t].inum = icache'[s].inum)
  PROVE  Ordinary(p)
  <1> USE DEF StepTo
  <1>1. Others(p) /\ Typed'
    BY MovesFacts DEF CacheInv
  <1>2. RefsMove(p)
    <2>1. \A t \in Slot : icache[t].ref \in Nat
      BY DEF CacheInv, Typed, Record
    <2>2. \A t \in Slot : icache'[t].ref = icache[t].ref + Is(t = s)
      BY <2>1 DEF Kept, Is
    <2> QED BY <2>2, RefsGet
  <1>3. SlotsStay /\ SlotsNew
    BY DEF SlotsStay, SlotsNew, Kept
  <1>4. BusyMoves(p)
    BY DEF BusyTo, BusyMoves, Kept
  <1>5. ASSUME NEW t \in Slot,
               (dp[p] = t \/ held[p] = t \/ (ip[p] = t /\ pc[p] \in IpLocked))'
        PROVE  icache'[t].valid
    BY <1>5 DEF ValidTo
  <1>6. CopiedThen
    BY DEF CopiedThen, Right, Match
  <1>7. SettlesLocked(p)
    <2>1. ASSUME NEW t \in Slot, Has(p, t) PROVE icache'[t].inum = icache[t].inum
      <3>1. icache[t].ref > 0
        BY <2>1, Taken DEF CacheInv
      <3> QED BY <3>1, <1>3 DEF SlotsStay
    <2> QED BY <2>1 DEF SettledTo, SettlesLocked
  <1> QED BY <1>1, <1>2, <1>3, <1>4, <1>5, <1>6, <1>7 DEF Ordinary, ValidThen

LEMMA IgetStep ==
  ASSUME CacheInv, NEW p \in Proc, NEW c, StepTo(p, c), NEW i \in Inum,
         IgetSlot(c, i) # NoSlot, icache' = iget(c, i),
         \A t \in Slot : Mine(p, t)' = Mine(p, t) + Is(t = IgetSlot(c, i))
  PROVE  Ordinary(p)
  <1> DEFINE s == IgetSlot(c, i)
  <1>1. c \in Caches
    BY DEF StepTo
  <1>2. /\ s \in Slot /\ icache' \in Caches
        /\ \A t \in Slot : t # s => icache'[t] = c[t]
        /\ icache'[s].inum = i /\ icache'[s].ref = c[s].ref + 1
        /\ \/ /\ c[s].ref > 0 /\ c[s].inum = i
              /\ icache'[s].busy = c[s].busy /\ icache'[s].valid = c[s].valid
              /\ icache'[s].type = c[s].type /\ icache'[s].nlink = c[s].nlink
           \/ /\ c[s].ref = 0 /\ ~icache'[s].busy /\ ~icache'[s].valid
              /\ \A t \in Slot : ~(c[t].ref > 0 /\ c[t].inum = i)
    BY <1>1, IgetFacts
  <1>3. \A t \in Slot : Mine(p, t)' = Mine(p, t) + Is(t = s)
    OBVIOUS
  <1> HIDE DEF s
  <1> QED BY <1>2, <1>3, GetStep

LEMMA IdupStep ==
  ASSUME CacheInv, NEW p \in Proc, NEW c, StepTo(p, c), NEW s \in Slot,
         Has(p, s), icache' = [c EXCEPT ![s].ref = @ + 1],
         \A t \in Slot : Mine(p, t)' = Mine(p, t) + Is(t = s)
  PROVE  Ordinary(p)
  <1>1. c \in Caches /\ c[s].ref > 0 /\ c[s].ref \in Nat
    BY Taken DEF StepTo, CacheInv, Kept
  <1> DEFINE y == [c[s] EXCEPT !.ref = @ + 1]
  <1>2. c[s] \in Record
    BY <1>1 DEF Caches
  <1>3. /\ y \in Record /\ y.ref = c[s].ref + 1 /\ y.inum = c[s].inum /\ y.busy = c[s].busy
        /\ y.valid = c[s].valid /\ y.type = c[s].type /\ y.nlink = c[s].nlink
    BY <1>2 DEF Record
  <1>4. icache' = [c EXCEPT ![s] = y]
    OBVIOUS
  <1> HIDE DEF y
  <1>5. icache' \in Caches /\ icache'[s] = y /\ \A t \in Slot : t # s => icache'[t] = c[t]
    BY <1>1, <1>3, <1>4 DEF Caches
  <1> QED BY <1>1, <1>3, <1>5, GetStep

(***************************************************************************)
(* What the operations of the cache make, as steps.                        *)
(***************************************************************************)
LEMMA KeptNow ==
  ASSUME CacheInv
  PROVE  icache \in Caches /\ Kept(icache)
  <1>1. ASSUME NEW t \in Slot, icache[t].ref = 0, icache[t].busy PROVE FALSE
    BY <1>1, InUse DEF CacheInv, LocksRight
  <1>2. Kept(icache)
    BY <1>1 DEF Kept
  <1> QED BY <1>2 DEF CacheInv, Typed, Caches

LEMMA SameTo ==
  ASSUME CacheInv, UNCHANGED dinode
  PROVE  icache \in Caches /\ Kept(icache) /\ Right(icache) /\ TypesStay
  <1>1. ASSUME NEW t \in Slot, icache[t].ref = 0, icache[t].busy PROVE FALSE
    BY <1>1, InUse DEF CacheInv, LocksRight
  <1>2. Kept(icache)
    BY <1>1 DEF Kept
  <1> QED BY <1>2 DEF CacheInv, Typed, Caches, Right, Copied, Match, TypesStay

LEMMA UseTo ==
  ASSUME CacheInv, NEW p \in Proc, freeing[p] = "no", NEW s \in Slot, Has(p, s),
         ~icache[s].busy, Use(s)[s].type # "none"
  PROVE  /\ Use(s) \in Caches /\ Kept(Use(s)) /\ (UNCHANGED dinode => Right(Use(s)) /\ TypesStay)
         /\ Use(s)[s].valid /\ icache[s].ref > 0 /\ icache[s].inum \in Inum
         /\ \A t \in Slot : Use(s)[t].busy = icache[t].busy
         /\ \A t \in Slot : t # s => Use(s)[t] = icache[t]
         /\ dinode[icache[s].inum].type = Use(s)[s].type
         /\ dinode[icache[s].inum].nlink = Use(s)[s].nlink
  <1>1. /\ icache[s].ref > 0 /\ icache[s].inum \in Inum
        /\ \A q \in Proc : ~DoneWith(q, s)
    BY Taken, NotFreed DEF CacheInv, NumbersRight
  <1>2. /\ Use(s) \in Caches /\ Use(s)[s] = Loaded(s)
        /\ \A t \in Slot : t # s => Use(s)[t] = icache[t]
    BY <1>1, UseFacts DEF CacheInv
  <1>3. /\ Loaded(s).valid /\ Loaded(s).inum = icache[s].inum
        /\ Loaded(s).ref = icache[s].ref /\ Loaded(s).busy = icache[s].busy
    BY <1>1, LoadedFacts DEF CacheInv
  <1>4. /\ dinode[icache[s].inum].type = Loaded(s).type
        /\ dinode[icache[s].inum].nlink = Loaded(s).nlink
    BY <1>1, <1>2, LoadedMatches
  <1>5. ASSUME NEW t \in Slot, icache[t].ref = 0 PROVE ~icache[t].busy
    BY <1>5, InUse DEF CacheInv, LocksRight
  <1>6. Kept(Use(s))
    BY <1>1, <1>2, <1>3, <1>5 DEF Kept
  <1>7. UNCHANGED dinode => Right(Use(s)) /\ TypesStay
    BY <1>1, <1>2, <1>3, <1>4, SameTo DEF Right
  <1> QED BY <1>1, <1>2, <1>3, <1>4, <1>6, <1>7

LEMMA LockTo ==
  ASSUME CacheInv, NEW p \in Proc, freeing[p] = "no", NEW s \in Slot, Has(p, s),
         ~icache[s].busy, Lock(s)[s].type # "none"
  PROVE  /\ Lock(s) \in Caches /\ Kept(Lock(s))
         /\ UNCHANGED dinode => Right(Lock(s)) /\ TypesStay
         /\ Lock(s)[s].valid /\ icache[s].ref > 0 /\ icache[s].inum \in Inum
         /\ \A t \in Slot : Lock(s)[t].busy <=> t = s \/ icache[t].busy
         /\ \A t \in Slot : t # s => Lock(s)[t] = icache[t]
         /\ dinode[icache[s].inum].type = Lock(s)[s].type
         /\ dinode[icache[s].inum].nlink = Lock(s)[s].nlink
  <1>1. /\ icache[s].ref > 0 /\ icache[s].inum \in Inum
        /\ \A q \in Proc : ~DoneWith(q, s)
    BY Taken, NotFreed DEF CacheInv, NumbersRight
  <1>2. /\ Lock(s) \in Caches /\ Lock(s)[s].busy /\ Lock(s)[s].valid
        /\ Lock(s)[s].inum = icache[s].inum /\ Lock(s)[s].ref = icache[s].ref
        /\ Lock(s)[s].type = Loaded(s).type /\ Lock(s)[s].nlink = Loaded(s).nlink
        /\ \A t \in Slot : t # s => Lock(s)[t] = icache[t]
    BY <1>1, LockFacts DEF CacheInv
  <1>3. /\ dinode[icache[s].inum].type = Loaded(s).type
        /\ dinode[icache[s].inum].nlink = Loaded(s).nlink
    BY <1>1, <1>2, LoadedMatches
  <1>4. ASSUME NEW t \in Slot, icache[t].ref = 0 PROVE ~icache[t].busy
    BY <1>4, InUse DEF CacheInv, LocksRight
  <1>5. Kept(Lock(s))
    BY <1>1, <1>2, <1>4 DEF Kept
  <1>6. UNCHANGED dinode => Right(Lock(s)) /\ TypesStay
    BY <1>1, <1>2, <1>3, SameTo DEF Right
  <1> QED BY <1>1, <1>2, <1>3, <1>5, <1>6

\* iupdate of an inode of the same type.
LEMMA IupdateTo ==
  ASSUME CacheInv, NEW c \in Caches, NEW s \in Slot, Kept(c), c[s].ref > 0, iupdate(c, s),
         c[s].type # "none", c[s].type = dinode[icache[s].inum].type,
         \A t \in Slot : t # s => c[t].valid = icache[t].valid /\ c[t].type = icache[t].type
                                  /\ c[t].nlink = icache[t].nlink
  PROVE  /\ Right(c) /\ TypesStay
         /\ dinode' \in [Inum -> [type : Types, nlink : Int]]
         /\ dinode'[icache[s].inum].type = c[s].type
         /\ \A i \in Inum : dinode'[i].type = dinode[i].type
  <1>1. icache[s].inum \in Inum /\ c[s].inum = icache[s].inum /\ icache[s].ref > 0
    BY DEF CacheInv, NumbersRight, Kept
  <1>2. /\ dinode' \in [Inum -> [type : Types, nlink : Int]]
        /\ dinode'[icache[s].inum].type = c[s].type /\ dinode'[icache[s].inum].nlink = c[s].nlink
        /\ \A i \in Inum : i # icache[s].inum => dinode'[i] = dinode[i]
    BY <1>1, IupdateFacts DEF CacheInv
  <1>3. ASSUME NEW t \in Slot, c[t].ref > 0, c[t].valid, t # s
        PROVE  \/ LET d == dinode'[c[t].inum] IN
                    d.type = c[t].type /\ d.nlink = c[t].nlink /\ d.type # "none"
               \/ \E q \in Proc : DoneWith(q, t)
    <2>1. icache[t].ref > 0 /\ icache[t].valid /\ c[t].inum = icache[t].inum
      BY <1>3 DEF Kept
    <2>2. icache[t].inum \in Inum /\ icache[t].inum # icache[s].inum
      BY <1>1, <1>3, <2>1 DEF CacheInv, NumbersRight
    <2> QED BY <1>2, <1>3, <2>1, <2>2 DEF CacheInv, Copied, Match
  <1>4. Right(c)
    BY <1>1, <1>2, <1>3 DEF Right
  <1> QED BY <1>1, <1>2, <1>4 DEF TypesStay

\* What p has locked, or can lock, is valid and as on the disk.
LEMMA LockedMatches ==
  ASSUME CacheInv, NEW p \in Proc, freeing[p] = "no", NEW s \in Slot, Has(p, s),
         icache[s].valid, ~icache[s].busy \/ Holds(p, s)
  PROVE  /\ icache[s].ref > 0 /\ icache[s].inum \in Inum /\ icache[s].type # "none"
         /\ dinode[icache[s].inum].type = icache[s].type
         /\ dinode[icache[s].inum].nlink = icache[s].nlink
  <1>1. /\ icache[s].ref > 0 /\ icache[s].inum \in Inum
        /\ \A q \in Proc : ~DoneWith(q, s)
    BY Taken, NotFreed DEF CacheInv, NumbersRight
  <1> QED BY <1>1 DEF CacheInv, Copied, Match


LEMMA UnlockTo ==
  ASSUME CacheInv, NEW s \in Slot
  PROVE  /\ Unlock(s) \in Caches /\ Kept(Unlock(s))
         /\ UNCHANGED dinode => Right(Unlock(s)) /\ TypesStay
         /\ \A t \in Slot : /\ Unlock(s)[t].busy <=> t # s /\ icache[t].busy
                            /\ Unlock(s)[t].inum = icache[t].inum
                            /\ Unlock(s)[t].ref = icache[t].ref
                            /\ Unlock(s)[t].valid = icache[t].valid
                            /\ Unlock(s)[t].type = icache[t].type
                            /\ Unlock(s)[t].nlink = icache[t].nlink
  <1>1. icache \in Caches /\ Kept(icache)
    BY KeptNow
  <1> DEFINE y == [icache[s] EXCEPT !.busy = FALSE]
  <1>2. icache[s] \in Record
    BY <1>1 DEF Caches
  <1>3. /\ y \in Record /\ y.busy = FALSE /\ y.inum = icache[s].inum /\ y.ref = icache[s].ref
        /\ y.valid = icache[s].valid /\ y.type = icache[s].type /\ y.nlink = icache[s].nlink
    BY <1>2 DEF Record
  <1>4. Unlock(s) = [icache EXCEPT ![s] = y]
    BY DEF Unlock
  <1> HIDE DEF y
  <1>5. Unlock(s) \in Caches /\ Unlock(s)[s] = y /\ \A t \in Slot : t # s => Unlock(s)[t] = icache[t]
    BY <1>1, <1>3, <1>4 DEF Caches
  <1>6. Kept(Unlock(s))
    BY <1>1, <1>3, <1>5 DEF Kept
  <1>7. UNCHANGED dinode => Right(Unlock(s)) /\ TypesStay
    BY <1>3, <1>5, SameTo DEF Right
  <1> QED BY <1>3, <1>5, <1>6, <1>7

\* A slot of a cache that is not icache yet is unlocked.
Unlocked(c, s) == [c EXCEPT ![s].busy = FALSE]

LEMMA UnlockedTo ==
  ASSUME NEW c \in Caches, Kept(c), NEW s \in Slot
  PROVE  /\ Unlocked(c, s) \in Caches /\ Kept(Unlocked(c, s))
         /\ Right(c) => Right(Unlocked(c, s))
         /\ \A t \in Slot : /\ Unlocked(c, s)[t].busy <=> t # s /\ c[t].busy
                            /\ Unlocked(c, s)[t].valid = c[t].valid
  <1> DEFINE d == Unlocked(c, s)
             y == [c[s] EXCEPT !.busy = FALSE]
  <1>1. c[s] \in Record
    BY DEF Caches
  <1>2. /\ y \in Record /\ y.busy = FALSE /\ y.inum = c[s].inum /\ y.ref = c[s].ref
        /\ y.valid = c[s].valid /\ y.type = c[s].type /\ y.nlink = c[s].nlink
    BY <1>1 DEF Record
  <1>3. d = [c EXCEPT ![s] = y]
    BY DEF Unlocked
  <1>7. d = Unlocked(c, s)
    OBVIOUS
  <1> HIDE DEF y, d
  <1>4. d \in Caches /\ d[s] = y /\ \A t \in Slot : t # s => d[t] = c[t]
    BY <1>2, <1>3 DEF Caches
  <1>5. Kept(d)
    BY <1>2, <1>4 DEF Kept
  <1>6. Right(c) => Right(d)
    BY <1>2, <1>4 DEF Right
  <1> QED BY <1>2, <1>4, <1>5, <1>6, <1>7

\* The count of links changes, in the cache and on the disk.
LEMMA AddLinkTo ==
  ASSUME CacheInv, NEW b \in Caches, Kept(b), NEW s \in Slot, NEW n \in Int,
         NEW c, c = AddLink(b, s, n), iupdate(c, s), icache[s].ref > 0,
         b[s].type # "none", b[s].type = dinode[icache[s].inum].type,
         \A t \in Slot : t # s => b[t].valid = icache[t].valid /\ b[t].type = icache[t].type
                                  /\ b[t].nlink = icache[t].nlink
  PROVE  /\ c \in Caches /\ Kept(c) /\ Right(c) /\ TypesStay
         /\ \A t \in Slot : c[t].busy = b[t].busy /\ c[t].valid = b[t].valid
         /\ dinode' \in [Inum -> [type : Types, nlink : Int]]
         /\ dinode'[icache[s].inum].type # "none"
  <1>1. /\ c \in Caches /\ c[s].busy = b[s].busy /\ c[s].inum = b[s].inum
        /\ c[s].ref = b[s].ref /\ c[s].valid = b[s].valid /\ c[s].type = b[s].type
        /\ \A t \in Slot : t # s => c[t] = b[t]
    BY AddLinkFacts
  <1>2. Kept(c)
    BY <1>1 DEF Kept
  <1>3. c[s].ref > 0
    BY <1>2 DEF Kept
  <1>4. c[s].type # "none" /\ c[s].type = dinode[icache[s].inum].type
    BY <1>1
  <1>5. \A t \in Slot : t # s => c[t].valid = icache[t].valid /\ c[t].type = icache[t].type
                                 /\ c[t].nlink = icache[t].nlink
    BY <1>1
  <1>6. /\ Right(c) /\ TypesStay
        /\ dinode' \in [Inum -> [type : Types, nlink : Int]]
        /\ dinode'[icache[s].inum].type = c[s].type
    BY <1>1, <1>2, <1>3, <1>4, <1>5, IupdateTo
  <1> QED BY <1>1, <1>2, <1>4, <1>6

\* create gives a new inode one link.
SetLink(c, s) == [c EXCEPT ![s].nlink = 1]

LEMMA SetLinkFacts ==
  ASSUME NEW b \in Caches, NEW s \in Slot, NEW c, c = SetLink(b, s)
  PROVE  /\ c \in Caches /\ c[s].busy = b[s].busy /\ c[s].inum = b[s].inum
         /\ c[s].ref = b[s].ref /\ c[s].valid = b[s].valid /\ c[s].type = b[s].type
         /\ c[s].nlink = 1 /\ \A t \in Slot : t # s => c[t] = b[t]
  <1> DEFINE y == [b[s] EXCEPT !.nlink = 1]
  <1>1. b[s] \in Record
    BY DEF Caches
  <1>2. /\ y \in Record /\ y.busy = b[s].busy /\ y.inum = b[s].inum /\ y.ref = b[s].ref
        /\ y.valid = b[s].valid /\ y.type = b[s].type /\ y.nlink = 1
    BY <1>1 DEF Record
  <1>3. c = [b EXCEPT ![s] = y]
    BY DEF SetLink
  <1> HIDE DEF y
  <1> QED BY <1>2, <1>3 DEF Caches

LEMMA SetLinkTo ==
  ASSUME CacheInv, NEW b \in Caches, Kept(b), NEW s \in Slot,
         NEW c, c = SetLink(b, s), iupdate(c, s), icache[s].ref > 0,
         b[s].type # "none", b[s].type = dinode[icache[s].inum].type,
         \A t \in Slot : t # s => b[t].valid = icache[t].valid /\ b[t].type = icache[t].type
                                  /\ b[t].nlink = icache[t].nlink
  PROVE  /\ c \in Caches /\ Kept(c) /\ Right(c) /\ TypesStay
         /\ \A t \in Slot : c[t].busy = b[t].busy /\ c[t].valid = b[t].valid
         /\ dinode' \in [Inum -> [type : Types, nlink : Int]]
         /\ dinode'[icache[s].inum].type # "none"
  <1>1. /\ c \in Caches /\ c[s].busy = b[s].busy /\ c[s].inum = b[s].inum
        /\ c[s].ref = b[s].ref /\ c[s].valid = b[s].valid /\ c[s].type = b[s].type
        /\ \A t \in Slot : t # s => c[t] = b[t]
    BY SetLinkFacts
  <1>2. Kept(c)
    BY <1>1 DEF Kept
  <1>3. c[s].ref > 0
    BY <1>2 DEF Kept
  <1>4. c[s].type # "none" /\ c[s].type = dinode[icache[s].inum].type
    BY <1>1
  <1>5. \A t \in Slot : t # s => c[t].valid = icache[t].valid /\ c[t].type = icache[t].type
                                 /\ c[t].nlink = icache[t].nlink
    BY <1>1
  <1>6. /\ Right(c) /\ TypesStay
        /\ dinode' \in [Inum -> [type : Types, nlink : Int]]
        /\ dinode'[icache[s].inum].type = c[s].type
    BY <1>1, <1>2, <1>3, <1>4, <1>5, IupdateTo
  <1> QED BY <1>1, <1>2, <1>4, <1>6

LEMMA LastFacts ==
  ASSUME NEW S, NEW q \in Seq(S), q # << >>
  PROVE  Last(q) \in S
  BY DEF Last

\* The parent has been loaded when it was arrived at.
LEMMA ParentLoads ==
  ASSUME CacheInv, NEW p \in Proc, freeing[p] = "no", NEW s \in Slot, s = dp[p],
         ~icache[s].busy
  PROVE  Use(s)[s].type # "none" /\ Lock(s)[s].type # "none"
  <1>1. icache[s].valid /\ Has(p, s)
    BY ValidBefore DEF Has
  <1>2. icache[s].inum \in Inum /\ icache[s].type # "none"
    BY <1>1, LockedMatches
  <1> QED BY <1>1, <1>2, UseFacts, LockFacts, LoadedFacts DEF CacheInv
LEMMA CloseOrdinary == ASSUME CacheInv, NEW p \in Proc, Close(p) PROVE Ordinary(p)
  <1>1. /\ puts[p] = << >> /\ pc[p] = "user" /\ freeing[p] = "no"
        /\ \A t : ~Put1(p, t) /\ ~Put2(p, t) /\ ~Frees(p, t)
    BY ReadyFacts DEF Close
  <1>2. /\ Typed /\ Placed(p) /\ LocalsTyped(p) /\ DiskTyped /\ lost \subseteq Inum
    BY TypedFacts DEF CacheInv
  <1>3. /\ UNCHANGED << dinode, dir, icache, cwd, pc, call, rest, ip, dp, held, freeing, lost >>
        /\ fd[p] \in Slot /\ puts'[p] = << fd[p] >> /\ fd'[p] = NoSlot /\ Moves(p)
    BY <1>2 DEF Typed, Close, Put, locals, disk, ghosts, Moves
  <1>4. puts'[p] \in Seq(Slot) /\ PutsShort(p)'
    BY <1>1, <1>3, PutsShortThen
  <1>5. LocalsTyped(p)' /\ DiskTyped' /\ lost' \subseteq Inum /\ Placed(p)'
    <2>1. LocalsTyped(p)' /\ DiskTyped' /\ lost' \subseteq Inum
      BY <1>2, <1>3, <1>4 DEF LocalsTyped, DiskTyped
    <2>2. InPlace(p)'
      BY <1>1, <1>2, <1>3 DEF Placed, InPlace
    <2> QED BY <1>4, <2>1, <2>2 DEF Placed
  <1>6. ASSUME NEW t \in Slot
        PROVE  (Put1(p, t)' <=> t = fd[p]) /\ ~Put2(p, t)' /\ ~Frees(p, t)'
    BY <1>1, <1>3, PutsFactsThen DEF Frees
  <1>7. icache' \in Caches /\ Kept(icache') /\ Right(icache') /\ TypesStay
    BY <1>3, SameTo
  <1>8. BusyTo(p, icache')
    BY <1>1, <1>3, <1>6 DEF BusyTo, Holds, CacheInv, LocksRight
  <1>9. SettledTo(p)
    BY <1>1, <1>3, <1>6, SlotFacts DEF SettledTo, Settles, Keeps
  <1>10. ValidTo(p, icache')
    BY <1>1, <1>3, Taken DEF ValidTo, CacheInv, Settled, Has
  <1>11. \A t \in Slot : Mine(p, t)' = Mine(p, t)
    BY <1>1, <1>3, <1>6, SlotFacts DEF Mine, Is
  <1> QED BY <1>1, <1>3, <1>5, <1>7, <1>8, <1>9, <1>10, <1>11, StayStep DEF StepTo

LEMMA WalkFails ==
  ASSUME CacheInv, NEW p \in Proc, NEW s \in Slot, s = ip[p], Ready(p, "walk"), Lockable(s),
         Use(s)[s].type # "none", icache' = Use(s), Put(p, << s >>), Fail(p),
         UNCHANGED << disk, files, freeing, ghosts >>
  PROVE  Ordinary(p)
  <1>1. /\ puts[p] = << >> /\ pc[p] = "walk" /\ freeing[p] = "no"
        /\ \A t : ~Put1(p, t) /\ ~Put2(p, t) /\ ~Frees(p, t)
    BY ReadyFacts
  <1>2. /\ Typed /\ Placed(p) /\ LocalsTyped(p) /\ DiskTyped /\ lost \subseteq Inum
    BY TypedFacts DEF CacheInv
  <1>3. /\ UNCHANGED << dinode, dir, cwd, fd, freeing, lost >> /\ Moves(p)
        /\ puts'[p] = << s >> /\ rest'[p] = << >> /\ ip'[p] = NoSlot /\ dp'[p] = NoSlot
        /\ \/ pc'[p] = "bad" /\ call' = call /\ held' = held /\ held[p] # NoSlot
           \/ pc'[p] = "user" /\ call'[p] = NoCall /\ held'[p] = NoSlot /\ held[p] = NoSlot
    BY <1>2 DEF Typed, Put, Fail, Return, Goto, Forget, files, disk, ghosts, Moves
  <1>4. puts'[p] \in Seq(Slot) /\ PutsShort(p)'
    BY <1>1, <1>3, PutsShortThen
  <1>5. LocalsTyped(p)' /\ DiskTyped' /\ lost' \subseteq Inum /\ Placed(p)'
    <2>1. LocalsTyped(p)' /\ DiskTyped' /\ lost' \subseteq Inum
      BY <1>2, <1>3, <1>4 DEF LocalsTyped, DiskTyped, Labels
    <2>2. InPlace(p)'
      BY <1>1, <1>2, <1>3 DEF Placed, InPlace, HasIp, HasDp, Waiting, IpLocked, DpLocked
    <2> QED BY <1>4, <2>1, <2>2 DEF Placed
  <1>6. ASSUME NEW t \in Slot
        PROVE  (Put1(p, t)' <=> t = s) /\ ~Put2(p, t)' /\ ~Frees(p, t)'
    BY <1>1, <1>3, PutsFactsThen DEF Frees
  <1>7. /\ icache' \in Caches /\ Kept(icache') /\ Right(icache') /\ TypesStay /\ icache[s].ref > 0
        /\ \A t \in Slot : icache'[t].busy = icache[t].busy
        /\ dinode[icache[s].inum].type # "none" /\ ~icache[s].busy
    BY <1>1, <1>3, UseTo DEF Has, Lockable
  <1>8. BusyTo(p, icache')
    BY <1>1, <1>3, <1>6, <1>7 DEF BusyTo, Holds, IpLocked, DpLocked
  <1>9. SettledTo(p)
    <2>1. ASSUME NEW t \in Slot, t # s, Settles(p, t)' PROVE Settles(p, t)
      BY <1>1, <1>3, <1>6, <2>1, SlotFacts DEF Settles, Keeps
    <2>2. Has(p, s) /\ dinode'[icache[s].inum].type # "none" /\ ~icache[s].busy
      BY <1>3, <1>7 DEF Has
    <2> QED BY <2>1, <2>2, SettledByLock
  <1>10. ValidTo(p, icache')
    <2>1. ASSUME NEW t \in Slot,
                 (dp[p] = t \/ held[p] = t \/ (ip[p] = t /\ pc[p] \in IpLocked))'
          PROVE  icache'[t].valid /\ icache'[t].ref > 0
      <3>1. dp[p] = t \/ held[p] = t
        BY <1>3, <2>1, SlotFacts
      <3> QED BY <1>7, <3>1, ValidBefore DEF Kept
    <2> QED BY <2>1 DEF ValidTo
  <1>11. \A t \in Slot : Mine(p, t)' = Mine(p, t)
    <2>1. dp[p] = NoSlot
      BY <1>1, <1>2 DEF Placed, InPlace, HasDp, DpLocked
    <2> QED BY <1>1, <1>3, <1>6, <2>1, SlotFacts DEF Mine, Is
  <1> QED BY <1>1, <1>3, <1>5, <1>7, <1>8, <1>9, <1>10, <1>11, StayStep DEF StepTo

\* namex has come to the parent.
LEMMA WalkStops ==
  ASSUME CacheInv, NEW p \in Proc, NEW s \in Slot, s = ip[p], Ready(p, "walk"),
         Lockable(s), Use(s)[s].type # "none", AsParent(p), Len(rest[p]) = 1, icache' = Use(s),
         Goto(p, "parent"), ip' = [ip EXCEPT ![p] = NoSlot], dp' = [dp EXCEPT ![p] = s],
         UNCHANGED << disk, files, call, rest, held, puts, freeing, ghosts >>
  PROVE  Ordinary(p)
  <1>1. /\ puts[p] = << >> /\ pc[p] = "walk" /\ freeing[p] = "no"
        /\ \A t : ~Put1(p, t) /\ ~Put2(p, t) /\ ~Frees(p, t)
    BY ReadyFacts
  <1>2. /\ Typed /\ Placed(p) /\ LocalsTyped(p) /\ DiskTyped /\ lost \subseteq Inum
    BY TypedFacts DEF CacheInv
  <1>3. /\ UNCHANGED << dinode, dir, cwd, fd, call, rest, held, puts, freeing, lost >> /\ Moves(p)
        /\ pc'[p] = "parent" /\ ip'[p] = NoSlot /\ dp'[p] = s
        /\ call[p].op = "link" => held[p] # NoSlot
    BY <1>1, <1>2 DEF Typed, disk, files, locals, ghosts, Moves, Goto, AsParent
  <1>4. puts'[p] \in Seq(Slot) /\ PutsShort(p)'
    BY <1>1, <1>2, <1>3, PutsShortThen DEF LocalsTyped
  <1>5. LocalsTyped(p)' /\ DiskTyped' /\ lost' \subseteq Inum /\ Placed(p)'
    <2>1. LocalsTyped(p)'
      BY <1>1, <1>2, <1>3, <1>4 DEF LocalsTyped, Labels, HasIp, HasDp, Waiting, IpLocked, DpLocked
    <2>2. DiskTyped' /\ lost' \subseteq Inum
      BY <1>2, <1>3 DEF DiskTyped
    <2>3. InPlace(p)'
      BY <1>1, <1>2, <1>3, SlotFacts DEF Placed, InPlace, LocalsTyped, HasIp, HasDp, Waiting, IpLocked, DpLocked
    <2> QED BY <1>4, <2>1, <2>2, <2>3 DEF Placed
  <1>6. ASSUME NEW t \in Slot
        PROVE  /\ ~Put1(p, t)' /\ ~Put2(p, t)'
               /\ ~Frees(p, t)'
    BY <1>1, <1>3, PutsFactsThen DEF Frees
  <1>7. /\ icache' \in Caches /\ Kept(icache') /\ Right(icache') /\ TypesStay
        /\ icache[s].ref > 0 /\ ~icache[s].busy /\ icache'[s].valid
        /\ \A t \in Slot : icache'[t].busy = icache[t].busy
        /\ dinode[icache[s].inum].type # "none" /\ icache[s].inum \in Inum
    BY <1>1, <1>3, UseTo DEF Has, Lockable
  <1>8. BusyTo(p, icache')
    <2>1. ASSUME NEW t \in Slot, Holds(p, t) PROVE icache[t].busy
      BY <2>1 DEF CacheInv, LocksRight
    <2> QED BY <1>1, <1>2, <1>3, <1>6, <1>7, <2>1 DEF BusyTo, Holds, InPlace, Placed, HasIp, HasDp, Waiting, IpLocked, DpLocked
  <1>9. SettledTo(p)
    <2>1. ASSUME NEW t \in Slot, t # s, Settles(p, t)' PROVE Settles(p, t)
      BY <1>1, <1>2, <1>3, <1>6, <2>1, SlotFacts DEF Settles, Keeps, InPlace, Placed, HasIp, HasDp, Waiting, IpLocked, DpLocked
    <2>2. Has(p, s) /\ dinode'[icache[s].inum].type # "none" /\ (Holds(p, s) \/ ~icache[s].busy)
      BY <1>1, <1>3, <1>7 DEF Has, Holds
    <2> QED BY <2>1, <2>2, SettledByLock
  <1>10. ValidTo(p, icache')
    <2>1. ASSUME NEW t \in Slot,
                 (dp[p] = t \/ held[p] = t \/ (ip[p] = t /\ pc[p] \in IpLocked))'
          PROVE  icache'[t].valid /\ icache'[t].ref > 0
      <3>1. dp[p] = t \/ held[p] = t \/ (ip[p] = t /\ pc[p] \in IpLocked) \/ t = s
        BY <1>1, <1>2, <1>3, <2>1, SlotFacts DEF InPlace, Placed, HasIp, HasDp, Waiting, IpLocked, DpLocked
      <3> QED BY <1>7, <3>1, ValidBefore DEF Kept
    <2> QED BY <2>1 DEF ValidTo
  <1>11. ASSUME NEW t \in Slot PROVE Mine(p, t)' = Mine(p, t)
    BY <1>1, <1>2, <1>3, <1>6, SlotFacts DEF Mine, Is, InPlace, Placed, HasIp, HasDp, Waiting, IpLocked, DpLocked
  <1>12. StepTo(p, icache')
    BY <1>1, <1>3, <1>5, <1>7, <1>8, <1>9, <1>10 DEF StepTo
  <1> QED BY <1>11, <1>12, StayStep

\* namex goes on to the next inode, and gives this one up.
LEMMA WalkGoes ==
  ASSUME CacheInv, NEW p \in Proc, NEW s \in Slot, s = ip[p], Ready(p, "walk"),
         Lockable(s), Use(s)[s].type # "none", NEW i \in Inum, IgetSlot(Use(s), i) # NoSlot,
         icache' = iget(Use(s), i), ip' = [ip EXCEPT ![p] = IgetSlot(Use(s), i)],
         rest' = [rest EXCEPT ![p] = Tail(@)], Put(p, << s >>),
         Goto(p, IF Len(rest[p]) = 1 THEN "found" ELSE "walk"),
         UNCHANGED << disk, files, call, dp, held, freeing, ghosts >>,
         AsParent(p) => Len(rest[p]) # 1
  PROVE  Ordinary(p)
  <1>1. /\ puts[p] = << >> /\ pc[p] = "walk" /\ freeing[p] = "no"
        /\ \A t : ~Put1(p, t) /\ ~Put2(p, t) /\ ~Frees(p, t)
    BY ReadyFacts
  <1>2. /\ Typed /\ Placed(p) /\ LocalsTyped(p) /\ DiskTyped /\ lost \subseteq Inum
    BY TypedFacts DEF CacheInv
  <1>3. /\ UNCHANGED << dinode, dir, cwd, fd, call, dp, held, freeing, lost >> /\ Moves(p)
        /\ rest'[p] = Tail(rest[p]) /\ puts'[p] = << s >> /\ ip'[p] = IgetSlot(Use(s), i)
        /\ \/ pc'[p] = "found" /\ held[p] = NoSlot
           \/ pc'[p] = "walk" /\ Len(rest[p]) # 1
    BY <1>1, <1>2 DEF Typed, disk, files, locals, ghosts, Moves, Goto, Put, AsParent
  <1>a. Tail(rest[p]) \in Seq(Names) /\ (Len(rest[p]) # 1 => Tail(rest[p]) # << >>)
    BY <1>1, <1>2, TailFacts DEF LocalsTyped, Placed, InPlace
  <1>b. IgetSlot(Use(s), i) \in Slot
    <2>1. Use(s) \in Caches
      BY <1>1, <1>3, UseTo DEF Has, Lockable
    <2> QED BY <2>1, IgetSlotFacts
  <1>4. puts'[p] \in Seq(Slot) /\ PutsShort(p)'
    BY <1>1, <1>2, <1>3, <1>a, <1>b, PutsShortThen DEF LocalsTyped
  <1>5. LocalsTyped(p)' /\ DiskTyped' /\ lost' \subseteq Inum /\ Placed(p)'
    <2>1. LocalsTyped(p)'
      BY <1>1, <1>2, <1>3, <1>4, <1>a, <1>b DEF LocalsTyped, Labels, HasIp, HasDp, Waiting, IpLocked, DpLocked
    <2>2. DiskTyped' /\ lost' \subseteq Inum
      BY <1>2, <1>3 DEF DiskTyped
    <2>3. InPlace(p)'
      BY <1>1, <1>2, <1>3, SlotFacts, <1>a, <1>b DEF Placed, InPlace, LocalsTyped, HasIp, HasDp, Waiting, IpLocked, DpLocked
    <2> QED BY <1>4, <2>1, <2>2, <2>3 DEF Placed
  <1>6. ASSUME NEW t \in Slot
        PROVE  /\ (Put1(p, t)' <=> t = s) /\ ~Put2(p, t)'
               /\ ~Frees(p, t)'
    BY <1>1, <1>3, PutsFactsThen DEF Frees
  <1>7. /\ Use(s) \in Caches /\ Kept(Use(s)) /\ Right(Use(s)) /\ TypesStay
        /\ icache[s].ref > 0 /\ ~icache[s].busy /\ Use(s)[s].valid
        /\ \A t \in Slot : Use(s)[t].busy = icache[t].busy
        /\ dinode[icache[s].inum].type # "none" /\ icache[s].inum \in Inum
    BY <1>1, <1>3, UseTo DEF Has, Lockable
  <1>8. BusyTo(p, Use(s))
    <2>1. ASSUME NEW t \in Slot, Holds(p, t) PROVE icache[t].busy
      BY <2>1 DEF CacheInv, LocksRight
    <2> QED BY <1>1, <1>2, <1>3, <1>6, <1>7, <2>1 DEF BusyTo, Holds, InPlace, Placed, HasIp, HasDp, Waiting, IpLocked, DpLocked
  <1>9. SettledTo(p)
    <2>1. ASSUME NEW t \in Slot, t # s, Settles(p, t)' PROVE Settles(p, t)
      BY <1>1, <1>2, <1>3, <1>6, <2>1, SlotFacts, <1>b DEF Settles, Keeps, InPlace, Placed, HasIp, HasDp, Waiting, IpLocked, DpLocked
    <2>2. Has(p, s) /\ dinode'[icache[s].inum].type # "none" /\ (Holds(p, s) \/ ~icache[s].busy)
      BY <1>1, <1>3, <1>7 DEF Has, Holds
    <2> QED BY <2>1, <2>2, SettledByLock
  <1>10. ValidTo(p, Use(s))
    <2>1. ASSUME NEW t \in Slot,
                 (dp[p] = t \/ held[p] = t \/ (ip[p] = t /\ pc[p] \in IpLocked))'
          PROVE  Use(s)[t].valid /\ Use(s)[t].ref > 0
      <3>1. dp[p] = t \/ held[p] = t \/ (ip[p] = t /\ pc[p] \in IpLocked)
        BY <1>1, <1>2, <1>3, <2>1, SlotFacts DEF InPlace, Placed, HasIp, HasDp, Waiting, IpLocked, DpLocked
      <3> QED BY <1>7, <3>1, ValidBefore DEF Kept
    <2> QED BY <2>1 DEF ValidTo
  <1>11. ASSUME NEW t \in Slot PROVE Mine(p, t)' = Mine(p, t) + Is(t = IgetSlot(Use(s), i))
    BY <1>1, <1>2, <1>3, <1>6, <1>b, SlotFacts DEF Mine, Is, InPlace, Placed, HasIp, HasDp, Waiting, IpLocked, DpLocked
  <1>12. StepTo(p, Use(s))
    BY <1>1, <1>3, <1>5, <1>7, <1>8, <1>9, <1>10 DEF StepTo
  <1> QED BY <1>11, <1>12, IgetStep

\* open, chdir, link and create return: what ip was is kept or put.
LEMMA EndsWithIp ==
  ASSUME CacheInv, NEW p \in Proc, NEW s \in Slot, s = ip[p],
         Ready(p, "found") \/ Ready(p, "exists"), Lockable(s), Use(s)[s].type # "none",
         icache' = Use(s), Return(p), UNCHANGED << disk, freeing, ghosts >>,
         \/ Opens(p, s)
         \/ Put(p, << s >>) /\ UNCHANGED files
         \/ cwd' = [cwd EXCEPT ![p] = s] /\ Put(p, << cwd[p] >>) /\ UNCHANGED fd
  PROVE  Ordinary(p)
  <1>1. /\ puts[p] = << >> /\ pc[p] \in {"found", "exists"} /\ freeing[p] = "no"
        /\ \A t : ~Put1(p, t) /\ ~Put2(p, t) /\ ~Frees(p, t)
    <2>1. CASE Ready(p, "found")
      BY <2>1, ReadyFacts
    <2>2. CASE Ready(p, "exists")
      BY <2>2, ReadyFacts
    <2> QED BY <2>1, <2>2
  <1>2. /\ Typed /\ Placed(p) /\ LocalsTyped(p) /\ DiskTyped /\ lost \subseteq Inum
    BY TypedFacts DEF CacheInv
  <1>3. /\ UNCHANGED << dinode, dir, freeing, lost >> /\ Moves(p)
        /\ pc'[p] = "user" /\ call'[p] = NoCall /\ rest'[p] = << >>
        /\ ip'[p] = NoSlot /\ dp'[p] = NoSlot /\ held'[p] = NoSlot
        /\ \/ cwd' = cwd /\ fd[p] = NoSlot /\ fd'[p] = s /\ puts'[p] = << >>
           \/ cwd' = cwd /\ fd' = fd /\ puts'[p] = << s >>
           \/ cwd'[p] = s /\ fd' = fd /\ puts'[p] = << cwd[p] >>
    BY <1>1, <1>2 DEF Typed, disk, files, locals, ghosts, Moves, Return, Goto, Forget, Put, Opens
  <1>a. /\ cwd'[p] \in Slot /\ fd'[p] \in Slot \cup {NoSlot}
        /\ pc'[p] = "user" /\ call'[p] = NoCall /\ rest'[p] = << >> /\ freeing'[p] = "no"
        /\ ip'[p] = NoSlot /\ dp'[p] = NoSlot /\ held'[p] = NoSlot
    BY <1>1, <1>2, <1>3 DEF LocalsTyped
  <1>4. puts'[p] \in Seq(Slot) /\ PutsShort(p)'
    BY <1>1, <1>2, <1>3, <1>a, PutsShortThen DEF LocalsTyped
  <1>5. LocalsTyped(p)' /\ DiskTyped' /\ lost' \subseteq Inum /\ Placed(p)'
    <2>1. LocalsTyped(p)'
      BY  <1>4, <1>a DEF LocalsTyped, Labels, HasIp, HasDp, Waiting, IpLocked, DpLocked
    <2>2. DiskTyped' /\ lost' \subseteq Inum
      BY <1>2, <1>3 DEF DiskTyped
    <2>3. InPlace(p)'
      BY <1>1, <1>2, <1>3, SlotFacts DEF Placed, InPlace, LocalsTyped, HasIp, HasDp, Waiting, IpLocked, DpLocked
    <2> QED BY <1>4, <2>1, <2>2, <2>3 DEF Placed
  <1>6. ASSUME NEW t \in Slot
        PROVE  /\ \/ cwd' = cwd /\ fd[p] = NoSlot /\ fd'[p] = s /\ ~Put1(p, t)' /\ ~Put2(p, t)'
                  \/ cwd' = cwd /\ fd' = fd /\ (Put1(p, t)' <=> t = s) /\ ~Put2(p, t)'
                  \/ cwd'[p] = s /\ fd' = fd /\ (Put1(p, t)' <=> t = cwd[p]) /\ ~Put2(p, t)'
               /\ ~Frees(p, t)'
    BY <1>1, <1>3, PutsFactsThen DEF Frees
  <1>7. /\ icache' \in Caches /\ Kept(icache') /\ Right(icache') /\ TypesStay
        /\ icache[s].ref > 0 /\ ~icache[s].busy /\ icache'[s].valid
        /\ \A t \in Slot : icache'[t].busy = icache[t].busy
        /\ dinode[icache[s].inum].type # "none" /\ icache[s].inum \in Inum
    BY <1>1, <1>3, UseTo DEF Has, Lockable
  <1>8. BusyTo(p, icache')
    <2>1. ASSUME NEW t \in Slot PROVE ~Holds(p, t) /\ ~Holds(p, t)'
      BY <1>1, <1>3, <1>6 DEF Holds, IpLocked, DpLocked
    <2> QED BY <1>7, <2>1 DEF BusyTo
  <1>9. SettledTo(p)
    <2>1. ASSUME NEW t \in Slot, t # s, Settles(p, t)' PROVE Settles(p, t)
      BY <1>1, <1>2, <1>3, <1>6, <2>1, SlotFacts DEF Settles, Keeps, InPlace, Placed, HasIp, HasDp, Waiting, IpLocked, DpLocked
    <2>2. Has(p, s) /\ dinode'[icache[s].inum].type # "none" /\ (Holds(p, s) \/ ~icache[s].busy)
      BY <1>1, <1>3, <1>7 DEF Has, Holds
    <2> QED BY <2>1, <2>2, SettledByLock
  <1>10. ValidTo(p, icache')
    <2>1. ASSUME NEW t \in Slot,
                 (dp[p] = t \/ held[p] = t \/ (ip[p] = t /\ pc[p] \in IpLocked))'
          PROVE  icache'[t].valid /\ icache'[t].ref > 0
      <3>1. dp[p] = t \/ held[p] = t \/ (ip[p] = t /\ pc[p] \in IpLocked)
        BY <1>1, <1>2, <1>3, <2>1, SlotFacts DEF InPlace, Placed, HasIp, HasDp, Waiting, IpLocked, DpLocked
      <3> QED BY <1>7, <3>1, ValidBefore DEF Kept
    <2> QED BY <2>1 DEF ValidTo
  <1>11. ASSUME NEW t \in Slot PROVE Mine(p, t)' = Mine(p, t)
    <2>1. dp[p] = NoSlot /\ held[p] = NoSlot
      BY <1>1, <1>2 DEF InPlace, Placed, HasDp, DpLocked
    <2>2. CASE cwd' = cwd /\ fd[p] = NoSlot /\ fd'[p] = s /\ ~Put1(p, t)' /\ ~Put2(p, t)'
      BY <1>1, <1>3, <2>1, <2>2, SlotFacts DEF Mine, Is
    <2>3. CASE cwd' = cwd /\ fd' = fd /\ (Put1(p, t)' <=> t = s) /\ ~Put2(p, t)'
      BY <1>1, <1>3, <2>1, <2>3, SlotFacts DEF Mine, Is
    <2>4. CASE cwd'[p] = s /\ fd' = fd /\ (Put1(p, t)' <=> t = cwd[p]) /\ ~Put2(p, t)'
      BY <1>1, <1>3, <2>1, <2>4, SlotFacts DEF Mine, Is
    <2> QED BY <1>6, <2>2, <2>3, <2>4
  <1>12. StepTo(p, icache')
    BY <1>1, <1>3, <1>5, <1>7, <1>8, <1>9, <1>10 DEF StepTo
  <1> QED BY <1>11, <1>12, StayStep

\* A call starts at the current directory.
LEMMA BeginOrdinary ==
  ASSUME CacheInv, NEW p \in Proc, NEW k \in Calls, Ready(p, "user"),
         call' = [call EXCEPT ![p] = k], Start(p, k.path, icache),
         UNCHANGED << disk, files, dp, held, puts, freeing, ghosts >>
  PROVE  Ordinary(p)
  <1>1. /\ puts[p] = << >> /\ pc[p] = "user" /\ freeing[p] = "no"
        /\ \A t : ~Put1(p, t) /\ ~Put2(p, t) /\ ~Frees(p, t)
    BY ReadyFacts
  <1>2. /\ Typed /\ Placed(p) /\ LocalsTyped(p) /\ DiskTyped /\ lost \subseteq Inum
    BY TypedFacts DEF CacheInv
  <1>3. /\ UNCHANGED << dinode, dir, cwd, fd, dp, held, puts, freeing, lost >> /\ Moves(p)
        /\ pc'[p] = "walk" /\ ip'[p] = cwd[p] /\ rest'[p] = k.path /\ call'[p] = k
        /\ icache' = [icache EXCEPT ![cwd[p]].ref = @ + 1]
    BY <1>1, <1>2 DEF Typed, disk, files, locals, ghosts, Moves, Start, Goto
  <1>a. k.path \in Seq(Names) /\ k.path # << >> /\ cwd[p] \in Slot /\ Has(p, cwd[p])
    BY <1>2, InodesAssumption DEF Names, LocalsTyped, Has
  <1>4. puts'[p] \in Seq(Slot) /\ PutsShort(p)'
    BY <1>1, <1>2, <1>3, <1>a, PutsShortThen DEF LocalsTyped
  <1>5. LocalsTyped(p)' /\ DiskTyped' /\ lost' \subseteq Inum /\ Placed(p)'
    <2>1. LocalsTyped(p)'
      BY <1>1, <1>2, <1>3, <1>4, <1>a DEF LocalsTyped, Labels, HasIp, HasDp, Waiting, IpLocked, DpLocked
    <2>2. DiskTyped' /\ lost' \subseteq Inum
      BY <1>2, <1>3 DEF DiskTyped
    <2>3. InPlace(p)'
      BY <1>1, <1>2, <1>3, SlotFacts, <1>a DEF Placed, InPlace, LocalsTyped, HasIp, HasDp, Waiting, IpLocked, DpLocked
    <2> QED BY <1>4, <2>1, <2>2, <2>3 DEF Placed
  <1>6. ASSUME NEW t \in Slot
        PROVE  /\ ~Put1(p, t)' /\ ~Put2(p, t)'
               /\ ~Frees(p, t)'
    BY <1>1, <1>3, PutsFactsThen DEF Frees
  <1>7. icache \in Caches /\ Kept(icache) /\ Right(icache) /\ TypesStay
    BY <1>3, SameTo
  <1>8. BusyTo(p, icache)
    <2>1. ASSUME NEW t \in Slot, Holds(p, t) PROVE icache[t].busy
      BY <2>1 DEF CacheInv, LocksRight
    <2> QED BY <1>1, <1>2, <1>3, <1>6, <1>7, <2>1 DEF BusyTo, Holds, InPlace, Placed, HasIp, HasDp, Waiting, IpLocked, DpLocked
  <1>9. SettledTo(p)
    BY <1>1, <1>2, <1>3, <1>6, <1>7, SlotFacts DEF SettledTo, Settles, Keeps, InPlace, Placed, HasIp, HasDp, Waiting, IpLocked, DpLocked
  <1>10. ValidTo(p, icache)
    <2>1. ASSUME NEW t \in Slot,
                 (dp[p] = t \/ held[p] = t \/ (ip[p] = t /\ pc[p] \in IpLocked))'
          PROVE  icache[t].valid /\ icache[t].ref > 0
      <3>1. dp[p] = t \/ held[p] = t \/ (ip[p] = t /\ pc[p] \in IpLocked)
        BY <1>1, <1>2, <1>3, <2>1, SlotFacts DEF InPlace, Placed, HasIp, HasDp, Waiting, IpLocked, DpLocked
      <3> QED BY <1>7, <3>1, ValidBefore DEF Kept
    <2> QED BY <2>1 DEF ValidTo
  <1>11. ASSUME NEW t \in Slot PROVE Mine(p, t)' = Mine(p, t) + Is(t = cwd[p])
    BY <1>1, <1>2, <1>3, <1>6, <1>a, SlotFacts DEF Mine, Is, InPlace, Placed, HasIp, HasDp, Waiting, IpLocked, DpLocked
  <1>12. StepTo(p, icache)
    BY <1>1, <1>3, <1>5, <1>7, <1>8, <1>9, <1>10 DEF StepTo
  <1> QED BY <1>11, <1>12, IdupStep, <1>a, <1>3

\* link counts one name more, and goes to look for its place.
LEMMA FoundLinks ==
  ASSUME CacheInv, NEW p \in Proc, NEW s \in Slot, s = ip[p], Ready(p, "found"),
         Lockable(s), Use(s)[s].type # "none", call[p].op = "link",
         NEW c, c = AddLink(Use(s), s, 1), Start(p, call[p].new, c), iupdate(c, s),
         held' = [held EXCEPT ![p] = s],
         UNCHANGED << dir, files, call, dp, puts, freeing, ghosts >>
  PROVE  Ordinary(p)
  <1>1. /\ puts[p] = << >> /\ pc[p] = "found" /\ freeing[p] = "no"
        /\ \A t : ~Put1(p, t) /\ ~Put2(p, t) /\ ~Frees(p, t)
    BY ReadyFacts
  <1>2. /\ Typed /\ Placed(p) /\ LocalsTyped(p) /\ DiskTyped /\ lost \subseteq Inum
    BY TypedFacts DEF CacheInv
  <1>3. /\ UNCHANGED << dir, cwd, fd, call, dp, puts, freeing, lost >> /\ Moves(p)
        /\ pc'[p] = "walk" /\ ip'[p] = cwd[p] /\ rest'[p] = call[p].new /\ held'[p] = s
        /\ icache' = [c EXCEPT ![cwd[p]].ref = @ + 1]
    BY <1>1, <1>2 DEF Typed, disk, files, locals, ghosts, Moves, Start, Goto
  <1>a. /\ call[p].new \in Seq(Names) /\ call[p].new # << >>
        /\ cwd[p] \in Slot /\ Has(p, cwd[p]) /\ Has(p, s)
    <2>1. call[p] \in Calls
      BY <1>1, <1>2 DEF Placed, InPlace
    <2>2. call[p].new \in Seq(Name) \ {<< >>}
      BY <2>1, InodesAssumption
    <2>3. Seq(Name) \subseteq Seq(Names)
      BY DEF Names
    <2> QED BY <1>2, <2>2, <2>3 DEF LocalsTyped, Has
  <1>b. /\ c \in Caches /\ Kept(c) /\ Right(c) /\ TypesStay /\ c[s].valid
        /\ icache[s].ref > 0 /\ ~icache[s].busy
        /\ \A t \in Slot : c[t].busy = icache[t].busy
        /\ dinode' \in [Inum -> [type : Types, nlink : Int]]
        /\ dinode'[icache[s].inum].type # "none"
    <2>1. /\ Use(s) \in Caches /\ Kept(Use(s)) /\ Use(s)[s].valid /\ icache[s].ref > 0
          /\ \A t \in Slot : Use(s)[t].busy = icache[t].busy
          /\ \A t \in Slot : t # s => Use(s)[t] = icache[t]
          /\ dinode[icache[s].inum].type = Use(s)[s].type /\ ~icache[s].busy
      BY <1>1, <1>a, UseTo DEF Lockable
    <2> QED BY <2>1, AddLinkTo
  <1>4. puts'[p] \in Seq(Slot) /\ PutsShort(p)'
    BY <1>1, <1>2, <1>3, <1>a, PutsShortThen DEF LocalsTyped
  <1>5. LocalsTyped(p)' /\ DiskTyped' /\ lost' \subseteq Inum /\ Placed(p)'
    <2>1. LocalsTyped(p)'
      BY <1>1, <1>2, <1>3, <1>4, <1>a DEF LocalsTyped, Labels, HasIp, HasDp, Waiting, IpLocked, DpLocked
    <2>2. DiskTyped' /\ lost' \subseteq Inum
      BY <1>2, <1>3, <1>b DEF DiskTyped
    <2>3. InPlace(p)'
      BY <1>1, <1>2, <1>3, SlotFacts, <1>a DEF Placed, InPlace, LocalsTyped, HasIp, HasDp, Waiting, IpLocked, DpLocked
    <2> QED BY <1>4, <2>1, <2>2, <2>3 DEF Placed
  <1>6. ASSUME NEW t \in Slot
        PROVE  /\ ~Put1(p, t)' /\ ~Put2(p, t)'
               /\ ~Frees(p, t)'
    BY <1>1, <1>3, PutsFactsThen DEF Frees
  <1>7. /\ c \in Caches /\ Kept(c) /\ Right(c) /\ TypesStay /\ c[s].valid
        /\ icache[s].ref > 0 /\ ~icache[s].busy
        /\ \A t \in Slot : c[t].busy = icache[t].busy
        /\ dinode' \in [Inum -> [type : Types, nlink : Int]]
        /\ dinode'[icache[s].inum].type # "none"
    BY <1>b
  <1>8. BusyTo(p, c)
    <2>1. ASSUME NEW t \in Slot, Holds(p, t) PROVE icache[t].busy
      BY <2>1 DEF CacheInv, LocksRight
    <2> QED BY <1>1, <1>2, <1>3, <1>6, <1>7, <2>1 DEF BusyTo, Holds, InPlace, Placed, HasIp, HasDp, Waiting, IpLocked, DpLocked
  <1>9. SettledTo(p)
    <2>1. ASSUME NEW t \in Slot, t # s, Settles(p, t)' PROVE Settles(p, t)
      BY <1>1, <1>2, <1>3, <1>6, <2>1, SlotFacts DEF Settles, Keeps, InPlace, Placed, HasIp, HasDp, Waiting, IpLocked, DpLocked
    <2>2. Has(p, s) /\ dinode'[icache[s].inum].type # "none" /\ (Holds(p, s) \/ ~icache[s].busy)
      BY <1>1, <1>3, <1>7 DEF Has, Holds
    <2> QED BY <2>1, <2>2, SettledByLock
  <1>10. ValidTo(p, c)
    <2>1. ASSUME NEW t \in Slot,
                 (dp[p] = t \/ held[p] = t \/ (ip[p] = t /\ pc[p] \in IpLocked))'
          PROVE  c[t].valid /\ c[t].ref > 0
      <3>1. dp[p] = t \/ held[p] = t \/ (ip[p] = t /\ pc[p] \in IpLocked) \/ t = s
        BY <1>1, <1>2, <1>3, <2>1, SlotFacts DEF InPlace, Placed, HasIp, HasDp, Waiting, IpLocked, DpLocked
      <3> QED BY <1>7, <3>1, ValidBefore DEF Kept
    <2> QED BY <2>1 DEF ValidTo
  <1>11. ASSUME NEW t \in Slot PROVE Mine(p, t)' = Mine(p, t) + Is(t = cwd[p])
    BY <1>1, <1>2, <1>3, <1>6, <1>a, SlotFacts DEF Mine, Is, InPlace, Placed, HasIp, HasDp, Waiting, IpLocked, DpLocked
  <1>12. StepTo(p, c)
    BY <1>1, <1>3, <1>5, <1>7, <1>8, <1>9, <1>10 DEF StepTo
  <1> QED BY <1>11, <1>12, IdupStep, <1>3, <1>a, <1>b

\* The name is taken: link goes back on its count.
LEMMA LinkFails ==
  ASSUME CacheInv, NEW p \in Proc, NEW s \in Slot, s = dp[p], Ready(p, "parent"),
         Lockable(s), call[p].op = "link", icache' = Use(s), Put(p, << s >>), Fail(p),
         UNCHANGED << disk, files, freeing, ghosts >>
  PROVE  Ordinary(p)
  <1>1. /\ puts[p] = << >> /\ pc[p] = "parent" /\ freeing[p] = "no"
        /\ \A t : ~Put1(p, t) /\ ~Put2(p, t) /\ ~Frees(p, t)
    BY ReadyFacts
  <1>2. /\ Typed /\ Placed(p) /\ LocalsTyped(p) /\ DiskTyped /\ lost \subseteq Inum
    BY TypedFacts DEF CacheInv
  <1>3. /\ UNCHANGED << dinode, dir, cwd, fd, call, held, freeing, lost >> /\ Moves(p)
        /\ puts'[p] = << s >> /\ rest'[p] = << >> /\ ip'[p] = NoSlot /\ dp'[p] = NoSlot
        /\ pc'[p] = "bad" /\ held[p] # NoSlot
    BY <1>1, <1>2 DEF Typed, disk, files, locals, ghosts, Moves, Put, Fail, Goto, Forget, Placed, InPlace
  <1>a. Use(s)[s].type # "none"
    BY <1>1, ParentLoads DEF Lockable
  <1>4. puts'[p] \in Seq(Slot) /\ PutsShort(p)'
    BY <1>1, <1>2, <1>3, PutsShortThen DEF LocalsTyped
  <1>5. LocalsTyped(p)' /\ DiskTyped' /\ lost' \subseteq Inum /\ Placed(p)'
    <2>1. LocalsTyped(p)'
      BY <1>1, <1>2, <1>3, <1>4 DEF LocalsTyped, Labels, HasIp, HasDp, Waiting, IpLocked, DpLocked
    <2>2. DiskTyped' /\ lost' \subseteq Inum
      BY <1>2, <1>3 DEF DiskTyped
    <2>3. InPlace(p)'
      BY <1>1, <1>2, <1>3, SlotFacts DEF Placed, InPlace, LocalsTyped, HasIp, HasDp, Waiting, IpLocked, DpLocked
    <2> QED BY <1>4, <2>1, <2>2, <2>3 DEF Placed
  <1>6. ASSUME NEW t \in Slot
        PROVE  /\ (Put1(p, t)' <=> t = s) /\ ~Put2(p, t)'
               /\ ~Frees(p, t)'
    BY <1>1, <1>3, PutsFactsThen DEF Frees
  <1>7. /\ icache' \in Caches /\ Kept(icache') /\ Right(icache') /\ TypesStay
        /\ icache[s].ref > 0 /\ ~icache[s].busy /\ icache'[s].valid
        /\ \A t \in Slot : icache'[t].busy = icache[t].busy
        /\ dinode[icache[s].inum].type # "none" /\ icache[s].inum \in Inum
    BY <1>1, <1>3, <1>a, UseTo DEF Has, Lockable
  <1>8. BusyTo(p, icache')
    <2>1. ASSUME NEW t \in Slot, Holds(p, t) PROVE icache[t].busy
      BY <2>1 DEF CacheInv, LocksRight
    <2> QED BY <1>1, <1>2, <1>3, <1>6, <1>7, <2>1 DEF BusyTo, Holds, InPlace, Placed, HasIp, HasDp, Waiting, IpLocked, DpLocked
  <1>9. SettledTo(p)
    <2>1. ASSUME NEW t \in Slot, t # s, Settles(p, t)' PROVE Settles(p, t)
      BY <1>1, <1>2, <1>3, <1>6, <2>1, SlotFacts DEF Settles, Keeps, InPlace, Placed, HasIp, HasDp, Waiting, IpLocked, DpLocked
    <2>2. Has(p, s) /\ dinode'[icache[s].inum].type # "none" /\ (Holds(p, s) \/ ~icache[s].busy)
      BY <1>1, <1>3, <1>7 DEF Has, Holds
    <2> QED BY <2>1, <2>2, SettledByLock
  <1>10. ValidTo(p, icache')
    <2>1. ASSUME NEW t \in Slot,
                 (dp[p] = t \/ held[p] = t \/ (ip[p] = t /\ pc[p] \in IpLocked))'
          PROVE  icache'[t].valid /\ icache'[t].ref > 0
      <3>1. dp[p] = t \/ held[p] = t \/ (ip[p] = t /\ pc[p] \in IpLocked)
        BY <1>1, <1>2, <1>3, <2>1, SlotFacts DEF InPlace, Placed, HasIp, HasDp, Waiting, IpLocked, DpLocked
      <3> QED BY <1>7, <3>1, ValidBefore DEF Kept
    <2> QED BY <2>1 DEF ValidTo
  <1>11. ASSUME NEW t \in Slot PROVE Mine(p, t)' = Mine(p, t)
    BY <1>1, <1>2, <1>3, <1>6, SlotFacts DEF Mine, Is, InPlace, Placed, HasIp, HasDp, Waiting, IpLocked, DpLocked
  <1>12. StepTo(p, icache')
    BY <1>1, <1>3, <1>5, <1>7, <1>8, <1>9, <1>10 DEF StepTo
  <1> QED BY <1>11, <1>12, StayStep

\* The name is free: link enters it, and gives both inodes up.
LEMMA LinkEnters ==
  ASSUME CacheInv, NEW p \in Proc, NEW s \in Slot, s = dp[p], Ready(p, "parent"),
         Lockable(s), call[p].op = "link", icache' = Use(s),
         NEW i \in Inum, NEW j \in Inum, EnterName(i, LastName(p), j),
         Put(p, << s, held[p] >>), Return(p), UNCHANGED << dinode, files, freeing, ghosts >>
  PROVE  Ordinary(p)
  <1>1. /\ puts[p] = << >> /\ pc[p] = "parent" /\ freeing[p] = "no"
        /\ \A t : ~Put1(p, t) /\ ~Put2(p, t) /\ ~Frees(p, t)
    BY ReadyFacts
  <1>2. /\ Typed /\ Placed(p) /\ LocalsTyped(p) /\ DiskTyped /\ lost \subseteq Inum
    BY TypedFacts DEF CacheInv
  <1>3. /\ UNCHANGED << dinode, cwd, fd, freeing, lost >> /\ Moves(p)
        /\ puts'[p] = << s, held[p] >> /\ rest'[p] = << >> /\ ip'[p] = NoSlot /\ dp'[p] = NoSlot
        /\ pc'[p] = "user" /\ call'[p] = NoCall /\ held'[p] = NoSlot
        /\ held[p] \in Slot
    BY <1>1, <1>2 DEF Typed, disk, files, locals, ghosts, Moves, Put, Return, Goto, Forget, Placed, InPlace, LocalsTyped
  <1>a. Use(s)[s].type # "none"
    BY <1>1, ParentLoads DEF Lockable
  <1>b. LastName(p) \in Names
    BY <1>1, <1>2, LastFacts DEF LastName, LocalsTyped, Placed, InPlace, HasDp, DpLocked
  <1>4. puts'[p] \in Seq(Slot) /\ PutsShort(p)'
    BY <1>1, <1>2, <1>3, PutsShortThen DEF LocalsTyped
  <1>5. LocalsTyped(p)' /\ DiskTyped' /\ lost' \subseteq Inum /\ Placed(p)'
    <2>1. LocalsTyped(p)'
      BY <1>1, <1>2, <1>3, <1>4 DEF LocalsTyped, Labels, HasIp, HasDp, Waiting, IpLocked, DpLocked
    <2>2. DiskTyped' /\ lost' \subseteq Inum
      <3>1. dir' \in [Inum -> [Names -> Inum \cup {None}]]
        BY <1>2, <1>3, <1>b DEF DiskTyped, EnterName
      <3> QED BY <1>2, <1>3, <3>1 DEF DiskTyped
    <2>3. InPlace(p)'
      BY <1>1, <1>2, <1>3, SlotFacts DEF Placed, InPlace, LocalsTyped, HasIp, HasDp, Waiting, IpLocked, DpLocked
    <2> QED BY <1>4, <2>1, <2>2, <2>3 DEF Placed
  <1>6. ASSUME NEW t \in Slot
        PROVE  /\ (Put1(p, t)' <=> t = s) /\ (Put2(p, t)' <=> t = held[p])
               /\ ~Frees(p, t)'
    BY <1>1, <1>3, PutsFactsThen DEF Frees
  <1>7. /\ icache' \in Caches /\ Kept(icache') /\ Right(icache') /\ TypesStay
        /\ icache[s].ref > 0 /\ ~icache[s].busy /\ icache'[s].valid
        /\ \A t \in Slot : icache'[t].busy = icache[t].busy
        /\ dinode[icache[s].inum].type # "none" /\ icache[s].inum \in Inum
    BY <1>1, <1>3, <1>a, UseTo DEF Has, Lockable
  <1>8. BusyTo(p, icache')
    <2>1. ASSUME NEW t \in Slot, Holds(p, t) PROVE icache[t].busy
      BY <2>1 DEF CacheInv, LocksRight
    <2> QED BY <1>1, <1>2, <1>3, <1>6, <1>7, <2>1 DEF BusyTo, Holds, InPlace, Placed, HasIp, HasDp, Waiting, IpLocked, DpLocked
  <1>9. SettledTo(p)
    <2>1. ASSUME NEW t \in Slot, t # s, Settles(p, t)' PROVE Settles(p, t)
      BY <1>1, <1>2, <1>3, <1>6, <2>1, SlotFacts DEF Settles, Keeps, InPlace, Placed, HasIp, HasDp, Waiting, IpLocked, DpLocked
    <2>2. Has(p, s) /\ dinode'[icache[s].inum].type # "none" /\ (Holds(p, s) \/ ~icache[s].busy)
      BY <1>1, <1>3, <1>7 DEF Has, Holds
    <2> QED BY <2>1, <2>2, SettledByLock
  <1>10. ValidTo(p, icache')
    <2>1. ASSUME NEW t \in Slot,
                 (dp[p] = t \/ held[p] = t \/ (ip[p] = t /\ pc[p] \in IpLocked))'
          PROVE  icache'[t].valid /\ icache'[t].ref > 0
      <3>1. dp[p] = t \/ held[p] = t \/ (ip[p] = t /\ pc[p] \in IpLocked)
        BY <1>1, <1>2, <1>3, <2>1, SlotFacts DEF InPlace, Placed, HasIp, HasDp, Waiting, IpLocked, DpLocked
      <3> QED BY <1>7, <3>1, ValidBefore DEF Kept
    <2> QED BY <2>1 DEF ValidTo
  <1>11. ASSUME NEW t \in Slot PROVE Mine(p, t)' = Mine(p, t)
    BY <1>1, <1>2, <1>3, <1>6, SlotFacts DEF Mine, Is, InPlace, Placed, HasIp, HasDp, Waiting, IpLocked, DpLocked
  <1>12. StepTo(p, icache')
    BY <1>1, <1>3, <1>5, <1>7, <1>8, <1>9, <1>10 DEF StepTo
  <1> QED BY <1>11, <1>12, StayStep

\* link takes its count back.
LEMMA LinkBadOrdinary ==
  ASSUME CacheInv, NEW p \in Proc, NEW s \in Slot, s = held[p], Ready(p, "bad"), Lockable(s),
         NEW c, c = AddLink(icache, s, TakesBack), icache' = c, iupdate(c, s), Put(p, << s >>),
         Return(p), UNCHANGED << dir, files, freeing, ghosts >>
  PROVE  Ordinary(p)
  <1>1. /\ puts[p] = << >> /\ pc[p] = "bad" /\ freeing[p] = "no"
        /\ \A t : ~Put1(p, t) /\ ~Put2(p, t) /\ ~Frees(p, t)
    BY ReadyFacts
  <1>2. /\ Typed /\ Placed(p) /\ LocalsTyped(p) /\ DiskTyped /\ lost \subseteq Inum
    BY TypedFacts DEF CacheInv
  <1>3. /\ UNCHANGED << dir, cwd, fd, freeing, lost >> /\ Moves(p)
        /\ puts'[p] = << s >> /\ rest'[p] = << >> /\ ip'[p] = NoSlot /\ dp'[p] = NoSlot
        /\ pc'[p] = "user" /\ call'[p] = NoCall /\ held'[p] = NoSlot
    BY <1>1, <1>2 DEF Typed, disk, files, locals, ghosts, Moves, Put, Return, Goto, Forget
  <1>a. /\ icache' \in Caches /\ Kept(icache') /\ Right(icache') /\ TypesStay
        /\ \A t \in Slot : icache'[t].busy = icache[t].busy
        /\ dinode' \in [Inum -> [type : Types, nlink : Int]]
    <2>1. icache \in Caches /\ Kept(icache)
      BY KeptNow
    <2>2. /\ icache[s].ref > 0 /\ icache[s].type # "none"
          /\ dinode[icache[s].inum].type = icache[s].type
      <3>1. icache[s].valid /\ Has(p, s)
        BY ValidBefore DEF Has
      <3> QED BY <1>1, <3>1, LockedMatches DEF Lockable
    <2>3. TakesBack \in Int
      BY DEF TakesBack
    <2> QED BY <2>1, <2>2, <2>3, AddLinkTo
  <1>4. puts'[p] \in Seq(Slot) /\ PutsShort(p)'
    BY <1>1, <1>2, <1>3, PutsShortThen DEF LocalsTyped
  <1>5. LocalsTyped(p)' /\ DiskTyped' /\ lost' \subseteq Inum /\ Placed(p)'
    <2>1. LocalsTyped(p)'
      BY <1>1, <1>2, <1>3, <1>4 DEF LocalsTyped, Labels, HasIp, HasDp, Waiting, IpLocked, DpLocked
    <2>2. DiskTyped' /\ lost' \subseteq Inum
      BY <1>2, <1>3, <1>a DEF DiskTyped
    <2>3. InPlace(p)'
      BY <1>1, <1>2, <1>3, SlotFacts DEF Placed, InPlace, LocalsTyped, HasIp, HasDp, Waiting, IpLocked, DpLocked
    <2> QED BY <1>4, <2>1, <2>2, <2>3 DEF Placed
  <1>6. ASSUME NEW t \in Slot
        PROVE  /\ (Put1(p, t)' <=> t = s) /\ ~Put2(p, t)'
               /\ ~Frees(p, t)'
    BY <1>1, <1>3, PutsFactsThen DEF Frees
  <1>7. /\ icache' \in Caches /\ Kept(icache') /\ Right(icache') /\ TypesStay
        /\ \A t \in Slot : icache'[t].busy = icache[t].busy
    BY <1>a
  <1>8. BusyTo(p, icache')
    <2>1. ASSUME NEW t \in Slot, Holds(p, t) PROVE icache[t].busy
      BY <2>1 DEF CacheInv, LocksRight
    <2> QED BY <1>1, <1>2, <1>3, <1>6, <1>7, <2>1 DEF BusyTo, Holds, InPlace, Placed, HasIp, HasDp, Waiting, IpLocked, DpLocked
  <1>9. SettledTo(p)
    BY <1>1, <1>2, <1>3, <1>6, <1>7, SlotFacts DEF SettledTo, Settles, Keeps, InPlace, Placed, HasIp, HasDp, Waiting, IpLocked, DpLocked
  <1>10. ValidTo(p, icache')
    <2>1. ASSUME NEW t \in Slot,
                 (dp[p] = t \/ held[p] = t \/ (ip[p] = t /\ pc[p] \in IpLocked))'
          PROVE  icache'[t].valid /\ icache'[t].ref > 0
      <3>1. dp[p] = t \/ held[p] = t \/ (ip[p] = t /\ pc[p] \in IpLocked)
        BY <1>1, <1>2, <1>3, <2>1, SlotFacts DEF InPlace, Placed, HasIp, HasDp, Waiting, IpLocked, DpLocked
      <3> QED BY <1>7, <3>1, ValidBefore DEF Kept
    <2> QED BY <2>1 DEF ValidTo
  <1>11. ASSUME NEW t \in Slot PROVE Mine(p, t)' = Mine(p, t)
    BY <1>1, <1>2, <1>3, <1>6, SlotFacts DEF Mine, Is, InPlace, Placed, HasIp, HasDp, Waiting, IpLocked, DpLocked
  <1>12. StepTo(p, icache')
    BY <1>1, <1>3, <1>5, <1>7, <1>8, <1>9, <1>10 DEF StepTo
  <1> QED BY <1>11, <1>12, StayStep

\* The name exists: create takes a reference to its inode, and gives the parent up.
LEMMA CreateFinds ==
  ASSUME CacheInv, NEW p \in Proc, NEW s \in Slot, s = dp[p], Ready(p, "parent"), Lockable(s),
         call[p].op # "link", NEW i \in Inum, IgetSlot(Use(s), i) # NoSlot, icache' = iget(Use(s), i),
         ip' = [ip EXCEPT ![p] = IgetSlot(Use(s), i)], PutDp(p), Goto(p, "exists"),
         UNCHANGED << disk, files, call, rest, held, freeing, ghosts >>
  PROVE  Ordinary(p)
  <1>1. /\ puts[p] = << >> /\ pc[p] = "parent" /\ freeing[p] = "no"
        /\ \A t : ~Put1(p, t) /\ ~Put2(p, t) /\ ~Frees(p, t)
    BY ReadyFacts
  <1>2. /\ Typed /\ Placed(p) /\ LocalsTyped(p) /\ DiskTyped /\ lost \subseteq Inum
    BY TypedFacts DEF CacheInv
  <1>3. /\ UNCHANGED << dinode, dir, cwd, fd, call, rest, held, freeing, lost >> /\ Moves(p)
        /\ puts'[p] = << s >> /\ ip'[p] = IgetSlot(Use(s), i) /\ dp'[p] = NoSlot
        /\ pc'[p] = "exists" /\ held[p] = NoSlot
    BY <1>1, <1>2 DEF Typed, disk, files, locals, ghosts, Moves, Goto, Put, PutDp, Placed, InPlace
  <1>a. Use(s)[s].type # "none" /\ Lock(s)[s].type # "none"
    BY <1>1, ParentLoads DEF Lockable
  <1>b. IgetSlot(Use(s), i) \in Slot
    <2>1. Use(s) \in Caches
      BY <1>1, <1>3, <1>a, UseTo DEF Has, Lockable
    <2> QED BY <2>1, IgetSlotFacts
  <1>4. puts'[p] \in Seq(Slot) /\ PutsShort(p)'
    BY <1>1, <1>2, <1>3, <1>b, PutsShortThen DEF LocalsTyped
  <1>5. LocalsTyped(p)' /\ DiskTyped' /\ lost' \subseteq Inum /\ Placed(p)'
    <2>1. LocalsTyped(p)'
      BY <1>1, <1>2, <1>3, <1>4, <1>b DEF LocalsTyped, Labels, HasIp, HasDp, Waiting, IpLocked, DpLocked
    <2>2. DiskTyped' /\ lost' \subseteq Inum
      BY <1>2, <1>3 DEF DiskTyped
    <2>3. InPlace(p)'
      BY <1>1, <1>2, <1>3, SlotFacts, <1>b DEF Placed, InPlace, LocalsTyped, HasIp, HasDp, Waiting, IpLocked, DpLocked
    <2> QED BY <1>4, <2>1, <2>2, <2>3 DEF Placed
  <1>6. ASSUME NEW t \in Slot
        PROVE  /\ (Put1(p, t)' <=> t = s) /\ ~Put2(p, t)'
               /\ ~Frees(p, t)'
    BY <1>1, <1>3, PutsFactsThen DEF Frees
  <1>7. /\ Use(s) \in Caches /\ Kept(Use(s)) /\ Right(Use(s)) /\ TypesStay
        /\ icache[s].ref > 0 /\ ~icache[s].busy /\ Use(s)[s].valid
        /\ \A t \in Slot : Use(s)[t].busy = icache[t].busy
        /\ dinode[icache[s].inum].type # "none" /\ icache[s].inum \in Inum
    BY <1>1, <1>3, <1>a, UseTo DEF Has, Lockable
  <1>8. BusyTo(p, Use(s))
    <2>1. ASSUME NEW t \in Slot, Holds(p, t) PROVE icache[t].busy
      BY <2>1 DEF CacheInv, LocksRight
    <2> QED BY <1>1, <1>2, <1>3, <1>6, <1>7, <2>1 DEF BusyTo, Holds, InPlace, Placed, HasIp, HasDp, Waiting, IpLocked, DpLocked
  <1>9. SettledTo(p)
    <2>1. ASSUME NEW t \in Slot, t # s, Settles(p, t)' PROVE Settles(p, t)
      BY <1>1, <1>2, <1>3, <1>6, <2>1, SlotFacts, <1>b DEF Settles, Keeps, InPlace, Placed, HasIp, HasDp, Waiting, IpLocked, DpLocked
    <2>2. Has(p, s) /\ dinode'[icache[s].inum].type # "none" /\ (Holds(p, s) \/ ~icache[s].busy)
      BY <1>1, <1>3, <1>7 DEF Has, Holds
    <2> QED BY <2>1, <2>2, SettledByLock
  <1>10. ValidTo(p, Use(s))
    <2>1. ASSUME NEW t \in Slot,
                 (dp[p] = t \/ held[p] = t \/ (ip[p] = t /\ pc[p] \in IpLocked))'
          PROVE  Use(s)[t].valid /\ Use(s)[t].ref > 0
      <3>1. dp[p] = t \/ held[p] = t \/ (ip[p] = t /\ pc[p] \in IpLocked)
        BY <1>1, <1>2, <1>3, <2>1, SlotFacts DEF InPlace, Placed, HasIp, HasDp, Waiting, IpLocked, DpLocked
      <3> QED BY <1>7, <3>1, ValidBefore DEF Kept
    <2> QED BY <2>1 DEF ValidTo
  <1>11. ASSUME NEW t \in Slot PROVE Mine(p, t)' = Mine(p, t) + Is(t = IgetSlot(Use(s), i))
    BY <1>1, <1>2, <1>3, <1>6, <1>b, SlotFacts DEF Mine, Is, InPlace, Placed, HasIp, HasDp, Waiting, IpLocked, DpLocked
  <1>12. StepTo(p, Use(s))
    BY <1>1, <1>3, <1>5, <1>7, <1>8, <1>9, <1>10 DEF StepTo
  <1> QED BY <1>11, <1>12, IgetStep

\* The name is free: create keeps the parent locked.
LEMMA CreateLocks ==
  ASSUME CacheInv, NEW p \in Proc, NEW s \in Slot, s = dp[p], Ready(p, "parent"), Lockable(s),
         call[p].op # "link", icache' = Lock(s), Goto(p, "ialloc"),
         UNCHANGED << disk, files, locals, puts, freeing, ghosts >>
  PROVE  Ordinary(p)
  <1>1. /\ puts[p] = << >> /\ pc[p] = "parent" /\ freeing[p] = "no"
        /\ \A t : ~Put1(p, t) /\ ~Put2(p, t) /\ ~Frees(p, t)
    BY ReadyFacts
  <1>2. /\ Typed /\ Placed(p) /\ LocalsTyped(p) /\ DiskTyped /\ lost \subseteq Inum
    BY TypedFacts DEF CacheInv
  <1>3. /\ UNCHANGED << dinode, dir, cwd, fd, call, rest, ip, dp, held, puts, freeing, lost >>
        /\ Moves(p) /\ pc'[p] = "ialloc" /\ held[p] = NoSlot
    BY <1>1, <1>2 DEF Typed, disk, files, locals, ghosts, Moves, Goto, Placed, InPlace
  <1>a. Use(s)[s].type # "none" /\ Lock(s)[s].type # "none"
    BY <1>1, ParentLoads DEF Lockable
  <1>4. puts'[p] \in Seq(Slot) /\ PutsShort(p)'
    BY <1>1, <1>2, <1>3, PutsShortThen DEF LocalsTyped
  <1>5. LocalsTyped(p)' /\ DiskTyped' /\ lost' \subseteq Inum /\ Placed(p)'
    <2>1. LocalsTyped(p)'
      BY <1>1, <1>2, <1>3, <1>4 DEF LocalsTyped, Labels, HasIp, HasDp, Waiting, IpLocked, DpLocked
    <2>2. DiskTyped' /\ lost' \subseteq Inum
      BY <1>2, <1>3 DEF DiskTyped
    <2>3. InPlace(p)'
      BY <1>1, <1>2, <1>3, SlotFacts DEF Placed, InPlace, LocalsTyped, HasIp, HasDp, Waiting, IpLocked, DpLocked
    <2> QED BY <1>4, <2>1, <2>2, <2>3 DEF Placed
  <1>6. ASSUME NEW t \in Slot
        PROVE  /\ ~Put1(p, t)' /\ ~Put2(p, t)'
               /\ ~Frees(p, t)'
    BY <1>1, <1>3, PutsFactsThen DEF Frees
  <1>7. /\ icache' \in Caches /\ Kept(icache') /\ Right(icache') /\ TypesStay
        /\ icache[s].ref > 0 /\ ~icache[s].busy /\ icache'[s].valid
        /\ \A t \in Slot : icache'[t].busy <=> t = s \/ icache[t].busy
        /\ dinode[icache[s].inum].type # "none" /\ icache[s].inum \in Inum
    BY <1>1, <1>3, <1>a, LockTo DEF Has, Lockable
  <1>8. BusyTo(p, icache')
    <2>1. ASSUME NEW t \in Slot, Holds(p, t) PROVE icache[t].busy
      BY <2>1 DEF CacheInv, LocksRight
    <2> QED BY <1>1, <1>2, <1>3, <1>6, <1>7, <2>1 DEF BusyTo, Holds, InPlace, Placed, HasIp, HasDp, Waiting, IpLocked, DpLocked
  <1>9. SettledTo(p)
    BY <1>1, <1>2, <1>3, <1>6, <1>7, SlotFacts DEF SettledTo, Settles, Keeps, InPlace, Placed, HasIp, HasDp, Waiting, IpLocked, DpLocked
  <1>10. ValidTo(p, icache')
    <2>1. ASSUME NEW t \in Slot,
                 (dp[p] = t \/ held[p] = t \/ (ip[p] = t /\ pc[p] \in IpLocked))'
          PROVE  icache'[t].valid /\ icache'[t].ref > 0
      <3>1. dp[p] = t \/ held[p] = t \/ (ip[p] = t /\ pc[p] \in IpLocked)
        BY <1>1, <1>2, <1>3, <2>1, SlotFacts DEF InPlace, Placed, HasIp, HasDp, Waiting, IpLocked, DpLocked
      <3> QED BY <1>7, <3>1, ValidBefore DEF Kept
    <2> QED BY <2>1 DEF ValidTo
  <1>11. ASSUME NEW t \in Slot PROVE Mine(p, t)' = Mine(p, t)
    BY <1>1, <1>2, <1>3, <1>6, SlotFacts DEF Mine, Is, InPlace, Placed, HasIp, HasDp, Waiting, IpLocked, DpLocked
  <1>12. StepTo(p, icache')
    BY <1>1, <1>3, <1>5, <1>7, <1>8, <1>9, <1>10 DEF StepTo
  <1> QED BY <1>11, <1>12, StayStep

\* ialloc: no slot of the inode's number is valid, but for the one of a free behind iupdate.
LEMMA iallocOrdinary ==
  ASSUME CacheInv, NEW p \in Proc, Ready(p, "ialloc"), NEW i \in Inum, dinode[i].type = "none",
         NEW ty \in {"T_DIR", "T_FILE"}, dinode' = [dinode EXCEPT ![i] = [type |-> ty, nlink |-> 0]],
         IgetSlot(icache, i) # NoSlot, icache' = iget(icache, i),
         ip' = [ip EXCEPT ![p] = IgetSlot(icache, i)], Goto(p, "inew"),
         UNCHANGED << dir, files, call, rest, dp, held, puts, freeing, ghosts >>
  PROVE  Ordinary(p)
  <1>1. /\ puts[p] = << >> /\ pc[p] = "ialloc" /\ freeing[p] = "no"
        /\ \A t : ~Put1(p, t) /\ ~Put2(p, t) /\ ~Frees(p, t)
    BY ReadyFacts
  <1>2. /\ Typed /\ Placed(p) /\ LocalsTyped(p) /\ DiskTyped /\ lost \subseteq Inum
    BY TypedFacts DEF CacheInv
  <1>3. /\ UNCHANGED << dir, cwd, fd, call, rest, dp, held, puts, freeing, lost >>
        /\ Moves(p) /\ pc'[p] = "inew" /\ ip'[p] = IgetSlot(icache, i)
    BY <1>1, <1>2 DEF Typed, disk, files, locals, ghosts, Moves, Goto
  <1>a. IgetSlot(icache, i) \in Slot
    BY IgetSlotFacts, KeptNow
  <1>4. puts'[p] \in Seq(Slot) /\ PutsShort(p)'
    BY <1>1, <1>2, <1>3, <1>a, PutsShortThen DEF LocalsTyped
  <1>5. LocalsTyped(p)' /\ DiskTyped' /\ lost' \subseteq Inum /\ Placed(p)'
    <2>1. LocalsTyped(p)'
      BY <1>1, <1>2, <1>3, <1>4, <1>a DEF LocalsTyped, Labels, HasIp, HasDp, Waiting, IpLocked, DpLocked
    <2>2. DiskTyped' /\ lost' \subseteq Inum
      <3>1. [type |-> ty, nlink |-> 0] \in [type : Types, nlink : Int]
        BY DEF Types
      <3> QED BY <1>2, <1>3, <3>1 DEF DiskTyped
    <2>3. InPlace(p)'
      BY <1>1, <1>2, <1>3, SlotFacts, <1>a DEF Placed, InPlace, LocalsTyped, HasIp, HasDp, Waiting, IpLocked, DpLocked
    <2> QED BY <1>4, <2>1, <2>2, <2>3 DEF Placed
  <1>6. ASSUME NEW t \in Slot
        PROVE  /\ ~Put1(p, t)' /\ ~Put2(p, t)'
               /\ ~Frees(p, t)'
    BY <1>1, <1>3, PutsFactsThen DEF Frees
  <1>7. icache \in Caches /\ Kept(icache) /\ Right(icache) /\ TypesStay
    <2>1. ASSUME NEW t \in Slot, icache[t].ref > 0, icache[t].valid
          PROVE  \/ LET d == dinode'[icache[t].inum] IN
                      d.type = icache[t].type /\ d.nlink = icache[t].nlink /\ d.type # "none"
                 \/ \E q \in Proc : DoneWith(q, t)
      <3>1. CASE Match(t)
        <4>1. icache[t].inum # i /\ icache[t].inum \in Inum
          BY <2>1, <3>1 DEF Match, CacheInv, NumbersRight
        <4> QED BY <1>2, <3>1, <4>1 DEF Match, DiskTyped
      <3> QED BY <2>1, <3>1 DEF CacheInv, Copied
    <2>2. Right(icache)
      BY <2>1 DEF Right
    <2>3. TypesStay
      BY <1>2 DEF DiskTyped, TypesStay
    <2> QED BY <2>2, <2>3, KeptNow
  <1>8. BusyTo(p, icache)
    <2>1. ASSUME NEW t \in Slot, Holds(p, t) PROVE icache[t].busy
      BY <2>1 DEF CacheInv, LocksRight
    <2> QED BY <1>1, <1>2, <1>3, <1>6, <1>7, <2>1 DEF BusyTo, Holds, InPlace, Placed, HasIp, HasDp, Waiting, IpLocked, DpLocked
  <1>9. SettledTo(p)
    BY <1>1, <1>2, <1>3, <1>6, <1>7, SlotFacts, <1>a DEF SettledTo, Settles, Keeps, InPlace, Placed, HasIp, HasDp, Waiting, IpLocked, DpLocked
  <1>10. ValidTo(p, icache)
    <2>1. ASSUME NEW t \in Slot,
                 (dp[p] = t \/ held[p] = t \/ (ip[p] = t /\ pc[p] \in IpLocked))'
          PROVE  icache[t].valid /\ icache[t].ref > 0
      <3>1. dp[p] = t \/ held[p] = t \/ (ip[p] = t /\ pc[p] \in IpLocked)
        BY <1>1, <1>2, <1>3, <2>1, SlotFacts DEF InPlace, Placed, HasIp, HasDp, Waiting, IpLocked, DpLocked
      <3> QED BY <1>7, <3>1, ValidBefore DEF Kept
    <2> QED BY <2>1 DEF ValidTo
  <1>11. ASSUME NEW t \in Slot PROVE Mine(p, t)' = Mine(p, t) + Is(t = IgetSlot(icache, i))
    BY <1>1, <1>2, <1>3, <1>6, <1>a, SlotFacts DEF Mine, Is, InPlace, Placed, HasIp, HasDp, Waiting, IpLocked, DpLocked
  <1>12. StepTo(p, icache)
    BY <1>1, <1>3, <1>5, <1>7, <1>8, <1>9, <1>10 DEF StepTo
  <1> QED BY <1>11, <1>12, IgetStep

\* The new inode is locked, and gets its first link.
LEMMA CreateInodeOrdinary ==
  ASSUME CacheInv, NEW p \in Proc, NEW s \in Slot, s = ip[p], Ready(p, "inew"), Lockable(s),
         NEW c, c = SetLink(Lock(s), s), c[s].type # "none", icache' = c, iupdate(c, s),
         Goto(p, IF call[p].op = "mkdir" THEN "dots" ELSE "enter"),
         UNCHANGED << dir, files, locals, puts, freeing, ghosts >>
  PROVE  Ordinary(p)
  <1>1. /\ puts[p] = << >> /\ pc[p] = "inew" /\ freeing[p] = "no"
        /\ \A t : ~Put1(p, t) /\ ~Put2(p, t) /\ ~Frees(p, t)
    BY ReadyFacts
  <1>2. /\ Typed /\ Placed(p) /\ LocalsTyped(p) /\ DiskTyped /\ lost \subseteq Inum
    BY TypedFacts DEF CacheInv
  <1>3. /\ UNCHANGED << dir, cwd, fd, call, rest, ip, dp, held, puts, freeing, lost >>
        /\ Moves(p) /\ pc'[p] \in {"dots", "enter"}
    BY <1>1, <1>2 DEF Typed, disk, files, locals, ghosts, Moves, Goto
  <1>a. /\ icache' \in Caches /\ Kept(icache') /\ Right(icache') /\ TypesStay /\ icache'[s].valid
        /\ icache[s].ref > 0 /\ ~icache[s].busy
        /\ \A t \in Slot : icache'[t].busy <=> t = s \/ icache[t].busy
        /\ dinode'[icache[s].inum].type # "none" /\ s # dp[p]
        /\ dinode' \in [Inum -> [type : Types, nlink : Int]]
    <2>1. Has(p, s)
      BY DEF Has
    <2>2. s # dp[p] /\ ~icache[s].busy
      BY <1>1 DEF Lockable, CacheInv, LocksRight, Holds, DpLocked
    <2>3. Lock(s)[s].type # "none"
      <3>1. icache[s].inum \in Inum
        BY <2>1, Taken DEF CacheInv, NumbersRight
      <3>2. Lock(s) \in Caches
        BY <3>1, LockFacts DEF CacheInv
      <3> QED BY <3>2, SetLinkFacts
    <2>4. /\ Lock(s) \in Caches /\ Kept(Lock(s)) /\ Lock(s)[s].valid /\ icache[s].ref > 0
          /\ \A t \in Slot : Lock(s)[t].busy <=> t = s \/ icache[t].busy
          /\ \A t \in Slot : t # s => Lock(s)[t] = icache[t]
          /\ dinode[icache[s].inum].type = Lock(s)[s].type
      BY <1>1, <2>1, <2>2, <2>3, LockTo
    <2>5. /\ c \in Caches /\ Kept(c) /\ Right(c) /\ TypesStay
          /\ \A t \in Slot : c[t].busy = Lock(s)[t].busy /\ c[t].valid = Lock(s)[t].valid
          /\ dinode' \in [Inum -> [type : Types, nlink : Int]]
          /\ dinode'[icache[s].inum].type # "none"
      BY <2>3, <2>4, SetLinkTo
    <2> QED BY <2>2, <2>4, <2>5
  <1>4. puts'[p] \in Seq(Slot) /\ PutsShort(p)'
    BY <1>1, <1>2, <1>3, PutsShortThen DEF LocalsTyped
  <1>5. LocalsTyped(p)' /\ DiskTyped' /\ lost' \subseteq Inum /\ Placed(p)'
    <2>1. LocalsTyped(p)'
      BY <1>1, <1>2, <1>3, <1>4 DEF LocalsTyped, Labels, HasIp, HasDp, Waiting, IpLocked, DpLocked
    <2>2. DiskTyped' /\ lost' \subseteq Inum
      BY <1>2, <1>3, <1>a DEF DiskTyped
    <2>3. InPlace(p)'
      BY <1>1, <1>2, <1>3, SlotFacts, <1>a DEF Placed, InPlace, LocalsTyped, HasIp, HasDp, Waiting, IpLocked, DpLocked
    <2> QED BY <1>4, <2>1, <2>2, <2>3 DEF Placed
  <1>6. ASSUME NEW t \in Slot
        PROVE  /\ ~Put1(p, t)' /\ ~Put2(p, t)'
               /\ ~Frees(p, t)'
    BY <1>1, <1>3, PutsFactsThen DEF Frees
  <1>7. /\ icache' \in Caches /\ Kept(icache') /\ Right(icache') /\ TypesStay /\ icache'[s].valid
        /\ icache[s].ref > 0 /\ ~icache[s].busy
        /\ \A t \in Slot : icache'[t].busy <=> t = s \/ icache[t].busy
        /\ dinode'[icache[s].inum].type # "none" /\ s # dp[p]
    BY <1>a
  <1>8. BusyTo(p, icache')
    <2>1. ASSUME NEW t \in Slot, Holds(p, t) PROVE icache[t].busy
      BY <2>1 DEF CacheInv, LocksRight
    <2> QED BY <1>1, <1>2, <1>3, <1>6, <1>7, <2>1 DEF BusyTo, Holds, InPlace, Placed, HasIp, HasDp, Waiting, IpLocked, DpLocked
  <1>9. SettledTo(p)
    <2>1. ASSUME NEW t \in Slot, t # s, Settles(p, t)' PROVE Settles(p, t)
      BY <1>1, <1>2, <1>3, <1>6, <2>1, SlotFacts DEF Settles, Keeps, InPlace, Placed, HasIp, HasDp, Waiting, IpLocked, DpLocked
    <2>2. Has(p, s) /\ dinode'[icache[s].inum].type # "none" /\ (Holds(p, s) \/ ~icache[s].busy)
      BY <1>1, <1>3, <1>7 DEF Has, Holds
    <2> QED BY <2>1, <2>2, SettledByLock
  <1>10. ValidTo(p, icache')
    <2>1. ASSUME NEW t \in Slot,
                 (dp[p] = t \/ held[p] = t \/ (ip[p] = t /\ pc[p] \in IpLocked))'
          PROVE  icache'[t].valid /\ icache'[t].ref > 0
      <3>1. dp[p] = t \/ held[p] = t \/ (ip[p] = t /\ pc[p] \in IpLocked) \/ t = s
        BY <1>1, <1>2, <1>3, <2>1, SlotFacts DEF InPlace, Placed, HasIp, HasDp, Waiting, IpLocked, DpLocked
      <3> QED BY <1>7, <3>1, ValidBefore DEF Kept
    <2> QED BY <2>1 DEF ValidTo
  <1>11. ASSUME NEW t \in Slot PROVE Mine(p, t)' = Mine(p, t)
    BY <1>1, <1>2, <1>3, <1>6, SlotFacts DEF Mine, Is, InPlace, Placed, HasIp, HasDp, Waiting, IpLocked, DpLocked
  <1>12. StepTo(p, icache')
    BY <1>1, <1>3, <1>5, <1>7, <1>8, <1>9, <1>10 DEF StepTo
  <1> QED BY <1>11, <1>12, StayStep

\* The parent\'s count takes the new directory\'s "..".
LEMMA DotsOrdinary ==
  ASSUME CacheInv, NEW p \in Proc, NEW s \in Slot, s = dp[p], Ready(p, "dots"), NEW c, c = AddLink(icache, s, Dotdot),
         icache' = c, iupdate(c, s), Goto(p, "dotdot"),
         UNCHANGED << dir, files, locals, puts, freeing, ghosts >>
  PROVE  Ordinary(p)
  <1>1. /\ puts[p] = << >> /\ pc[p] = "dots" /\ freeing[p] = "no"
        /\ \A t : ~Put1(p, t) /\ ~Put2(p, t) /\ ~Frees(p, t)
    BY ReadyFacts
  <1>2. /\ Typed /\ Placed(p) /\ LocalsTyped(p) /\ DiskTyped /\ lost \subseteq Inum
    BY TypedFacts DEF CacheInv
  <1>3. /\ UNCHANGED << dir, cwd, fd, call, rest, ip, dp, held, puts, freeing, lost >>
        /\ Moves(p) /\ pc'[p] = "dotdot" 
    BY <1>1, <1>2 DEF Typed, disk, files, locals, ghosts, Moves, Goto
  <1>a. /\ icache' \in Caches /\ Kept(icache') /\ Right(icache') /\ TypesStay
        /\ \A t \in Slot : icache'[t].busy = icache[t].busy
        /\ dinode' \in [Inum -> [type : Types, nlink : Int]]
    <2>1. icache \in Caches /\ Kept(icache)
      BY KeptNow
    <2>2. /\ icache[s].ref > 0 /\ icache[s].type # "none"
          /\ dinode[icache[s].inum].type = icache[s].type
      <3>1. icache[s].valid /\ Has(p, s) /\ Holds(p, s)
        BY <1>1, ValidBefore DEF Has, Holds, IpLocked, DpLocked
      <3> QED BY <1>1, <3>1, LockedMatches
    <2>3. Dotdot \in Int
      BY DEF Dotdot
    <2> QED BY <2>1, <2>2, <2>3, AddLinkTo
  <1>4. puts'[p] \in Seq(Slot) /\ PutsShort(p)'
    BY <1>1, <1>2, <1>3, PutsShortThen DEF LocalsTyped
  <1>5. LocalsTyped(p)' /\ DiskTyped' /\ lost' \subseteq Inum /\ Placed(p)'
    <2>1. LocalsTyped(p)'
      BY <1>1, <1>2, <1>3, <1>4 DEF LocalsTyped, Labels, HasIp, HasDp, Waiting, IpLocked, DpLocked
    <2>2. DiskTyped' /\ lost' \subseteq Inum
      BY <1>2, <1>3, <1>a DEF DiskTyped
    <2>3. InPlace(p)'
      BY <1>1, <1>2, <1>3, SlotFacts DEF Placed, InPlace, LocalsTyped, HasIp, HasDp, Waiting, IpLocked, DpLocked
    <2> QED BY <1>4, <2>1, <2>2, <2>3 DEF Placed
  <1>6. ASSUME NEW t \in Slot
        PROVE  /\ ~Put1(p, t)' /\ ~Put2(p, t)'
               /\ ~Frees(p, t)'
    BY <1>1, <1>3, PutsFactsThen DEF Frees
  <1>7. /\ icache' \in Caches /\ Kept(icache') /\ Right(icache') /\ TypesStay /\ \A t \in Slot : icache'[t].busy = icache[t].busy
    BY <1>a
  <1>8. BusyTo(p, icache')
    <2>1. ASSUME NEW t \in Slot, Holds(p, t) PROVE icache[t].busy
      BY <2>1 DEF CacheInv, LocksRight
    <2> QED BY <1>1, <1>2, <1>3, <1>6, <1>7, <2>1 DEF BusyTo, Holds, InPlace, Placed, HasIp, HasDp, Waiting, IpLocked, DpLocked
  <1>9. SettledTo(p)
    BY <1>1, <1>2, <1>3, <1>6, <1>7, SlotFacts DEF SettledTo, Settles, Keeps, InPlace, Placed, HasIp, HasDp, Waiting, IpLocked, DpLocked
  <1>10. ValidTo(p, icache')
    <2>1. ASSUME NEW t \in Slot,
                 (dp[p] = t \/ held[p] = t \/ (ip[p] = t /\ pc[p] \in IpLocked))'
          PROVE  icache'[t].valid /\ icache'[t].ref > 0
      <3>1. dp[p] = t \/ held[p] = t \/ (ip[p] = t /\ pc[p] \in IpLocked)
        BY <1>1, <1>2, <1>3, <2>1, SlotFacts DEF InPlace, Placed, HasIp, HasDp, Waiting, IpLocked, DpLocked
      <3> QED BY <1>7, <3>1, ValidBefore DEF Kept
    <2> QED BY <2>1 DEF ValidTo
  <1>11. ASSUME NEW t \in Slot PROVE Mine(p, t)' = Mine(p, t)
    BY <1>1, <1>2, <1>3, <1>6, SlotFacts DEF Mine, Is, InPlace, Placed, HasIp, HasDp, Waiting, IpLocked, DpLocked
  <1>12. StepTo(p, icache')
    BY <1>1, <1>3, <1>5, <1>7, <1>8, <1>9, <1>10 DEF StepTo
  <1> QED BY <1>11, <1>12, StayStep

\* ".." is written.
LEMMA DotdotOrdinary ==
  ASSUME CacheInv, NEW p \in Proc, Ready(p, "dotdot"), NEW i \in Inum, NEW j \in Inum, EnterName(i, "..", j),
         Goto(p, "enter"), UNCHANGED << dinode, icache, files, locals, puts, freeing, ghosts >>
  PROVE  Ordinary(p)
  <1>1. /\ puts[p] = << >> /\ pc[p] = "dotdot" /\ freeing[p] = "no"
        /\ \A t : ~Put1(p, t) /\ ~Put2(p, t) /\ ~Frees(p, t)
    BY ReadyFacts
  <1>2. /\ Typed /\ Placed(p) /\ LocalsTyped(p) /\ DiskTyped /\ lost \subseteq Inum
    BY TypedFacts DEF CacheInv
  <1>3. /\ UNCHANGED << dinode, icache, cwd, fd, call, rest, ip, dp, held, puts, freeing, lost >>
        /\ Moves(p) /\ pc'[p] = "enter" 
    BY <1>1, <1>2 DEF Typed, disk, files, locals, ghosts, Moves, Goto
  <1>b. ".." \in Names
    BY DEF Names
  <1>4. puts'[p] \in Seq(Slot) /\ PutsShort(p)'
    BY <1>1, <1>2, <1>3, PutsShortThen DEF LocalsTyped
  <1>5. LocalsTyped(p)' /\ DiskTyped' /\ lost' \subseteq Inum /\ Placed(p)'
    <2>1. LocalsTyped(p)'
      BY <1>1, <1>2, <1>3, <1>4 DEF LocalsTyped, Labels, HasIp, HasDp, Waiting, IpLocked, DpLocked
    <2>2. DiskTyped' /\ lost' \subseteq Inum
      <3>1. dir' \in [Inum -> [Names -> Inum \cup {None}]]
        BY <1>2, <1>3, <1>b DEF DiskTyped, EnterName
      <3> QED BY <1>2, <1>3, <3>1 DEF DiskTyped
    <2>3. InPlace(p)'
      BY <1>1, <1>2, <1>3, SlotFacts DEF Placed, InPlace, LocalsTyped, HasIp, HasDp, Waiting, IpLocked, DpLocked
    <2> QED BY <1>4, <2>1, <2>2, <2>3 DEF Placed
  <1>6. ASSUME NEW t \in Slot
        PROVE  /\ ~Put1(p, t)' /\ ~Put2(p, t)'
               /\ ~Frees(p, t)'
    BY <1>1, <1>3, PutsFactsThen DEF Frees
  <1>7. /\ icache' \in Caches /\ Kept(icache') /\ Right(icache') /\ TypesStay
    BY <1>3, SameTo
  <1>8. BusyTo(p, icache')
    <2>1. ASSUME NEW t \in Slot, Holds(p, t) PROVE icache[t].busy
      BY <2>1 DEF CacheInv, LocksRight
    <2> QED BY <1>1, <1>2, <1>3, <1>6, <1>7, <2>1 DEF BusyTo, Holds, InPlace, Placed, HasIp, HasDp, Waiting, IpLocked, DpLocked
  <1>9. SettledTo(p)
    BY <1>1, <1>2, <1>3, <1>6, <1>7, SlotFacts DEF SettledTo, Settles, Keeps, InPlace, Placed, HasIp, HasDp, Waiting, IpLocked, DpLocked
  <1>10. ValidTo(p, icache')
    <2>1. ASSUME NEW t \in Slot,
                 (dp[p] = t \/ held[p] = t \/ (ip[p] = t /\ pc[p] \in IpLocked))'
          PROVE  icache'[t].valid /\ icache'[t].ref > 0
      <3>1. dp[p] = t \/ held[p] = t \/ (ip[p] = t /\ pc[p] \in IpLocked)
        BY <1>1, <1>2, <1>3, <2>1, SlotFacts DEF InPlace, Placed, HasIp, HasDp, Waiting, IpLocked, DpLocked
      <3> QED BY <1>7, <3>1, ValidBefore DEF Kept
    <2> QED BY <2>1 DEF ValidTo
  <1>11. ASSUME NEW t \in Slot PROVE Mine(p, t)' = Mine(p, t)
    BY <1>1, <1>2, <1>3, <1>6, SlotFacts DEF Mine, Is, InPlace, Placed, HasIp, HasDp, Waiting, IpLocked, DpLocked
  <1>12. StepTo(p, icache')
    BY <1>1, <1>3, <1>5, <1>7, <1>8, <1>9, <1>10 DEF StepTo
  <1> QED BY <1>11, <1>12, StayStep

\* The name is written, and the parent given up.
LEMMA EnterOrdinary ==
  ASSUME CacheInv, NEW p \in Proc, NEW s \in Slot, s = dp[p], Ready(p, "enter"), NEW i \in Inum, NEW j \in Inum,
         EnterName(i, LastName(p), j), icache' = Unlock(s), PutDp(p), Goto(p, "made"),
         UNCHANGED << dinode, files, call, rest, ip, held, freeing, ghosts >>
  PROVE  Ordinary(p)
  <1>1. /\ puts[p] = << >> /\ pc[p] = "enter" /\ freeing[p] = "no"
        /\ \A t : ~Put1(p, t) /\ ~Put2(p, t) /\ ~Frees(p, t)
    BY ReadyFacts
  <1>2. /\ Typed /\ Placed(p) /\ LocalsTyped(p) /\ DiskTyped /\ lost \subseteq Inum
    BY TypedFacts DEF CacheInv
  <1>3. /\ UNCHANGED << dinode, cwd, fd, call, rest, ip, held, freeing, lost >>
        /\ Moves(p) /\ pc'[p] = "made" /\ puts'[p] = << s >> /\ dp'[p] = NoSlot
    BY <1>1, <1>2 DEF Typed, disk, files, locals, ghosts, Moves, Goto, Put, PutDp
  <1>a. ip[p] # s /\ ip[p] \in Slot /\ icache[s].busy /\ icache[ip[p]].busy
    BY <1>1, <1>2 DEF Placed, InPlace, LocalsTyped, HasIp, IpLocked, DpLocked, CacheInv, LocksRight, Holds
  <1>b. LastName(p) \in Names
    BY <1>1, <1>2, LastFacts DEF LastName, LocalsTyped, Placed, InPlace, HasDp, DpLocked
  <1>4. puts'[p] \in Seq(Slot) /\ PutsShort(p)'
    BY <1>1, <1>2, <1>3, PutsShortThen DEF LocalsTyped
  <1>5. LocalsTyped(p)' /\ DiskTyped' /\ lost' \subseteq Inum /\ Placed(p)'
    <2>1. LocalsTyped(p)'
      BY <1>1, <1>2, <1>3, <1>4 DEF LocalsTyped, Labels, HasIp, HasDp, Waiting, IpLocked, DpLocked
    <2>2. DiskTyped' /\ lost' \subseteq Inum
      <3>1. dir' \in [Inum -> [Names -> Inum \cup {None}]]
        BY <1>2, <1>3, <1>b DEF DiskTyped, EnterName
      <3> QED BY <1>2, <1>3, <3>1 DEF DiskTyped
    <2>3. InPlace(p)'
      BY <1>1, <1>2, <1>3, SlotFacts DEF Placed, InPlace, LocalsTyped, HasIp, HasDp, Waiting, IpLocked, DpLocked
    <2> QED BY <1>4, <2>1, <2>2, <2>3 DEF Placed
  <1>6. ASSUME NEW t \in Slot
        PROVE  /\ (Put1(p, t)' <=> t = s) /\ ~Put2(p, t)'
               /\ ~Frees(p, t)'
    BY <1>1, <1>3, PutsFactsThen DEF Frees
  <1>7. /\ icache' \in Caches /\ Kept(icache') /\ Right(icache') /\ TypesStay
        /\ \A t \in Slot : icache'[t].busy <=> t # s /\ icache[t].busy
        /\ ip[p] # s /\ ip[p] \in Slot /\ icache[s].busy /\ icache[ip[p]].busy
    BY <1>3, <1>a, UnlockTo
  <1>8. BusyTo(p, icache')
    <2>1. ASSUME NEW t \in Slot, Holds(p, t) PROVE icache[t].busy
      BY <2>1 DEF CacheInv, LocksRight
    <2> QED BY <1>1, <1>2, <1>3, <1>6, <1>7, <2>1 DEF BusyTo, Holds, InPlace, Placed, HasIp, HasDp, Waiting, IpLocked, DpLocked
  <1>9. SettledTo(p)
    BY <1>1, <1>2, <1>3, <1>6, <1>7, SlotFacts DEF SettledTo, Settles, Keeps, InPlace, Placed, HasIp, HasDp, Waiting, IpLocked, DpLocked
  <1>10. ValidTo(p, icache')
    <2>1. ASSUME NEW t \in Slot,
                 (dp[p] = t \/ held[p] = t \/ (ip[p] = t /\ pc[p] \in IpLocked))'
          PROVE  icache'[t].valid /\ icache'[t].ref > 0
      <3>1. dp[p] = t \/ held[p] = t \/ (ip[p] = t /\ pc[p] \in IpLocked)
        BY <1>1, <1>2, <1>3, <2>1, SlotFacts DEF InPlace, Placed, HasIp, HasDp, Waiting, IpLocked, DpLocked
      <3> QED BY <1>7, <3>1, ValidBefore DEF Kept
    <2> QED BY <2>1 DEF ValidTo
  <1>11. ASSUME NEW t \in Slot PROVE Mine(p, t)' = Mine(p, t)
    <2>1. /\ dp[p] = s /\ dp'[p] = NoSlot /\ t # NoSlot
          /\ cwd'[p] = cwd[p] /\ fd'[p] = fd[p] /\ ip'[p] = ip[p] /\ held'[p] = held[p]
      BY <1>3, SlotFacts
    <2>2. /\ ~Put1(p, t) /\ ~Put2(p, t) /\ (Put1(p, t)' <=> t = s) /\ ~Put2(p, t)'
      BY <1>1, <1>6
    <2> QED BY <2>1, <2>2 DEF Mine, Is
  <1>12. StepTo(p, icache')
    BY <1>1, <1>3, <1>5, <1>7, <1>8, <1>9, <1>10 DEF StepTo
  <1> QED BY <1>11, <1>12, StayStep

\* create returns: the new inode is unlocked, and kept or put.
LEMMA MadeOrdinary ==
  ASSUME CacheInv, NEW p \in Proc, NEW s \in Slot, s = ip[p], Ready(p, "made"), icache' = Unlock(s), Return(p),
         Opens(p, s) \/ (Put(p, << s >>) /\ UNCHANGED files),
         UNCHANGED << disk, freeing, ghosts >>
  PROVE  Ordinary(p)
  <1>1. /\ puts[p] = << >> /\ pc[p] = "made" /\ freeing[p] = "no"
        /\ \A t : ~Put1(p, t) /\ ~Put2(p, t) /\ ~Frees(p, t)
    BY ReadyFacts
  <1>2. /\ Typed /\ Placed(p) /\ LocalsTyped(p) /\ DiskTyped /\ lost \subseteq Inum
    BY TypedFacts DEF CacheInv
  <1>3. /\ UNCHANGED << dinode, dir, cwd, freeing, lost >> /\ Moves(p)
        /\ pc'[p] = "user" /\ call'[p] = NoCall /\ rest'[p] = << >>
        /\ ip'[p] = NoSlot /\ dp'[p] = NoSlot /\ held'[p] = NoSlot
        /\ \/ fd[p] = NoSlot /\ fd'[p] = s /\ puts'[p] = << >>
           \/ fd' = fd /\ puts'[p] = << s >>
    BY <1>1, <1>2 DEF Typed, disk, files, locals, ghosts, Moves, Return, Goto, Forget, Put, Opens
  <1>a. fd'[p] \in Slot \cup {NoSlot}
    BY <1>2, <1>3 DEF LocalsTyped
  <1>4. puts'[p] \in Seq(Slot) /\ PutsShort(p)'
    BY <1>1, <1>2, <1>3, <1>a, PutsShortThen DEF LocalsTyped
  <1>5. LocalsTyped(p)' /\ DiskTyped' /\ lost' \subseteq Inum /\ Placed(p)'
    <2>1. LocalsTyped(p)'
      BY <1>1, <1>2, <1>3, <1>4, <1>a DEF LocalsTyped, Labels, HasIp, HasDp, Waiting, IpLocked, DpLocked
    <2>2. DiskTyped' /\ lost' \subseteq Inum
      BY <1>2, <1>3 DEF DiskTyped
    <2>3. InPlace(p)'
      BY <1>1, <1>2, <1>3, SlotFacts DEF Placed, InPlace, LocalsTyped, HasIp, HasDp, Waiting, IpLocked, DpLocked
    <2> QED BY <1>4, <2>1, <2>2, <2>3 DEF Placed
  <1>6. ASSUME NEW t \in Slot
        PROVE  /\ \/ fd[p] = NoSlot /\ fd'[p] = s /\ ~Put1(p, t)' /\ ~Put2(p, t)'
                  \/ fd' = fd /\ (Put1(p, t)' <=> t = s) /\ ~Put2(p, t)'
               /\ ~Frees(p, t)'
    BY <1>1, <1>3, PutsFactsThen DEF Frees
  <1>7. /\ icache' \in Caches /\ Kept(icache') /\ Right(icache') /\ TypesStay
        /\ \A t \in Slot : icache'[t].busy <=> t # s /\ icache[t].busy
    BY <1>3, UnlockTo
  <1>8. BusyTo(p, icache')
    <2>1. ASSUME NEW t \in Slot, Holds(p, t) PROVE icache[t].busy
      BY <2>1 DEF CacheInv, LocksRight
    <2> QED BY <1>1, <1>2, <1>3, <1>6, <1>7, <2>1 DEF BusyTo, Holds, InPlace, Placed, HasIp, HasDp, Waiting, IpLocked, DpLocked
  <1>9. SettledTo(p)
    BY <1>1, <1>2, <1>3, <1>6, <1>7, SlotFacts DEF SettledTo, Settles, Keeps, InPlace, Placed, HasIp, HasDp, Waiting, IpLocked, DpLocked
  <1>10. ValidTo(p, icache')
    <2>1. ASSUME NEW t \in Slot,
                 (dp[p] = t \/ held[p] = t \/ (ip[p] = t /\ pc[p] \in IpLocked))'
          PROVE  icache'[t].valid /\ icache'[t].ref > 0
      <3>1. dp[p] = t \/ held[p] = t \/ (ip[p] = t /\ pc[p] \in IpLocked)
        BY <1>1, <1>2, <1>3, <2>1, SlotFacts DEF InPlace, Placed, HasIp, HasDp, Waiting, IpLocked, DpLocked
      <3> QED BY <1>7, <3>1, ValidBefore DEF Kept
    <2> QED BY <2>1 DEF ValidTo
  <1>11. ASSUME NEW t \in Slot PROVE Mine(p, t)' = Mine(p, t)
    <2>1. dp[p] = NoSlot /\ held[p] = NoSlot
      BY <1>1, <1>2 DEF InPlace, Placed, HasDp, DpLocked
    <2>2. CASE fd[p] = NoSlot /\ fd'[p] = s /\ ~Put1(p, t)' /\ ~Put2(p, t)'
      BY <1>1, <1>3, <2>1, <2>2, SlotFacts DEF Mine, Is
    <2>3. CASE fd' = fd /\ (Put1(p, t)' <=> t = s) /\ ~Put2(p, t)'
      BY <1>1, <1>3, <2>1, <2>3, SlotFacts DEF Mine, Is
    <2> QED BY <1>6, <2>2, <2>3
  <1>12. StepTo(p, icache')
    BY <1>1, <1>3, <1>5, <1>7, <1>8, <1>9, <1>10 DEF StepTo
  <1> QED BY <1>11, <1>12, StayStep

\* There is nothing to unlink.
LEMMA UnlinkMisses ==
  ASSUME CacheInv, NEW p \in Proc, NEW s \in Slot, s = dp[p], Ready(p, "parent"), Lockable(s),
         call[p].op # "link", icache' = Use(s), Put(p, << s >>), Return(p),
         UNCHANGED << disk, files, freeing, ghosts >>
  PROVE  Ordinary(p)
  <1>1. /\ puts[p] = << >> /\ pc[p] = "parent" /\ freeing[p] = "no"
        /\ \A t : ~Put1(p, t) /\ ~Put2(p, t) /\ ~Frees(p, t)
    BY ReadyFacts
  <1>2. /\ Typed /\ Placed(p) /\ LocalsTyped(p) /\ DiskTyped /\ lost \subseteq Inum
    BY TypedFacts DEF CacheInv
  <1>3. /\ UNCHANGED << dinode, dir, cwd, fd, freeing, lost >> /\ Moves(p)
        /\ puts'[p] = << s >> /\ held[p] = NoSlot
        /\ pc'[p] = "user" /\ call'[p] = NoCall /\ rest'[p] = << >>
        /\ ip'[p] = NoSlot /\ dp'[p] = NoSlot /\ held'[p] = NoSlot
    BY <1>1, <1>2 DEF Typed, disk, files, locals, ghosts, Moves, Return, Goto, Forget, Put, Placed, InPlace
  <1>a. Use(s)[s].type # "none" /\ Lock(s)[s].type # "none"
    BY <1>1, ParentLoads DEF Lockable
  <1>4. puts'[p] \in Seq(Slot) /\ PutsShort(p)'
    BY <1>1, <1>2, <1>3, PutsShortThen DEF LocalsTyped
  <1>5. LocalsTyped(p)' /\ DiskTyped' /\ lost' \subseteq Inum /\ Placed(p)'
    <2>1. LocalsTyped(p)'
      BY <1>1, <1>2, <1>3, <1>4 DEF LocalsTyped, Labels, HasIp, HasDp, Waiting, IpLocked, DpLocked
    <2>2. DiskTyped' /\ lost' \subseteq Inum
      BY <1>2, <1>3 DEF DiskTyped
    <2>3. InPlace(p)'
      BY <1>1, <1>2, <1>3, SlotFacts DEF Placed, InPlace, LocalsTyped, HasIp, HasDp, Waiting, IpLocked, DpLocked
    <2> QED BY <1>4, <2>1, <2>2, <2>3 DEF Placed
  <1>6. ASSUME NEW t \in Slot
        PROVE  /\ (Put1(p, t)' <=> t = s) /\ ~Put2(p, t)'
               /\ ~Frees(p, t)'
    BY <1>1, <1>3, PutsFactsThen DEF Frees
  <1>7. /\ icache' \in Caches /\ Kept(icache') /\ Right(icache') /\ TypesStay
        /\ icache[s].ref > 0 /\ ~icache[s].busy /\ icache'[s].valid
        /\ \A t \in Slot : icache'[t].busy = icache[t].busy
        /\ dinode[icache[s].inum].type # "none" /\ icache[s].inum \in Inum
    BY <1>1, <1>3, <1>a, UseTo DEF Has, Lockable
  <1>8. BusyTo(p, icache')
    <2>1. ASSUME NEW t \in Slot, Holds(p, t) PROVE icache[t].busy
      BY <2>1 DEF CacheInv, LocksRight
    <2> QED BY <1>1, <1>2, <1>3, <1>6, <1>7, <2>1 DEF BusyTo, Holds, InPlace, Placed, HasIp, HasDp, Waiting, IpLocked, DpLocked
  <1>9. SettledTo(p)
    <2>1. ASSUME NEW t \in Slot, t # s, Settles(p, t)' PROVE Settles(p, t)
      BY <1>1, <1>2, <1>3, <1>6, <2>1, SlotFacts DEF Settles, Keeps, InPlace, Placed, HasIp, HasDp, Waiting, IpLocked, DpLocked
    <2>2. Has(p, s) /\ dinode'[icache[s].inum].type # "none" /\ (Holds(p, s) \/ ~icache[s].busy)
      BY <1>1, <1>3, <1>7 DEF Has, Holds
    <2> QED BY <2>1, <2>2, SettledByLock
  <1>10. ValidTo(p, icache')
    <2>1. ASSUME NEW t \in Slot,
                 (dp[p] = t \/ held[p] = t \/ (ip[p] = t /\ pc[p] \in IpLocked))'
          PROVE  icache'[t].valid /\ icache'[t].ref > 0
      <3>1. dp[p] = t \/ held[p] = t \/ (ip[p] = t /\ pc[p] \in IpLocked)
        BY <1>1, <1>2, <1>3, <2>1, SlotFacts DEF InPlace, Placed, HasIp, HasDp, Waiting, IpLocked, DpLocked
      <3> QED BY <1>7, <3>1, ValidBefore DEF Kept
    <2> QED BY <2>1 DEF ValidTo
  <1>11. ASSUME NEW t \in Slot PROVE Mine(p, t)' = Mine(p, t)
    <2>1. ip[p] = NoSlot /\ held[p] = NoSlot
      BY <1>1, <1>2 DEF InPlace, Placed, HasIp, Waiting, IpLocked
    <2> QED BY <1>1, <1>3, <1>6, <2>1, SlotFacts DEF Mine, Is
  <1>12. StepTo(p, icache')
    BY <1>1, <1>3, <1>5, <1>7, <1>8, <1>9, <1>10 DEF StepTo
  <1> QED BY <1>11, <1>12, StayStep

\* The parent stays locked, and its entry's inode is referred to.
LEMMA UnlinkFinds ==
  ASSUME CacheInv, NEW p \in Proc, NEW s \in Slot, s = dp[p], Ready(p, "parent"), Lockable(s),
         call[p].op # "link", NEW i \in Inum, IgetSlot(Lock(s), i) # NoSlot,
         icache' = iget(Lock(s), i), ip' = [ip EXCEPT ![p] = IgetSlot(Lock(s), i)],
         Goto(p, "victim"),
         UNCHANGED << disk, files, call, rest, dp, held, puts, freeing, ghosts >>
  PROVE  Ordinary(p)
  <1>1. /\ puts[p] = << >> /\ pc[p] = "parent" /\ freeing[p] = "no"
        /\ \A t : ~Put1(p, t) /\ ~Put2(p, t) /\ ~Frees(p, t)
    BY ReadyFacts
  <1>2. /\ Typed /\ Placed(p) /\ LocalsTyped(p) /\ DiskTyped /\ lost \subseteq Inum
    BY TypedFacts DEF CacheInv
  <1>3. /\ UNCHANGED << dinode, dir, cwd, fd, call, rest, dp, held, puts, freeing, lost >>
        /\ Moves(p) /\ pc'[p] = "victim" /\ ip'[p] = IgetSlot(Lock(s), i) /\ held[p] = NoSlot
    BY <1>1, <1>2 DEF Typed, disk, files, locals, ghosts, Moves, Goto, Placed, InPlace
  <1>a. Use(s)[s].type # "none" /\ Lock(s)[s].type # "none"
    BY <1>1, ParentLoads DEF Lockable
  <1>b. IgetSlot(Lock(s), i) \in Slot
    <2>1. Lock(s) \in Caches
      BY <1>1, <1>3, <1>a, LockTo DEF Has, Lockable
    <2> QED BY <2>1, IgetSlotFacts
  <1>4. puts'[p] \in Seq(Slot) /\ PutsShort(p)'
    BY <1>1, <1>2, <1>3, <1>b, PutsShortThen DEF LocalsTyped
  <1>5. LocalsTyped(p)' /\ DiskTyped' /\ lost' \subseteq Inum /\ Placed(p)'
    <2>1. LocalsTyped(p)'
      BY <1>1, <1>2, <1>3, <1>4, <1>b DEF LocalsTyped, Labels, HasIp, HasDp, Waiting, IpLocked, DpLocked
    <2>2. DiskTyped' /\ lost' \subseteq Inum
      BY <1>2, <1>3 DEF DiskTyped
    <2>3. InPlace(p)'
      BY <1>1, <1>2, <1>3, SlotFacts, <1>b DEF Placed, InPlace, LocalsTyped, HasIp, HasDp, Waiting, IpLocked, DpLocked
    <2> QED BY <1>4, <2>1, <2>2, <2>3 DEF Placed
  <1>6. ASSUME NEW t \in Slot
        PROVE  /\ ~Put1(p, t)' /\ ~Put2(p, t)'
               /\ ~Frees(p, t)'
    BY <1>1, <1>3, PutsFactsThen DEF Frees
  <1>7. /\ Lock(s) \in Caches /\ Kept(Lock(s)) /\ Right(Lock(s)) /\ TypesStay
        /\ icache[s].ref > 0 /\ ~icache[s].busy /\ Lock(s)[s].valid
        /\ \A t \in Slot : Lock(s)[t].busy <=> t = s \/ icache[t].busy
        /\ dinode[icache[s].inum].type # "none" /\ icache[s].inum \in Inum
    BY <1>1, <1>3, <1>a, LockTo DEF Has, Lockable
  <1>8. BusyTo(p, Lock(s))
    <2>1. ASSUME NEW t \in Slot, Holds(p, t) PROVE icache[t].busy
      BY <2>1 DEF CacheInv, LocksRight
    <2> QED BY <1>1, <1>2, <1>3, <1>6, <1>7, <2>1 DEF BusyTo, Holds, InPlace, Placed, HasIp, HasDp, Waiting, IpLocked, DpLocked
  <1>9. SettledTo(p)
    BY <1>1, <1>2, <1>3, <1>6, <1>7, SlotFacts, <1>b DEF SettledTo, Settles, Keeps, InPlace, Placed, HasIp, HasDp, Waiting, IpLocked, DpLocked
  <1>10. ValidTo(p, Lock(s))
    <2>1. ASSUME NEW t \in Slot,
                 (dp[p] = t \/ held[p] = t \/ (ip[p] = t /\ pc[p] \in IpLocked))'
          PROVE  Lock(s)[t].valid /\ Lock(s)[t].ref > 0
      <3>1. dp[p] = t \/ held[p] = t \/ (ip[p] = t /\ pc[p] \in IpLocked)
        BY <1>1, <1>2, <1>3, <2>1, SlotFacts DEF InPlace, Placed, HasIp, HasDp, Waiting, IpLocked, DpLocked
      <3> QED BY <1>7, <3>1, ValidBefore DEF Kept
    <2> QED BY <2>1 DEF ValidTo
  <1>11. ASSUME NEW t \in Slot PROVE Mine(p, t)' = Mine(p, t) + Is(t = IgetSlot(Lock(s), i))
    BY <1>1, <1>2, <1>3, <1>6, <1>b, SlotFacts DEF Mine, Is, InPlace, Placed, HasIp, HasDp, Waiting, IpLocked, DpLocked
  <1>12. StepTo(p, Lock(s))
    BY <1>1, <1>3, <1>5, <1>7, <1>8, <1>9, <1>10 DEF StepTo
  <1> QED BY <1>11, <1>12, IgetStep

\* A directory that is not empty is given up first, its parent next.
LEMMA UnlinkRefuses ==
  ASSUME CacheInv, NEW p \in Proc, NEW s \in Slot, s = ip[p], Ready(p, "victim"), Lockable(s),
         Use(s)[s].type # "none", icache' = Use(s), Put(p, << s >>), Goto(p, "not_empty"),
         ip' = [ip EXCEPT ![p] = NoSlot],
         UNCHANGED << disk, files, call, rest, dp, held, freeing, ghosts >>
  PROVE  Ordinary(p)
  <1>1. /\ puts[p] = << >> /\ pc[p] = "victim" /\ freeing[p] = "no"
        /\ \A t : ~Put1(p, t) /\ ~Put2(p, t) /\ ~Frees(p, t)
    BY ReadyFacts
  <1>2. /\ Typed /\ Placed(p) /\ LocalsTyped(p) /\ DiskTyped /\ lost \subseteq Inum
    BY TypedFacts DEF CacheInv
  <1>3. /\ UNCHANGED << dinode, dir, cwd, fd, call, rest, dp, held, freeing, lost >>
        /\ Moves(p) /\ pc'[p] = "not_empty" /\ ip'[p] = NoSlot /\ puts'[p] = << s >>
    BY <1>1, <1>2 DEF Typed, disk, files, locals, ghosts, Moves, Goto, Put
  <1>4. puts'[p] \in Seq(Slot) /\ PutsShort(p)'
    BY <1>1, <1>2, <1>3, PutsShortThen DEF LocalsTyped
  <1>5. LocalsTyped(p)' /\ DiskTyped' /\ lost' \subseteq Inum /\ Placed(p)'
    <2>1. LocalsTyped(p)'
      BY <1>1, <1>2, <1>3, <1>4 DEF LocalsTyped, Labels, HasIp, HasDp, Waiting, IpLocked, DpLocked
    <2>2. DiskTyped' /\ lost' \subseteq Inum
      BY <1>2, <1>3 DEF DiskTyped
    <2>3. InPlace(p)'
      BY <1>1, <1>2, <1>3, SlotFacts DEF Placed, InPlace, LocalsTyped, HasIp, HasDp, Waiting, IpLocked, DpLocked
    <2> QED BY <1>4, <2>1, <2>2, <2>3 DEF Placed
  <1>6. ASSUME NEW t \in Slot
        PROVE  /\ (Put1(p, t)' <=> t = s) /\ ~Put2(p, t)'
               /\ ~Frees(p, t)'
    BY <1>1, <1>3, PutsFactsThen DEF Frees
  <1>7. /\ icache' \in Caches /\ Kept(icache') /\ Right(icache') /\ TypesStay
        /\ icache[s].ref > 0 /\ ~icache[s].busy /\ icache'[s].valid
        /\ \A t \in Slot : icache'[t].busy = icache[t].busy
        /\ dinode[icache[s].inum].type # "none" /\ icache[s].inum \in Inum
    BY <1>1, <1>3, UseTo DEF Has, Lockable
  <1>8. BusyTo(p, icache')
    <2>1. ASSUME NEW t \in Slot, Holds(p, t) PROVE icache[t].busy
      BY <2>1 DEF CacheInv, LocksRight
    <2> QED BY <1>1, <1>2, <1>3, <1>6, <1>7, <2>1 DEF BusyTo, Holds, InPlace, Placed, HasIp, HasDp, Waiting, IpLocked, DpLocked
  <1>9. SettledTo(p)
    <2>1. ASSUME NEW t \in Slot, t # s, Settles(p, t)' PROVE Settles(p, t)
      BY <1>1, <1>2, <1>3, <1>6, <2>1, SlotFacts DEF Settles, Keeps, InPlace, Placed, HasIp, HasDp, Waiting, IpLocked, DpLocked
    <2>2. Has(p, s) /\ dinode'[icache[s].inum].type # "none" /\ (Holds(p, s) \/ ~icache[s].busy)
      BY <1>1, <1>3, <1>7 DEF Has, Holds
    <2> QED BY <2>1, <2>2, SettledByLock
  <1>10. ValidTo(p, icache')
    <2>1. ASSUME NEW t \in Slot,
                 (dp[p] = t \/ held[p] = t \/ (ip[p] = t /\ pc[p] \in IpLocked))'
          PROVE  icache'[t].valid /\ icache'[t].ref > 0
      <3>1. dp[p] = t \/ held[p] = t \/ (ip[p] = t /\ pc[p] \in IpLocked)
        BY <1>1, <1>2, <1>3, <2>1, SlotFacts DEF InPlace, Placed, HasIp, HasDp, Waiting, IpLocked, DpLocked
      <3> QED BY <1>7, <3>1, ValidBefore DEF Kept
    <2> QED BY <2>1 DEF ValidTo
  <1>11. ASSUME NEW t \in Slot PROVE Mine(p, t)' = Mine(p, t)
    BY <1>1, <1>2, <1>3, <1>6, SlotFacts DEF Mine, Is, InPlace, Placed, HasIp, HasDp, Waiting, IpLocked, DpLocked
  <1>12. StepTo(p, icache')
    BY <1>1, <1>3, <1>5, <1>7, <1>8, <1>9, <1>10 DEF StepTo
  <1> QED BY <1>11, <1>12, StayStep

\* The entry of an empty directory is erased.
LEMMA UnlinkUndots ==
  ASSUME CacheInv, NEW p \in Proc, NEW s \in Slot, s = ip[p], Ready(p, "victim"), Lockable(s),
         Lock(s)[s].type # "none", NEW i \in Inum, EnterName(i, LastName(p), None),
         icache' = Lock(s), Goto(p, "undot"),
         UNCHANGED << dinode, files, call, rest, ip, dp, held, puts, freeing, ghosts >>
  PROVE  Ordinary(p)
  <1>1. /\ puts[p] = << >> /\ pc[p] = "victim" /\ freeing[p] = "no"
        /\ \A t : ~Put1(p, t) /\ ~Put2(p, t) /\ ~Frees(p, t)
    BY ReadyFacts
  <1>2. /\ Typed /\ Placed(p) /\ LocalsTyped(p) /\ DiskTyped /\ lost \subseteq Inum
    BY TypedFacts DEF CacheInv
  <1>3. /\ UNCHANGED << dinode, cwd, fd, call, rest, ip, dp, held, puts, freeing, lost >>
        /\ Moves(p) /\ pc'[p] = "undot" 
    BY <1>1, <1>2 DEF Typed, disk, files, locals, ghosts, Moves, Goto
  <1>a. s # dp[p]
    BY <1>1 DEF Lockable, CacheInv, LocksRight, Holds, DpLocked
  <1>b. LastName(p) \in Names
    BY <1>1, <1>2, LastFacts DEF LastName, LocalsTyped, Placed, InPlace, HasDp, DpLocked
  <1>4. puts'[p] \in Seq(Slot) /\ PutsShort(p)'
    BY <1>1, <1>2, <1>3, PutsShortThen DEF LocalsTyped
  <1>5. LocalsTyped(p)' /\ DiskTyped' /\ lost' \subseteq Inum /\ Placed(p)'
    <2>1. LocalsTyped(p)'
      BY <1>1, <1>2, <1>3, <1>4 DEF LocalsTyped, Labels, HasIp, HasDp, Waiting, IpLocked, DpLocked
    <2>2. DiskTyped' /\ lost' \subseteq Inum
      <3>1. dir' \in [Inum -> [Names -> Inum \cup {None}]]
        BY <1>2, <1>3, <1>b DEF DiskTyped, EnterName
      <3> QED BY <1>2, <1>3, <3>1 DEF DiskTyped
    <2>3. InPlace(p)'
      BY <1>1, <1>2, <1>3, SlotFacts, <1>a DEF Placed, InPlace, LocalsTyped, HasIp, HasDp, Waiting, IpLocked, DpLocked
    <2> QED BY <1>4, <2>1, <2>2, <2>3 DEF Placed
  <1>6. ASSUME NEW t \in Slot
        PROVE  /\ ~Put1(p, t)' /\ ~Put2(p, t)'
               /\ ~Frees(p, t)'
    BY <1>1, <1>3, PutsFactsThen DEF Frees
  <1>7. /\ icache' \in Caches /\ Kept(icache') /\ Right(icache') /\ TypesStay
        /\ icache[s].ref > 0 /\ ~icache[s].busy /\ icache'[s].valid
        /\ \A t \in Slot : icache'[t].busy <=> t = s \/ icache[t].busy
        /\ dinode[icache[s].inum].type # "none" /\ icache[s].inum \in Inum /\ s # dp[p]
    BY <1>1, <1>3, <1>a, LockTo DEF Has, Lockable
  <1>8. BusyTo(p, icache')
    <2>1. ASSUME NEW t \in Slot, Holds(p, t) PROVE icache[t].busy
      BY <2>1 DEF CacheInv, LocksRight
    <2> QED BY <1>1, <1>2, <1>3, <1>6, <1>7, <2>1 DEF BusyTo, Holds, InPlace, Placed, HasIp, HasDp, Waiting, IpLocked, DpLocked
  <1>9. SettledTo(p)
    <2>1. ASSUME NEW t \in Slot, t # s, Settles(p, t)' PROVE Settles(p, t)
      BY <1>1, <1>2, <1>3, <1>6, <2>1, SlotFacts DEF Settles, Keeps, InPlace, Placed, HasIp, HasDp, Waiting, IpLocked, DpLocked
    <2>2. Has(p, s) /\ dinode'[icache[s].inum].type # "none" /\ (Holds(p, s) \/ ~icache[s].busy)
      BY <1>1, <1>3, <1>7 DEF Has, Holds
    <2> QED BY <2>1, <2>2, SettledByLock
  <1>10. ValidTo(p, icache')
    <2>1. ASSUME NEW t \in Slot,
                 (dp[p] = t \/ held[p] = t \/ (ip[p] = t /\ pc[p] \in IpLocked))'
          PROVE  icache'[t].valid /\ icache'[t].ref > 0
      <3>1. dp[p] = t \/ held[p] = t \/ (ip[p] = t /\ pc[p] \in IpLocked) \/ t = s
        BY <1>1, <1>2, <1>3, <2>1, SlotFacts DEF InPlace, Placed, HasIp, HasDp, Waiting, IpLocked, DpLocked
      <3> QED BY <1>7, <3>1, ValidBefore DEF Kept
    <2> QED BY <2>1 DEF ValidTo
  <1>11. ASSUME NEW t \in Slot PROVE Mine(p, t)' = Mine(p, t)
    BY <1>1, <1>2, <1>3, <1>6, SlotFacts DEF Mine, Is, InPlace, Placed, HasIp, HasDp, Waiting, IpLocked, DpLocked
  <1>12. StepTo(p, icache')
    BY <1>1, <1>3, <1>5, <1>7, <1>8, <1>9, <1>10 DEF StepTo
  <1> QED BY <1>11, <1>12, StayStep

\* The entry of a file is erased, and the parent given up.
LEMMA UnlinkErases ==
  ASSUME CacheInv, NEW p \in Proc, NEW s \in Slot, s = ip[p], Ready(p, "victim"), Lockable(s),
         Lock(s)[s].type # "none", NEW i \in Inum, EnterName(i, LastName(p), None),
         icache' = Unlocked(Lock(s), dp[p]), PutDp(p), Goto(p, "erased"),
         UNCHANGED << dinode, files, call, rest, ip, held, freeing, ghosts >>
  PROVE  Ordinary(p)
  <1>1. /\ puts[p] = << >> /\ pc[p] = "victim" /\ freeing[p] = "no"
        /\ \A t : ~Put1(p, t) /\ ~Put2(p, t) /\ ~Frees(p, t)
    BY ReadyFacts
  <1>2. /\ Typed /\ Placed(p) /\ LocalsTyped(p) /\ DiskTyped /\ lost \subseteq Inum
    BY TypedFacts DEF CacheInv
  <1>3. /\ UNCHANGED << dinode, cwd, fd, call, rest, ip, held, freeing, lost >>
        /\ Moves(p) /\ pc'[p] = "erased" /\ puts'[p] = << dp[p] >> /\ dp'[p] = NoSlot
        /\ dp[p] \in Slot
    BY <1>1, <1>2 DEF Typed, disk, files, locals, ghosts, Moves, Goto, Put, PutDp, LocalsTyped, Placed, InPlace, HasDp, DpLocked
  <1>a. s # dp[p] /\ icache[dp[p]].busy
    BY <1>1, <1>3 DEF Lockable, CacheInv, LocksRight, Holds, DpLocked
  <1>b. LastName(p) \in Names
    BY <1>1, <1>2, LastFacts DEF LastName, LocalsTyped, Placed, InPlace, HasDp, DpLocked
  <1>4. puts'[p] \in Seq(Slot) /\ PutsShort(p)'
    BY <1>1, <1>2, <1>3, PutsShortThen DEF LocalsTyped
  <1>5. LocalsTyped(p)' /\ DiskTyped' /\ lost' \subseteq Inum /\ Placed(p)'
    <2>1. LocalsTyped(p)'
      BY <1>1, <1>2, <1>3, <1>4 DEF LocalsTyped, Labels, HasIp, HasDp, Waiting, IpLocked, DpLocked
    <2>2. DiskTyped' /\ lost' \subseteq Inum
      <3>1. dir' \in [Inum -> [Names -> Inum \cup {None}]]
        BY <1>2, <1>3, <1>b DEF DiskTyped, EnterName
      <3> QED BY <1>2, <1>3, <3>1 DEF DiskTyped
    <2>3. InPlace(p)'
      BY <1>1, <1>2, <1>3, SlotFacts, <1>a DEF Placed, InPlace, LocalsTyped, HasIp, HasDp, Waiting, IpLocked, DpLocked
    <2> QED BY <1>4, <2>1, <2>2, <2>3 DEF Placed
  <1>6. ASSUME NEW t \in Slot
        PROVE  /\ (Put1(p, t)' <=> t = dp[p]) /\ ~Put2(p, t)'
               /\ ~Frees(p, t)'
    BY <1>1, <1>3, PutsFactsThen DEF Frees
  <1>7. /\ icache' \in Caches /\ Kept(icache') /\ Right(icache') /\ TypesStay
        /\ icache[s].ref > 0 /\ ~icache[s].busy /\ icache'[s].valid
        /\ \A t \in Slot : icache'[t].busy <=> t # dp[p] /\ (t = s \/ icache[t].busy)
        /\ dinode[icache[s].inum].type # "none" /\ icache[s].inum \in Inum
        /\ s # dp[p] /\ icache[dp[p]].busy
    <2>0. PICK b : b = Lock(s)
      OBVIOUS
    <2>1. /\ b \in Caches /\ Kept(b) /\ Right(b) /\ TypesStay
          /\ icache[s].ref > 0 /\ ~icache[s].busy /\ b[s].valid
          /\ \A t \in Slot : b[t].busy <=> t = s \/ icache[t].busy
          /\ dinode[icache[s].inum].type # "none" /\ icache[s].inum \in Inum
      BY <1>1, <1>3, <2>0, LockTo DEF Has, Lockable
    <2>2. /\ Unlocked(b, dp[p]) \in Caches /\ Kept(Unlocked(b, dp[p])) /\ Right(Unlocked(b, dp[p]))
          /\ \A t \in Slot : /\ Unlocked(b, dp[p])[t].busy <=> t # dp[p] /\ b[t].busy
                             /\ Unlocked(b, dp[p])[t].valid = b[t].valid
      BY <1>3, <2>1, UnlockedTo
    <2>3. icache' = Unlocked(b, dp[p])
      BY <2>0
    <2> QED BY <1>a, <2>1, <2>2, <2>3
  <1>8. BusyTo(p, icache')
    <2>1. ASSUME NEW t \in Slot, Holds(p, t) PROVE icache[t].busy
      BY <2>1 DEF CacheInv, LocksRight
    <2> QED BY <1>1, <1>2, <1>3, <1>6, <1>7, <2>1 DEF BusyTo, Holds, InPlace, Placed, HasIp, HasDp, Waiting, IpLocked, DpLocked
  <1>9. SettledTo(p)
    <2>1. ASSUME NEW t \in Slot, t # s, Settles(p, t)' PROVE Settles(p, t)
      BY <1>1, <1>2, <1>3, <1>6, <2>1, SlotFacts DEF Settles, Keeps, InPlace, Placed, HasIp, HasDp, Waiting, IpLocked, DpLocked
    <2>2. Has(p, s) /\ dinode'[icache[s].inum].type # "none" /\ (Holds(p, s) \/ ~icache[s].busy)
      BY <1>1, <1>3, <1>7 DEF Has, Holds
    <2> QED BY <2>1, <2>2, SettledByLock
  <1>10. ValidTo(p, icache')
    <2>1. ASSUME NEW t \in Slot,
                 (dp[p] = t \/ held[p] = t \/ (ip[p] = t /\ pc[p] \in IpLocked))'
          PROVE  icache'[t].valid /\ icache'[t].ref > 0
      <3>1. dp[p] = t \/ held[p] = t \/ (ip[p] = t /\ pc[p] \in IpLocked) \/ t = s
        BY <1>1, <1>2, <1>3, <2>1, SlotFacts DEF InPlace, Placed, HasIp, HasDp, Waiting, IpLocked, DpLocked
      <3> QED BY <1>7, <3>1, ValidBefore DEF Kept
    <2> QED BY <2>1 DEF ValidTo
  <1>11. ASSUME NEW t \in Slot PROVE Mine(p, t)' = Mine(p, t)
    BY <1>1, <1>2, <1>3, <1>6, SlotFacts DEF Mine, Is, InPlace, Placed, HasIp, HasDp, Waiting, IpLocked, DpLocked
  <1>12. StepTo(p, icache')
    BY <1>1, <1>3, <1>5, <1>7, <1>8, <1>9, <1>10 DEF StepTo
  <1> QED BY <1>11, <1>12, StayStep

\* The parent is unlocked, and put.
LEMMA NotEmptyOrdinary ==
  ASSUME CacheInv, NEW p \in Proc, NEW s \in Slot, s = dp[p], Ready(p, "not_empty"), icache' = Unlock(s),
         Put(p, << s >>), Return(p), UNCHANGED << disk, files, freeing, ghosts >>
  PROVE  Ordinary(p)
  <1>1. /\ puts[p] = << >> /\ pc[p] = "not_empty" /\ freeing[p] = "no"
        /\ \A t : ~Put1(p, t) /\ ~Put2(p, t) /\ ~Frees(p, t)
    BY ReadyFacts
  <1>2. /\ Typed /\ Placed(p) /\ LocalsTyped(p) /\ DiskTyped /\ lost \subseteq Inum
    BY TypedFacts DEF CacheInv
  <1>3. /\ UNCHANGED << dinode, dir, cwd, fd, freeing, lost >> /\ Moves(p)
        /\ puts'[p] = << s >> /\ held[p] = NoSlot
        /\ pc'[p] = "user" /\ call'[p] = NoCall /\ rest'[p] = << >>
        /\ ip'[p] = NoSlot /\ dp'[p] = NoSlot /\ held'[p] = NoSlot
    BY <1>1, <1>2 DEF Typed, disk, files, locals, ghosts, Moves, Return, Goto, Forget, Put, Placed, InPlace
  <1>a. /\ cwd'[p] \in Slot /\ fd'[p] \in Slot \cup {NoSlot} /\ freeing'[p] = "no"
        /\ pc'[p] = "user" /\ call'[p] = NoCall /\ rest'[p] = << >>
        /\ ip'[p] = NoSlot /\ dp'[p] = NoSlot /\ held'[p] = NoSlot
    BY <1>1, <1>2, <1>3 DEF LocalsTyped
  <1>4. puts'[p] \in Seq(Slot) /\ PutsShort(p)'
    BY <1>1, <1>2, <1>3, <1>a, PutsShortThen DEF LocalsTyped
  <1>5. LocalsTyped(p)' /\ DiskTyped' /\ lost' \subseteq Inum /\ Placed(p)'
    <2>1. LocalsTyped(p)'
      BY  <1>4, <1>a DEF LocalsTyped, Labels, HasIp, HasDp, Waiting, IpLocked, DpLocked
    <2>2. DiskTyped' /\ lost' \subseteq Inum
      BY <1>2, <1>3 DEF DiskTyped
    <2>3. InPlace(p)'
      BY <1>1, <1>2, <1>3, SlotFacts DEF Placed, InPlace, LocalsTyped, HasIp, HasDp, Waiting, IpLocked, DpLocked
    <2> QED BY <1>4, <2>1, <2>2, <2>3 DEF Placed
  <1>6. ASSUME NEW t \in Slot
        PROVE  /\ (Put1(p, t)' <=> t = s) /\ ~Put2(p, t)'
               /\ ~Frees(p, t)'
    BY <1>1, <1>3, PutsFactsThen DEF Frees
  <1>7. /\ icache' \in Caches /\ Kept(icache') /\ Right(icache') /\ TypesStay
        /\ \A t \in Slot : icache'[t].busy <=> t # s /\ icache[t].busy
    BY <1>3, UnlockTo
  <1>8. BusyTo(p, icache')
    <2>1. ASSUME NEW t \in Slot, Holds(p, t) PROVE icache[t].busy
      BY <2>1 DEF CacheInv, LocksRight
    <2> QED BY <1>1, <1>2, <1>3, <1>6, <1>7, <2>1 DEF BusyTo, Holds, InPlace, Placed, HasIp, HasDp, Waiting, IpLocked, DpLocked
  <1>9. SettledTo(p)
    BY <1>1, <1>2, <1>3, <1>6, <1>7, SlotFacts DEF SettledTo, Settles, Keeps, InPlace, Placed, HasIp, HasDp, Waiting, IpLocked, DpLocked
  <1>10. ValidTo(p, icache')
    <2>1. ASSUME NEW t \in Slot,
                 (dp[p] = t \/ held[p] = t \/ (ip[p] = t /\ pc[p] \in IpLocked))'
          PROVE  icache'[t].valid /\ icache'[t].ref > 0
      <3>1. dp[p] = t \/ held[p] = t \/ (ip[p] = t /\ pc[p] \in IpLocked)
        BY <1>1, <1>2, <1>3, <2>1, SlotFacts DEF InPlace, Placed, HasIp, HasDp, Waiting, IpLocked, DpLocked
      <3> QED BY <1>7, <3>1, ValidBefore DEF Kept
    <2> QED BY <2>1 DEF ValidTo
  <1>11. ASSUME NEW t \in Slot PROVE Mine(p, t)' = Mine(p, t)
    <2>1. ip[p] = NoSlot /\ held[p] = NoSlot
      BY <1>1, <1>2 DEF InPlace, Placed, HasIp, Waiting, IpLocked
    <2> QED BY <1>1, <1>3, <1>6, <2>1, SlotFacts DEF Mine, Is
  <1>12. StepTo(p, icache')
    BY <1>1, <1>3, <1>5, <1>7, <1>8, <1>9, <1>10 DEF StepTo
  <1> QED BY <1>11, <1>12, StayStep

\* The directory\'s ".." is taken from the parent\'s count; the parent is given up.
LEMMA UndotOrdinary ==
  ASSUME CacheInv, NEW p \in Proc, NEW s \in Slot, s = dp[p], Ready(p, "undot"),
         NEW n \in Int, NEW c, c = AddLink(Unlock(s), s, n), icache' = c, iupdate(c, s), PutDp(p),
         Goto(p, "erased"), UNCHANGED << dir, files, call, rest, ip, held, freeing, ghosts >>
  PROVE  Ordinary(p)
  <1>1. /\ puts[p] = << >> /\ pc[p] = "undot" /\ freeing[p] = "no"
        /\ \A t : ~Put1(p, t) /\ ~Put2(p, t) /\ ~Frees(p, t)
    BY ReadyFacts
  <1>2. /\ Typed /\ Placed(p) /\ LocalsTyped(p) /\ DiskTyped /\ lost \subseteq Inum
    BY TypedFacts DEF CacheInv
  <1>3. /\ UNCHANGED << dir, cwd, fd, call, rest, ip, held, freeing, lost >>
        /\ Moves(p) /\ pc'[p] = "erased" /\ puts'[p] = << s >> /\ dp'[p] = NoSlot
        /\ ip[p] # s
    BY <1>1, <1>2 DEF Typed, disk, files, locals, ghosts, Moves, Goto, Put, PutDp, Placed, InPlace, IpLocked, DpLocked
  <1>a. /\ icache' \in Caches /\ Kept(icache') /\ Right(icache') /\ TypesStay
        /\ \A t \in Slot : icache'[t].busy <=> t # s /\ icache[t].busy
        /\ dinode' \in [Inum -> [type : Types, nlink : Int]]
    <2>1. /\ Unlock(s) \in Caches /\ Kept(Unlock(s))
          /\ \A t \in Slot : /\ Unlock(s)[t].busy <=> t # s /\ icache[t].busy
                             /\ Unlock(s)[t].valid = icache[t].valid
                             /\ Unlock(s)[t].type = icache[t].type
                             /\ Unlock(s)[t].nlink = icache[t].nlink
      BY UnlockTo
    <2>2. /\ icache[s].ref > 0 /\ icache[s].type # "none"
          /\ dinode[icache[s].inum].type = icache[s].type
      <3>1. icache[s].valid /\ Has(p, s) /\ Holds(p, s)
        BY <1>1, ValidBefore DEF Has, Holds, IpLocked, DpLocked
      <3> QED BY <1>1, <3>1, LockedMatches
    <2>3. Unlock(s)[s].type # "none" /\ Unlock(s)[s].type = dinode[icache[s].inum].type
      BY <2>1, <2>2
    <2> QED BY <2>1, <2>2, <2>3, AddLinkTo
  <1>4. puts'[p] \in Seq(Slot) /\ PutsShort(p)'
    BY <1>1, <1>2, <1>3, PutsShortThen DEF LocalsTyped
  <1>5. LocalsTyped(p)' /\ DiskTyped' /\ lost' \subseteq Inum /\ Placed(p)'
    <2>1. LocalsTyped(p)'
      BY <1>1, <1>2, <1>3, <1>4 DEF LocalsTyped, Labels, HasIp, HasDp, Waiting, IpLocked, DpLocked
    <2>2. DiskTyped' /\ lost' \subseteq Inum
      BY <1>2, <1>3, <1>a DEF DiskTyped
    <2>3. InPlace(p)'
      BY <1>1, <1>2, <1>3, SlotFacts DEF Placed, InPlace, LocalsTyped, HasIp, HasDp, Waiting, IpLocked, DpLocked
    <2> QED BY <1>4, <2>1, <2>2, <2>3 DEF Placed
  <1>6. ASSUME NEW t \in Slot
        PROVE  /\ (Put1(p, t)' <=> t = s) /\ ~Put2(p, t)'
               /\ ~Frees(p, t)'
    BY <1>1, <1>3, PutsFactsThen DEF Frees
  <1>7. /\ icache' \in Caches /\ Kept(icache') /\ Right(icache') /\ TypesStay /\ \A t \in Slot : icache'[t].busy <=> t # s /\ icache[t].busy
    BY <1>a
  <1>8. BusyTo(p, icache')
    <2>1. ASSUME NEW t \in Slot, Holds(p, t) PROVE icache[t].busy
      BY <2>1 DEF CacheInv, LocksRight
    <2> QED BY <1>1, <1>2, <1>3, <1>6, <1>7, <2>1 DEF BusyTo, Holds, InPlace, Placed, HasIp, HasDp, Waiting, IpLocked, DpLocked
  <1>9. SettledTo(p)
    BY <1>1, <1>2, <1>3, <1>6, <1>7, SlotFacts DEF SettledTo, Settles, Keeps, InPlace, Placed, HasIp, HasDp, Waiting, IpLocked, DpLocked
  <1>10. ValidTo(p, icache')
    <2>1. ASSUME NEW t \in Slot,
                 (dp[p] = t \/ held[p] = t \/ (ip[p] = t /\ pc[p] \in IpLocked))'
          PROVE  icache'[t].valid /\ icache'[t].ref > 0
      <3>1. dp[p] = t \/ held[p] = t \/ (ip[p] = t /\ pc[p] \in IpLocked)
        BY <1>1, <1>2, <1>3, <2>1, SlotFacts DEF InPlace, Placed, HasIp, HasDp, Waiting, IpLocked, DpLocked
      <3> QED BY <1>7, <3>1, ValidBefore DEF Kept
    <2> QED BY <2>1 DEF ValidTo
  <1>11. ASSUME NEW t \in Slot PROVE Mine(p, t)' = Mine(p, t)
    BY <1>1, <1>2, <1>3, <1>6, SlotFacts DEF Mine, Is, InPlace, Placed, HasIp, HasDp, Waiting, IpLocked, DpLocked
  <1>12. StepTo(p, icache')
    BY <1>1, <1>3, <1>5, <1>7, <1>8, <1>9, <1>10 DEF StepTo
  <1> QED BY <1>11, <1>12, StayStep

\* The name is taken from the inode's count; the inode is given up.
LEMMA UnlinkDoneOrdinary ==
  ASSUME CacheInv, NEW p \in Proc, NEW s \in Slot, s = ip[p], Ready(p, "erased"),
         NEW n \in Int, NEW c, c = AddLink(Unlock(s), s, n), icache' = c, iupdate(c, s), Put(p, << s >>),
         Return(p), UNCHANGED << dir, files, freeing, ghosts >>
  PROVE  Ordinary(p)
  <1>1. /\ puts[p] = << >> /\ pc[p] = "erased" /\ freeing[p] = "no"
        /\ \A t : ~Put1(p, t) /\ ~Put2(p, t) /\ ~Frees(p, t)
    BY ReadyFacts
  <1>2. /\ Typed /\ Placed(p) /\ LocalsTyped(p) /\ DiskTyped /\ lost \subseteq Inum
    BY TypedFacts DEF CacheInv
  <1>3. /\ UNCHANGED << dir, cwd, fd, freeing, lost >> /\ Moves(p)
        /\ puts'[p] = << s >> /\ held[p] = NoSlot
        /\ pc'[p] = "user" /\ call'[p] = NoCall /\ rest'[p] = << >>
        /\ ip'[p] = NoSlot /\ dp'[p] = NoSlot /\ held'[p] = NoSlot
    BY <1>1, <1>2 DEF Typed, disk, files, locals, ghosts, Moves, Return, Goto, Forget, Put, Placed, InPlace
  <1>a. /\ icache' \in Caches /\ Kept(icache') /\ Right(icache') /\ TypesStay
        /\ \A t \in Slot : icache'[t].busy <=> t # s /\ icache[t].busy
        /\ dinode' \in [Inum -> [type : Types, nlink : Int]]
    <2>1. /\ Unlock(s) \in Caches /\ Kept(Unlock(s))
          /\ \A t \in Slot : /\ Unlock(s)[t].busy <=> t # s /\ icache[t].busy
                             /\ Unlock(s)[t].valid = icache[t].valid
                             /\ Unlock(s)[t].type = icache[t].type
                             /\ Unlock(s)[t].nlink = icache[t].nlink
      BY UnlockTo
    <2>2. /\ icache[s].ref > 0 /\ icache[s].type # "none"
          /\ dinode[icache[s].inum].type = icache[s].type
      <3>1. icache[s].valid /\ Has(p, s) /\ Holds(p, s)
        BY <1>1, ValidBefore DEF Has, Holds, IpLocked, DpLocked
      <3> QED BY <1>1, <3>1, LockedMatches
    <2>3. Unlock(s)[s].type # "none" /\ Unlock(s)[s].type = dinode[icache[s].inum].type
      BY <2>1, <2>2
    <2> QED BY <2>1, <2>2, <2>3, AddLinkTo
  <1>4. puts'[p] \in Seq(Slot) /\ PutsShort(p)'
    BY <1>1, <1>2, <1>3, PutsShortThen DEF LocalsTyped
  <1>5. LocalsTyped(p)' /\ DiskTyped' /\ lost' \subseteq Inum /\ Placed(p)'
    <2>1. LocalsTyped(p)'
      BY <1>1, <1>2, <1>3, <1>4 DEF LocalsTyped, Labels, HasIp, HasDp, Waiting, IpLocked, DpLocked
    <2>2. DiskTyped' /\ lost' \subseteq Inum
      BY <1>2, <1>3, <1>a DEF DiskTyped
    <2>3. InPlace(p)'
      BY <1>1, <1>2, <1>3, SlotFacts DEF Placed, InPlace, LocalsTyped, HasIp, HasDp, Waiting, IpLocked, DpLocked
    <2> QED BY <1>4, <2>1, <2>2, <2>3 DEF Placed
  <1>6. ASSUME NEW t \in Slot
        PROVE  /\ (Put1(p, t)' <=> t = s) /\ ~Put2(p, t)'
               /\ ~Frees(p, t)'
    BY <1>1, <1>3, PutsFactsThen DEF Frees
  <1>7. /\ icache' \in Caches /\ Kept(icache') /\ Right(icache') /\ TypesStay /\ \A t \in Slot : icache'[t].busy <=> t # s /\ icache[t].busy
    BY <1>a
  <1>8. BusyTo(p, icache')
    <2>1. ASSUME NEW t \in Slot, Holds(p, t) PROVE icache[t].busy
      BY <2>1 DEF CacheInv, LocksRight
    <2> QED BY <1>1, <1>2, <1>3, <1>6, <1>7, <2>1 DEF BusyTo, Holds, InPlace, Placed, HasIp, HasDp, Waiting, IpLocked, DpLocked
  <1>9. SettledTo(p)
    BY <1>1, <1>2, <1>3, <1>6, <1>7, SlotFacts DEF SettledTo, Settles, Keeps, InPlace, Placed, HasIp, HasDp, Waiting, IpLocked, DpLocked
  <1>10. ValidTo(p, icache')
    <2>1. ASSUME NEW t \in Slot,
                 (dp[p] = t \/ held[p] = t \/ (ip[p] = t /\ pc[p] \in IpLocked))'
          PROVE  icache'[t].valid /\ icache'[t].ref > 0
      <3>1. dp[p] = t \/ held[p] = t \/ (ip[p] = t /\ pc[p] \in IpLocked)
        BY <1>1, <1>2, <1>3, <2>1, SlotFacts DEF InPlace, Placed, HasIp, HasDp, Waiting, IpLocked, DpLocked
      <3> QED BY <1>7, <3>1, ValidBefore DEF Kept
    <2> QED BY <2>1 DEF ValidTo
  <1>11. ASSUME NEW t \in Slot PROVE Mine(p, t)' = Mine(p, t)
    BY <1>1, <1>2, <1>3, <1>6, SlotFacts DEF Mine, Is, InPlace, Placed, HasIp, HasDp, Waiting, IpLocked, DpLocked
  <1>12. StepTo(p, icache')
    BY <1>1, <1>3, <1>5, <1>7, <1>8, <1>9, <1>10 DEF StepTo
  <1> QED BY <1>11, <1>12, StayStep

(***************************************************************************)
(* iput                                                                    *)
(***************************************************************************)
LEMMA FirstFacts ==
  ASSUME CacheInv, NEW p \in Proc, puts[p] # << >>
  PROVE  /\ Head(puts[p]) \in Slot /\ Put1(p, Head(puts[p]))
         /\ \A t : Put1(p, t) <=> t = Head(puts[p])
         /\ Has(p, Head(puts[p])) /\ icache[Head(puts[p])].ref > 0
         /\ icache[Head(puts[p])].inum \in Inum
  <1>1. puts[p] \in Seq(Slot)
    BY DEF CacheInv, Typed
  <1>2. 1 \in DOMAIN puts[p] /\ Head(puts[p]) = puts[p][1] /\ puts[p][1] \in Slot
    BY <1>1
  <1>3. Has(p, Head(puts[p]))
    BY <1>2 DEF Has, Put1
  <1> QED BY <1>2, <1>3, Taken DEF Put1, CacheInv, NumbersRight

LEMMA DroppedFacts ==
  ASSUME CacheInv, NEW p \in Proc, puts[p] # << >>, puts'[p] = Tail(puts[p])
  PROVE  /\ puts'[p] \in Seq(Slot) /\ Len(puts'[p]) <= 2
         /\ \A t : (Put1(p, t)' <=> Put2(p, t)) /\ ~Put2(p, t)'
  <1>1. puts[p] \in Seq(Slot) /\ Len(puts[p]) <= 2
    BY DEF CacheInv, Typed, Placed, PutsShort
  <1>2. /\ Tail(puts[p]) \in Seq(Slot) /\ Len(Tail(puts[p])) = Len(puts[p]) - 1
        /\ \A i \in 1 .. Len(Tail(puts[p])) : Tail(puts[p])[i] = puts[p][i + 1]
        /\ Len(puts[p]) \in Nat
    BY <1>1
  <1>3. ASSUME NEW t PROVE (Put1(p, t)' <=> Put2(p, t)) /\ ~Put2(p, t)'
    BY <1>1, <1>2 DEF Put1, Put2
  <1> QED BY <1>1, <1>2, <1>3

LEMMA iputDrops ==
  ASSUME CacheInv, NEW p \in Proc, puts[p] # << >>, freeing[p] = "no",
         NEW s \in Slot, s = Head(puts[p]), icache' = [icache EXCEPT ![s].ref = @ - 1],
         Dropped(p), UNCHANGED << disk, files, pc, locals, freeing, ghosts >>
  PROVE  Ordinary(p)
  <1>1. /\ Typed /\ Placed(p) /\ LocalsTyped(p) /\ DiskTyped /\ lost \subseteq Inum
        /\ icache \in Caches
    BY TypedFacts DEF CacheInv
  <1>2. /\ UNCHANGED << dinode, dir, cwd, fd, pc, call, rest, ip, dp, held, freeing, lost >>
        /\ Moves(p) /\ puts'[p] = Tail(puts[p])
    BY <1>1 DEF Typed, disk, files, locals, ghosts, Moves, Dropped
  <1>3. /\ \A t : Put1(p, t) <=> t = s
        /\ icache[s].ref > 0 /\ icache[s].ref \in Nat
    BY FirstFacts, Taken DEF CacheInv
  <1>4. /\ puts'[p] \in Seq(Slot) /\ Len(puts'[p]) <= 2
        /\ \A t : (Put1(p, t)' <=> Put2(p, t)) /\ ~Put2(p, t)'
    BY <1>2, DroppedFacts
  <1>5. \A t : ~Frees(p, t) /\ ~Frees(p, t)'
    BY <1>2 DEF Frees
  <1>6. /\ icache' \in Caches /\ icache'[s].ref = icache[s].ref - 1
        /\ \A t \in Slot : /\ icache'[t].inum = icache[t].inum /\ icache'[t].busy = icache[t].busy
                           /\ icache'[t].valid = icache[t].valid /\ icache'[t].type = icache[t].type
                           /\ icache'[t].nlink = icache[t].nlink
                           /\ t # s => icache'[t].ref = icache[t].ref
    <2> DEFINE y == [icache[s] EXCEPT !.ref = @ - 1]
    <2>1. icache[s] \in Record
      BY <1>1 DEF Caches
    <2>2. /\ y \in Record /\ y.busy = icache[s].busy /\ y.inum = icache[s].inum
          /\ y.ref = icache[s].ref - 1
          /\ y.valid = icache[s].valid /\ y.type = icache[s].type /\ y.nlink = icache[s].nlink
      BY <1>3, <2>1 DEF Record
    <2>3. icache' = [icache EXCEPT ![s] = y]
      OBVIOUS
    <2> HIDE DEF y
    <2>4. icache' \in Caches /\ icache'[s] = y /\ \A t \in Slot : t # s => icache'[t] = icache[t]
      BY <1>1, <2>2, <2>3 DEF Caches
    <2> QED BY <2>2, <2>4
  <1>7. Typed' /\ Others(p) /\ Placed(p)'
    <2>1. LocalsTyped(p)'
      BY <1>1, <1>2, <1>4 DEF LocalsTyped
    <2>2. DiskTyped' /\ lost' \subseteq Inum
      BY <1>1, <1>2 DEF DiskTyped
    <2>3. InPlace(p)' /\ PutsShort(p)'
      BY <1>1, <1>2, <1>4 DEF Placed, InPlace, PutsShort
    <2> QED BY <1>1, <1>2, <1>6, <2>1, <2>2, <2>3, MovesFacts DEF Placed
  <1>8. RefsMove(p)
    <2>1. ASSUME NEW t \in Slot
          PROVE  icache'[t].ref = icache[t].ref - Mine(p, t) + Mine(p, t)'
      <3>1. icache[t].ref \in Nat
        BY <1>1 DEF Caches, Record
      <3>2. icache'[t].ref = icache[t].ref - Is(t = s)
        BY <1>6, <3>1 DEF Is
      <3>3. Mine(p, t)' = Mine(p, t) - Is(t = s)
        BY <1>2, <1>3, <1>4 DEF Mine, Is
      <3>4. Mine(p, t) \in Nat /\ Is(t = s) \in Nat
        BY MineNat DEF Is
      <3> QED BY <3>1, <3>2, <3>3, <3>4
    <2> QED BY <2>1 DEF RefsMove
  <1>9. \A t \in Slot : icache'[t].ref > 0 => icache[t].ref > 0
    BY <1>3, <1>6
  <1>10. SlotsStay /\ SlotsNew
    <2>1. SlotsStay
      BY <1>6 DEF SlotsStay
    <2>2. ASSUME NEW t \in Slot, icache[t].ref = 0, icache'[t].ref > 0 PROVE FALSE
      BY <1>9, <2>2
    <2> QED BY <2>1, <2>2 DEF SlotsNew
  <1>11. BusyMoves(p)
    <2>1. ASSUME NEW t \in Slot PROVE (Holds(p, t) => icache[t].busy) /\ (Holds(p, t)' <=> Holds(p, t))
      <3>1. Holds(p, t) => icache[t].busy
        BY DEF CacheInv, LocksRight
      <3>2. Holds(p, t)' <=> Holds(p, t)
        BY <1>2, <1>5 DEF Holds
      <3> QED BY <3>1, <3>2
    <2>2. \A t \in Slot : icache'[t].busy = icache[t].busy
      BY <1>6
    <2> QED BY <2>1, <2>2 DEF BusyMoves
  <1>12. TypesStay /\ CopiedThen
    <2>1. TypesStay
      BY <1>2 DEF TypesStay
    <2>2. ASSUME NEW t \in Slot PROVE Match(t) => Match(t)'
      BY <1>2, <1>6 DEF Match
    <2>3. ASSUME NEW t \in Slot, icache'[t].ref > 0, icache'[t].valid
          PROVE  icache[t].ref > 0 /\ icache[t].valid
      BY <1>6, <1>9, <2>3
    <2>4. CopiedThen
      BY <2>2, <2>3 DEF CopiedThen, CacheInv, Copied
    <2> QED BY <2>1, <2>4
  <1>13. SettlesLocked(p)
    BY <1>2, <1>4 DEF SettlesLocked, Settles, Keeps
  <1>14. ValidThen(p)
    BY <1>2, <1>6, ValidBefore DEF ValidThen
  <1> QED BY <1>2, <1>7, <1>8, <1>10, <1>11, <1>12, <1>13, <1>14 DEF Ordinary

\* The last reference to an inode without names: nobody else knows of the slot.
LEMMA LastReference ==
  ASSUME CacheInv, NEW p \in Proc, puts[p] # << >>, freeing[p] = "no",
         NEW s \in Slot, s = Head(puts[p]), icache[s].ref = 1
  PROVE  /\ \A r \in Proc : r # p => ~Has(r, s)
         /\ ~Keeps(p, s) /\ ~Put2(p, s) /\ Put1(p, s) /\ ~icache[s].busy
         /\ \A r \in Proc : ip[r] # s
  <1>1. Has(p, s) /\ Put1(p, s)
    BY FirstFacts
  <1>2. Mine(p, s) = 1 /\ \A r \in Proc : r # p => ~Has(r, s)
    BY <1>1, Lone DEF CacheInv
  <1>3. cwd[p] # s /\ fd[p] # s /\ ip[p] # s /\ dp[p] # s /\ held[p] # s /\ ~Put2(p, s)
    BY <1>1, <1>2 DEF Mine, Is
  <1>4. ~Keeps(p, s) /\ ~Holds(p, s)
    BY <1>3 DEF Keeps, Holds, Frees
  <1>5. ~icache[s].busy
    <2>1. ASSUME NEW r \in Proc, Holds(r, s) PROVE FALSE
      BY <1>2, <1>4, <2>1, HeldIsHad
    <2> QED BY <2>1 DEF CacheInv, LocksRight
  <1> QED BY <1>1, <1>2, <1>3, <1>4, <1>5 DEF Has

\* iput begins to free the inode.
LEMMA iputLocks ==
  ASSUME CacheInv, NEW p \in Proc, puts[p] # << >>, freeing[p] = "no",
         NEW s \in Slot, s = Head(puts[p]), FreesInode(icache[s]),
         icache' = [icache EXCEPT ![s].busy = TRUE],
         freeing' = [freeing EXCEPT ![p] = "itrunc"],
         UNCHANGED << disk, files, pc, locals, puts, ghosts >>
  PROVE  CacheInv'
  <1>1. /\ Typed /\ Placed(p) /\ LocalsTyped(p) /\ DiskTyped /\ lost \subseteq Inum
        /\ icache \in Caches
    BY TypedFacts DEF CacheInv
  <1>2. /\ UNCHANGED << dinode, dir, cwd, fd, pc, call, rest, ip, dp, held, puts, lost >>
        /\ Moves(p) /\ freeing'[p] = "itrunc" /\ \A q \in Proc : q # p => freeing'[q] = freeing[q]
    BY <1>1 DEF Typed, disk, files, locals, ghosts, Moves
  <1>3. /\ \A r \in Proc : r # p => ~Has(r, s)
        /\ ~Keeps(p, s) /\ ~Put2(p, s) /\ Put1(p, s) /\ ~icache[s].busy
        /\ icache[s].valid /\ \A t : Put1(p, t) <=> t = s
    BY LastReference, FirstFacts DEF FreesInode
  <1>4. /\ icache' \in Caches /\ icache'[s].busy
        /\ \A t \in Slot : /\ icache'[t].inum = icache[t].inum /\ icache'[t].ref = icache[t].ref
                           /\ icache'[t].valid = icache[t].valid /\ icache'[t].type = icache[t].type
                           /\ icache'[t].nlink = icache[t].nlink
                           /\ t # s => icache'[t].busy = icache[t].busy
    <2> DEFINE y == [icache[s] EXCEPT !.busy = TRUE]
    <2>1. icache[s] \in Record
      BY <1>1 DEF Caches
    <2>2. /\ y \in Record /\ y.busy = TRUE /\ y.inum = icache[s].inum /\ y.ref = icache[s].ref
          /\ y.valid = icache[s].valid /\ y.type = icache[s].type /\ y.nlink = icache[s].nlink
      BY <2>1 DEF Record
    <2>3. icache' = [icache EXCEPT ![s] = y]
      OBVIOUS
    <2> HIDE DEF y
    <2>4. icache' \in Caches /\ icache'[s] = y /\ \A t \in Slot : t # s => icache'[t] = icache[t]
      BY <1>1, <2>2, <2>3 DEF Caches
    <2> QED BY <2>2, <2>4
  <1>5. Typed' /\ Others(p)
    <2>1. LocalsTyped(p)' /\ DiskTyped' /\ lost' \subseteq Inum
      BY <1>1, <1>2 DEF LocalsTyped, DiskTyped
    <2> QED BY <1>1, <1>2, <1>4, <2>1, MovesFacts
  <1>6. ASSUME NEW q \in Proc, NEW t \in Slot
        PROVE  /\ Keeps(q, t)' <=> Keeps(q, t)
               /\ Put1(q, t)' <=> Put1(q, t)
               /\ Put2(q, t)' <=> Put2(q, t)
               /\ Frees(q, t)' <=> Frees(q, t) \/ (q = p /\ t = s)
               /\ Holds(q, t)' <=> Holds(q, t) \/ (q = p /\ t = s)
               /\ DoneWith(q, t)' <=> DoneWith(q, t)
    <2>1. /\ Keeps(q, t)' <=> Keeps(q, t)
          /\ Put1(q, t)' <=> Put1(q, t)
          /\ Put2(q, t)' <=> Put2(q, t)
      BY <1>2 DEF Keeps, Put1, Put2
    <2>2. /\ Frees(q, t)' <=> Frees(q, t) \/ (q = p /\ t = s)
          /\ DoneWith(q, t)' <=> DoneWith(q, t)
      BY <1>2, <1>3, <2>1 DEF Frees, DoneWith
    <2>3. Holds(q, t)' <=> Holds(q, t) \/ (q = p /\ t = s)
      BY <1>2, <2>2 DEF Holds
    <2> QED BY <2>1, <2>2, <2>3
  <1>7. \A q \in Proc : Placed(q)'
    BY <1>1, <1>2 DEF CacheInv, Placed, InPlace, PutsShort
  <1>8. Counted'
    <2>1. ASSUME NEW t \in Slot PROVE References(t)' = References(t)
      BY <1>2 DEF References, Users, Puts
    <2> QED BY <1>4, <2>1 DEF CacheInv, Counted
  <1>9. NumbersRight'
    BY <1>4 DEF CacheInv, NumbersRight
  <1>10. \A q \in Proc : ~Holds(q, s)
    BY <1>3 DEF CacheInv, LocksRight
  <1>11. LocksRight'
    BY <1>4, <1>6, <1>10 DEF CacheInv, LocksRight
  <1>12. FreedAlone'
    <2>1. ASSUME NEW q \in Proc, NEW r \in Proc, NEW t \in Slot, Frees(q, t)'
          PROVE  /\ icache'[t].valid
                 /\ ~Keeps(r, t)' /\ ~Put2(r, t)' /\ (Put1(r, t)' => r = q)
      <3>1. CASE Frees(q, t)
        BY <1>4, <1>6, <3>1 DEF CacheInv, FreedAlone
      <3>2. CASE q = p /\ t = s
        <4>1. r # p => ~Keeps(r, s) /\ ~Put1(r, s) /\ ~Put2(r, s)
          BY <1>3 DEF Has, Keeps
        <4> QED BY <1>3, <1>4, <1>6, <3>2, <4>1
      <3> QED BY <1>6, <2>1, <3>1, <3>2
    <2> QED BY <2>1 DEF FreedAlone
  <1>13. Copied'
    BY <1>2, <1>4, <1>6 DEF CacheInv, Copied, Match
  <1>14. Settled'
    <2>1. ASSUME NEW q \in Proc, NEW t \in Slot,
                 (Keeps(q, t) \/ Put2(q, t) \/ (Put1(q, t) /\ freeing[q] # "done"))'
          PROVE  dinode'[icache'[t].inum].type # "none"
      <3>1. Keeps(q, t) \/ Put2(q, t) \/ (Put1(q, t) /\ freeing[q] # "done")
        BY <1>2, <1>6, <2>1
      <3> QED BY <1>2, <1>4, <3>1 DEF CacheInv, Settled
    <2>2. ASSUME NEW q \in Proc, NEW t \in Slot,
                 (dp[q] = t \/ held[q] = t \/ (ip[q] = t /\ pc[q] \in IpLocked))'
          PROVE  icache'[t].valid
      BY <1>2, <1>4, <2>2 DEF CacheInv, Settled
    <2> QED BY <2>1, <2>2 DEF Settled
  <1> QED BY <1>5, <1>7, <1>8, <1>9, <1>11, <1>12, <1>13, <1>14 DEF CacheInv

LEMMA IputTruncKeeps ==
  ASSUME CacheInv, NEW p \in Proc, IputTrunc(p)
  PROVE  CacheInv'
  <1> DEFINE s == Head(puts[p])
             i == icache[s].inum
  <1>1. /\ Typed /\ Placed(p) /\ LocalsTyped(p) /\ DiskTyped /\ lost \subseteq Inum
        /\ icache \in Caches /\ freeing[p] = "itrunc" /\ puts[p] # << >>
    BY TypedFacts DEF CacheInv, IputTrunc, Placed, PutsShort
  <1>2. /\ s \in Slot /\ Put1(p, s) /\ icache[s].ref > 0 /\ i \in Inum
        /\ Frees(p, s) /\ icache[s].valid
    BY <1>1, FirstFacts DEF Frees, CacheInv, FreedAlone
  <1> DEFINE c == [icache EXCEPT ![s].type = "none"]
  <1>3. /\ c \in Caches /\ c[s].type = "none" /\ c[s].nlink = icache[s].nlink
        /\ \A t \in Slot : /\ c[t].inum = icache[t].inum /\ c[t].ref = icache[t].ref
                           /\ c[t].valid = icache[t].valid /\ c[t].busy = icache[t].busy
                           /\ t # s => c[t] = icache[t]
    <2> DEFINE y == [icache[s] EXCEPT !.type = "none"]
    <2>1. icache[s] \in Record
      BY <1>1, <1>2 DEF Caches
    <2>2. /\ y \in Record /\ y.busy = icache[s].busy /\ y.inum = icache[s].inum
          /\ y.ref = icache[s].ref /\ y.type = "none"
          /\ y.valid = icache[s].valid /\ y.nlink = icache[s].nlink
      BY <2>1 DEF Record, Types
    <2>3. c = [icache EXCEPT ![s] = y]
      OBVIOUS
    <2> HIDE DEF y, c
    <2>4. c \in Caches /\ c[s] = y /\ \A t \in Slot : t # s => c[t] = icache[t]
      BY <1>1, <1>2, <2>2, <2>3 DEF Caches
    <2> QED BY <2>2, <2>4
  <1>4. /\ icache' = c /\ iupdate(c, s) /\ dir' = [dir EXCEPT ![i] = Empty]
        /\ lost' = lost \cup {j \in Inum : \E n \in Name : dir[i][n] = j}
        /\ UNCHANGED << cwd, fd, pc, call, rest, ip, dp, held, puts >>
        /\ freeing' = [freeing EXCEPT ![p] = "done"]
    <2>1. c[s].inum = i
      BY <1>2, <1>3
    <2> HIDE DEF c
    <2>2. c = [icache EXCEPT ![s].type = "none"]
      BY DEF c
    <2> QED BY <2>1, <2>2 DEF IputTrunc, files, locals
  <1> HIDE DEF s, i, c
  <1>5. c[s].inum = i /\ i = icache[s].inum
    BY <1>2, <1>3 DEF i
  <1>6. /\ dinode' \in [Inum -> [type : Types, nlink : Int]]
        /\ \A j \in Inum : j # i => dinode'[j] = dinode[j]
    BY <1>1, <1>2, <1>3, <1>4, <1>5, IupdateFacts
  <1>7. Typed' /\ Others(p) /\ freeing'[p] = "done" /\ \A q \in Proc : q # p => freeing'[q] = freeing[q]
    <2>1. Moves(p) /\ freeing'[p] = "done" /\ \A q \in Proc : q # p => freeing'[q] = freeing[q]
      BY <1>1, <1>4 DEF Typed, Moves
    <2>2. LocalsTyped(p)'
      BY <1>1, <1>4, <2>1 DEF LocalsTyped
    <2>3. Empty \in [Names -> Inum \cup {None}]
      BY DEF Empty, Names
    <2>4. DiskTyped' /\ lost' \subseteq Inum
      BY <1>1, <1>2, <1>4, <1>6, <2>3 DEF DiskTyped
    <2> QED BY <1>1, <1>3, <1>4, <2>1, <2>2, <2>4, MovesFacts
  <1>8. ASSUME NEW q \in Proc, NEW t \in Slot
        PROVE  /\ Keeps(q, t)' <=> Keeps(q, t)
               /\ Put1(q, t)' <=> Put1(q, t)
               /\ Put2(q, t)' <=> Put2(q, t)
               /\ Frees(q, t)' <=> Frees(q, t)
               /\ Holds(q, t)' <=> Holds(q, t)
               /\ DoneWith(q, t)' <=> DoneWith(q, t) \/ (q = p /\ t = s)
    <2>1. /\ Keeps(q, t)' <=> Keeps(q, t)
          /\ Put1(q, t)' <=> Put1(q, t)
          /\ Put2(q, t)' <=> Put2(q, t)
      BY <1>4 DEF Keeps, Put1, Put2
    <2>2. Put1(p, t) <=> t = s
      BY <1>1, FirstFacts DEF s
    <2>3. /\ Frees(q, t)' <=> Frees(q, t)
          /\ DoneWith(q, t)' <=> DoneWith(q, t) \/ (q = p /\ t = s)
      BY <1>1, <1>7, <2>1, <2>2 DEF Frees, DoneWith
    <2>4. Holds(q, t)' <=> Holds(q, t)
      BY <1>4, <2>3 DEF Holds
    <2> QED BY <2>1, <2>3, <2>4
  <1>9. \A q \in Proc : Placed(q)'
    BY <1>1, <1>4, <1>7 DEF CacheInv, Placed, InPlace, PutsShort
  <1>10. Counted'
    <2>1. ASSUME NEW t \in Slot PROVE References(t)' = References(t)
      BY <1>4 DEF References, Users, Puts
    <2> QED BY <1>3, <1>4, <2>1 DEF CacheInv, Counted
  <1>11. NumbersRight'
    BY <1>3, <1>4 DEF CacheInv, NumbersRight
  <1>12. LocksRight'
    BY <1>3, <1>4, <1>8 DEF CacheInv, LocksRight
  <1>13. FreedAlone'
    BY <1>3, <1>4, <1>8 DEF CacheInv, FreedAlone
  <1>14. ASSUME NEW t \in Slot, t # s, icache[t].ref > 0
         PROVE  icache[t].inum \in Inum /\ icache[t].inum # i
    BY <1>2, <1>5, <1>14 DEF CacheInv, NumbersRight
  <1>15. Copied'
    <2>1. ASSUME NEW t \in Slot, icache'[t].ref > 0, icache'[t].valid
          PROVE  Match(t)' \/ \E q \in Proc : DoneWith(q, t)'
      <3>1. CASE t = s
        BY <1>8, <3>1
      <3>2. CASE t # s
        <4>1. icache[t].ref > 0 /\ icache[t].valid /\ icache'[t] = icache[t]
          BY <1>3, <1>4, <2>1, <3>2
        <4>2. Match(t) => Match(t)'
          BY <1>6, <1>14, <3>2, <4>1 DEF Match
        <4> QED BY <1>8, <4>1, <4>2 DEF CacheInv, Copied
      <3> QED BY <3>1, <3>2
    <2> QED BY <2>1 DEF Copied
  <1>16. Settled'
    <2>1. ASSUME NEW q \in Proc, NEW t \in Slot,
                 (Keeps(q, t) \/ Put2(q, t) \/ (Put1(q, t) /\ freeing[q] # "done"))'
          PROVE  dinode'[icache'[t].inum].type # "none"
      <3>1. /\ Keeps(q, t) \/ Put2(q, t) \/ (Put1(q, t) /\ freeing[q] # "done")
            /\ Put1(q, t) => q # p \/ Keeps(q, t) \/ Put2(q, t)
        BY <1>1, <1>7, <1>8, <2>1
      <3>2. t # s
        BY <1>2, <3>1 DEF CacheInv, FreedAlone
      <3>3. icache[t].ref > 0
        BY <3>1, InUse DEF CacheInv, Settles
      <3> QED BY <1>3, <1>4, <1>6, <1>14, <3>1, <3>2, <3>3 DEF CacheInv, Settled
    <2>2. ASSUME NEW q \in Proc, NEW t \in Slot,
                 (dp[q] = t \/ held[q] = t \/ (ip[q] = t /\ pc[q] \in IpLocked))'
          PROVE  icache'[t].valid
      BY <1>3, <1>4, <2>2 DEF CacheInv, Settled
    <2> QED BY <2>1, <2>2 DEF Settled
  <1> QED BY <1>7, <1>9, <1>10, <1>11, <1>12, <1>13, <1>15, <1>16 DEF CacheInv

LEMMA IputDoneKeeps ==
  ASSUME CacheInv, NEW p \in Proc, IputDone(p), NEW s \in Slot, s = Head(puts[p])
  PROVE  CacheInv'
  <1>1. /\ Typed /\ Placed(p) /\ LocalsTyped(p) /\ DiskTyped /\ lost \subseteq Inum
        /\ icache \in Caches /\ freeing[p] = "done" /\ puts[p] # << >>
    BY TypedFacts DEF CacheInv, IputDone, Placed, PutsShort
  <1>2. /\ s \in Slot /\ Put1(p, s) /\ icache[s].ref > 0 /\ \A t : Put1(p, t) <=> t = s
        /\ Frees(p, s) /\ DoneWith(p, s) /\ Holds(p, s)
    BY <1>1, FirstFacts DEF Frees, DoneWith, Holds
  <1>3. /\ UNCHANGED << dinode, dir, cwd, fd, pc, call, rest, ip, dp, held, lost >>
        /\ Moves(p) /\ puts'[p] = Tail(puts[p]) /\ freeing'[p] = "no"
    BY <1>1 DEF IputDone, Typed, disk, files, locals, ghosts, Moves, Dropped
  <1>4. /\ puts'[p] \in Seq(Slot) /\ Len(puts'[p]) <= 2
        /\ \A t : (Put1(p, t)' <=> Put2(p, t)) /\ ~Put2(p, t)'
    BY <1>1, <1>3, DroppedFacts
  <1>5. /\ icache' \in Caches /\ icache'[s].ref = icache[s].ref - 1
        /\ ~icache'[s].busy /\ ~icache'[s].valid /\ icache'[s].inum = icache[s].inum
        /\ \A t \in Slot : t # s => icache'[t] = icache[t]
    <2> DEFINE y == [icache[s] EXCEPT !.busy = FALSE, !.ref = icache[s].ref - 1, !.valid = FALSE]
    <2>1. icache[s] \in Record
      BY <1>1, <1>2 DEF Caches
    <2>2. /\ y \in Record /\ y.busy = FALSE /\ y.inum = icache[s].inum
          /\ y.ref = icache[s].ref - 1 /\ y.valid = FALSE
      <3>1. icache[s].ref \in Nat /\ icache[s].ref - 1 \in Nat
        BY <1>2, <2>1 DEF Record
      <3> QED BY <2>1, <3>1 DEF Record
    <2>3. icache' = [icache EXCEPT ![s] = y]
      BY DEF IputDone, KeepsValid
    <2> HIDE DEF y
    <2>4. icache' \in Caches /\ icache'[s] = y /\ \A t \in Slot : t # s => icache'[t] = icache[t]
      BY <1>1, <1>2, <2>2, <2>3 DEF Caches
    <2> QED BY <2>2, <2>4
  <1>6. Typed' /\ Others(p)
    <2>1. LocalsTyped(p)' /\ DiskTyped' /\ lost' \subseteq Inum
      BY <1>1, <1>3, <1>4 DEF LocalsTyped, DiskTyped
    <2> QED BY <1>1, <1>3, <1>5, <2>1, MovesFacts
  <1>7. \A q \in Proc : Placed(q)'
    <2>1. Placed(p)'
      BY <1>1, <1>3, <1>4 DEF Placed, InPlace, PutsShort
    <2> QED BY <1>6, <2>1, OthersStay DEF CacheInv
  <1>8. \A q \in Proc : ~Keeps(q, s) /\ ~Put2(q, s) /\ (q # p => ~Put1(q, s) /\ ~Holds(q, s))
    BY <1>2 DEF CacheInv, FreedAlone, LocksRight
  <1>9. \A q \in Proc : ~Put1(q, s)'
    <2>1. ~Put1(p, s)'
      BY <1>4, <1>8
    <2>2. ASSUME NEW q \in Proc, q # p PROVE ~Put1(q, s)'
      BY <1>6, <1>8, <2>2, OthersStay
    <2> QED BY <2>1, <2>2
  <1>10. ASSUME NEW q \in Proc, NEW t \in Slot
         PROVE  /\ Keeps(q, t)' <=> Keeps(q, t)
                /\ Put1(q, t)' => Put1(q, t) \/ Put2(q, t)
                /\ Put2(q, t)' => Put2(q, t)
                /\ Put1(q, t)' /\ ~Put2(q, t) => freeing'[q] = freeing[q]
                /\ Frees(q, t)' <=> q # p /\ Frees(q, t)
                /\ DoneWith(q, t)' <=> q # p /\ DoneWith(q, t)
                /\ t # s => (Holds(q, t)' <=> Holds(q, t))
    <2>1. CASE q # p
      <3>1. freeing'[q] = freeing[q]
        BY <1>6, <2>1 DEF Others
      <3> QED BY <1>6, <2>1, <3>1, OthersStay
    <2>2. CASE q = p
      <3>1. Keeps(p, t)' <=> Keeps(p, t)
        BY <1>3 DEF Keeps
      <3>2. ~Frees(p, t)' /\ ~DoneWith(p, t)'
        BY <1>3 DEF Frees, DoneWith
      <3>3. t # s => ~Frees(p, t)
        BY <1>2 DEF Frees
      <3>4. t # s => (Holds(p, t)' <=> Holds(p, t))
        BY <1>3, <3>2, <3>3 DEF Holds
      <3> QED BY <1>4, <2>2, <3>1, <3>2, <3>4
    <2> QED BY <2>1, <2>2
  <1>11. Counted'
    <2>1. ASSUME NEW t \in Slot PROVE icache'[t].ref = References(t)'
      <3>1. icache[t].ref = References(t) /\ icache[t].ref \in Nat /\ icache[s].ref \in Nat
        BY <1>1, <1>2 DEF CacheInv, Counted, Caches, Record
      <3>2. References(t)' = References(t) - Mine(p, t) + Mine(p, t)'
        BY <1>6, ReferencesMove
      <3>3. icache'[t].ref = icache[t].ref - Is(t = s)
        BY <1>5, <3>1 DEF Is
      <3>4. Mine(p, t)' = Mine(p, t) - Is(t = s)
        BY <1>2, <1>3, <1>4 DEF Mine, Is
      <3>5. Mine(p, t) \in Nat /\ Is(t = s) \in Nat
        BY MineNat DEF Is
      <3> QED BY <3>1, <3>2, <3>3, <3>4, <3>5
    <2> QED BY <2>1 DEF Counted
  <1>12. \A t \in Slot : icache'[t].ref > 0 => icache[t].ref > 0 /\ icache'[t].inum = icache[t].inum
    BY <1>2, <1>5
  <1>13. NumbersRight'
    BY <1>12 DEF CacheInv, NumbersRight
  <1>14. LocksRight'
    <2>1. ASSUME NEW t \in Slot PROVE icache'[t].busy <=> \E q \in Proc : Holds(q, t)'
      <3>1. CASE t = s
        <4>1. ~Holds(p, s)'
          <5>1. dp[p] # s /\ (ip[p] = s => pc[p] \in Waiting)
            BY <1>8 DEF Keeps
          <5>2. ~Frees(p, s)'
            BY <1>3 DEF Frees
          <5>3. \A l \in Waiting : l \notin IpLocked
            BY DEF Waiting, IpLocked
          <5> QED BY <1>3, <5>1, <5>2, <5>3 DEF Holds
        <4>2. ASSUME NEW q \in Proc, q # p PROVE ~Holds(q, s)'
          BY <1>2, <1>6, <1>8, <4>2, OthersStay
        <4>3. \A q \in Proc : ~Holds(q, s)'
          BY <4>1, <4>2
        <4> QED BY <1>5, <3>1, <4>3
      <3>2. CASE t # s
        BY <1>5, <1>10, <3>2 DEF CacheInv, LocksRight
      <3> QED BY <3>1, <3>2
    <2>2. ASSUME NEW q \in Proc, NEW r \in Proc, NEW t \in Slot, Holds(q, t)', Holds(r, t)'
          PROVE  q = r
      <3>1. t # s
        BY <1>5, <2>1, <2>2
      <3> QED BY <1>10, <2>2, <3>1 DEF CacheInv, LocksRight
    <2> QED BY <2>1, <2>2 DEF LocksRight
  <1>15. FreedAlone'
    <2>1. ASSUME NEW q \in Proc, NEW r \in Proc, NEW t \in Slot, Frees(q, t)'
          PROVE  /\ icache'[t].valid
                 /\ ~Keeps(r, t)' /\ ~Put2(r, t)' /\ (Put1(r, t)' => r = q)
      <3>1. Frees(q, t) /\ q # p
        BY <1>10, <2>1
      <3>2. t # s
        BY <1>8, <3>1 DEF Holds
      <3>3. icache[t].valid /\ ~Keeps(r, t) /\ ~Put2(r, t) /\ (Put1(r, t) => r = q)
        BY <3>1 DEF CacheInv, FreedAlone
      <3> QED BY <1>5, <1>10, <3>2, <3>3
    <2> QED BY <2>1 DEF FreedAlone
  <1>16. Copied'
    <2>1. ASSUME NEW t \in Slot, icache'[t].ref > 0, icache'[t].valid
          PROVE  Match(t)' \/ \E q \in Proc : DoneWith(q, t)'
      <3>1. t # s /\ icache'[t] = icache[t]
        BY <1>5, <2>1
      <3>2. ~DoneWith(p, t)
        BY <1>2, <3>1 DEF DoneWith
      <3>3. Match(t) => Match(t)'
        BY <1>3, <3>1 DEF Match
      <3> QED BY <1>10, <2>1, <3>1, <3>2, <3>3 DEF CacheInv, Copied
    <2> QED BY <2>1 DEF Copied
  <1>17. Settled'
    <2>1. ASSUME NEW q \in Proc, NEW t \in Slot,
                 (Keeps(q, t) \/ Put2(q, t) \/ (Put1(q, t) /\ freeing[q] # "done"))'
          PROVE  dinode'[icache'[t].inum].type # "none"
      <3>1. Keeps(q, t) \/ Put2(q, t) \/ (Put1(q, t) /\ freeing[q] # "done")
        BY <1>10, <2>1
      <3>2. icache'[t].inum = icache[t].inum
        BY <1>5
      <3> QED BY <1>3, <3>1, <3>2 DEF CacheInv, Settled
    <2>2. ASSUME NEW q \in Proc, NEW t \in Slot,
                 (dp[q] = t \/ held[q] = t \/ (ip[q] = t /\ pc[q] \in IpLocked))'
          PROVE  icache'[t].valid
      <3>1. dp[q] = t \/ held[q] = t \/ (ip[q] = t /\ pc[q] \in IpLocked)
        BY <1>3, <2>2
      <3>2. Keeps(q, t) /\ icache[t].valid
        BY <3>1 DEF Keeps, Waiting, IpLocked, CacheInv, Settled
      <3> QED BY <1>5, <1>8, <3>2
    <2> QED BY <2>1, <2>2 DEF Settled
  <1> QED BY <1>6, <1>7, <1>11, <1>13, <1>14, <1>15, <1>16, <1>17 DEF CacheInv

\* A step that changes nothing but panic, if that.
LEMMA SameKeeps ==
  ASSUME CacheInv, UNCHANGED << disk, icache, files, pc, locals, puts, freeing, lost >>
  PROVE  CacheInv'
  <1> USE DEF disk, files, locals
  <1>1. Typed'
    BY DEF CacheInv, Typed
  <1>2. ASSUME NEW q \in Proc
        PROVE  Placed(q)' /\ \A t : /\ Keeps(q, t)' <=> Keeps(q, t)
                                    /\ Put1(q, t)' <=> Put1(q, t)
                                    /\ Put2(q, t)' <=> Put2(q, t)
                                    /\ Frees(q, t)' <=> Frees(q, t)
                                    /\ DoneWith(q, t)' <=> DoneWith(q, t)
                                    /\ Holds(q, t)' <=> Holds(q, t)
    <2>1. Others(q)
      BY DEF Others
    <2>2. Placed(q)'
      BY DEF CacheInv, Placed, InPlace, PutsShort
    <2>3. ASSUME NEW t PROVE /\ Keeps(q, t)' <=> Keeps(q, t)
                             /\ Put1(q, t)' <=> Put1(q, t)
                             /\ Put2(q, t)' <=> Put2(q, t)
                             /\ Frees(q, t)' <=> Frees(q, t)
                             /\ DoneWith(q, t)' <=> DoneWith(q, t)
      BY DEF Keeps, Put1, Put2, Frees, DoneWith
    <2>4. ASSUME NEW t PROVE Holds(q, t)' <=> Holds(q, t)
      BY <2>3 DEF Holds
    <2> QED BY <2>2, <2>3, <2>4
  <1>3. Counted'
    <2>1. ASSUME NEW t \in Slot PROVE References(t)' = References(t)
      BY DEF References, Users, Puts
    <2> QED BY <2>1 DEF CacheInv, Counted
  <1>4. NumbersRight'
    BY DEF CacheInv, NumbersRight
  <1>5. LocksRight' /\ FreedAlone'
    BY <1>2 DEF CacheInv, LocksRight, FreedAlone
  <1>6. Copied'
    BY <1>2 DEF CacheInv, Copied, Match
  <1>7. Settled'
    BY <1>2 DEF CacheInv, Settled
  <1> QED BY <1>1, <1>2, <1>3, <1>4, <1>5, <1>6, <1>7 DEF CacheInv

LEMMA InitCacheInv == ASSUME Init PROVE CacheInv
  <1> USE DEF Init
  <1>1. 1 \in Slot /\ 1 # NoSlot /\ ROOTINO \in Inum /\ None \notin Inum
    BY SlotFacts
  <1>2. IsFiniteSet(Proc) /\ Cardinality(Proc) \in Nat /\ Cardinality({}) = 0
    BY InodesAssumption, FS_CardinalityType, FS_EmptySet
  <1>3. Unused \in Record /\ [Unused EXCEPT !.inum = ROOTINO, !.ref = Cardinality(Proc)] \in Record
    <2>1. Unused \in Record
      BY DEF Unused, Record, Types
    <2>2. \A u \in Record : [u EXCEPT !.inum = ROOTINO, !.ref = Cardinality(Proc)] \in Record
      BY <1>1, <1>2 DEF Record
    <2> QED BY <2>1, <2>2
  <1>4. \A s \in Slot : icache[s] = IF s = 1 THEN [Unused EXCEPT !.inum = ROOTINO, !.ref = Cardinality(Proc)]
                                             ELSE Unused
    OBVIOUS
  <1>5. \A s \in Slot : /\ ~icache[s].busy /\ ~icache[s].valid
                        /\ icache[s].ref = IF s = 1 THEN Cardinality(Proc) ELSE 0
                        /\ s = 1 => icache[s].inum = ROOTINO
    BY <1>4 DEF Unused
  <1>6. Typed
    <2>1. Empty \in [Names -> Inum \cup {None}]
          /\ [Empty EXCEPT ![".."] = ROOTINO] \in [Names -> Inum \cup {None}]
      BY <1>1 DEF Empty, Names
    <2>2. dinode \in [Inum -> [type : Types, nlink : Int]] /\ dir \in [Inum -> [Names -> Inum \cup {None}]]
      BY <2>1 DEF Free, Types
    <2>3. icache \in [Slot -> Record]
      BY <1>3
    <2>4. /\ rest \in [Proc -> Seq(Names)] /\ puts \in [Proc -> Seq(Slot)]
      OBVIOUS
    <2> QED BY <1>1, <2>2, <2>3, <2>4 DEF Typed, Labels
  <1>7. \A q \in Proc : /\ cwd[q] = 1 /\ fd[q] = NoSlot /\ pc[q] = "user" /\ ip[q] = NoSlot /\ dp[q] = NoSlot
                        /\ held[q] = NoSlot /\ puts[q] = << >> /\ freeing[q] = "no"
    OBVIOUS
  <1>8. ASSUME NEW q \in Proc, NEW t \in Slot
        PROVE ~Put1(q, t) /\ ~Put2(q, t) /\ ~Frees(q, t) /\ ~Holds(q, t) /\ (Keeps(q, t) <=> t = 1)
    <2>1. ~Put1(q, t) /\ ~Put2(q, t)
      BY <1>7, PutsFacts
    <2>2. t # NoSlot
      BY SlotFacts
    <2> QED BY <1>7, <2>1, <2>2 DEF Frees, Holds, Keeps, IpLocked, DpLocked
  <1>9. \A q \in Proc : Placed(q)
    BY <1>7 DEF Placed, InPlace, PutsShort, HasIp, HasDp, Waiting, IpLocked, DpLocked
  <1>10. Counted
    <2>1. ASSUME NEW s \in Slot PROVE icache[s].ref = References(s)
      <3>1. s # NoSlot
        BY SlotFacts
      <3>2. /\ {q \in Proc : fd[q] = s} = {} /\ {q \in Proc : ip[q] = s} = {}
            /\ {q \in Proc : dp[q] = s} = {} /\ {q \in Proc : held[q] = s} = {}
        BY <1>7, <3>1
      <3>3. /\ {q \in Proc : 1 \in DOMAIN puts[q] /\ puts[q][1] = s} = {}
            /\ {q \in Proc : 2 \in DOMAIN puts[q] /\ puts[q][2] = s} = {}
        BY <1>8 DEF Put1, Put2
      <3>4. {q \in Proc : cwd[q] = s} = IF s = 1 THEN Proc ELSE {}
        BY <1>7
      <3>5. Users(cwd, s) = IF s = 1 THEN Cardinality(Proc) ELSE 0
        BY <1>2, <3>4 DEF Users
      <3>6. Users(fd, s) = 0 /\ Users(ip, s) = 0 /\ Users(dp, s) = 0 /\ Users(held, s) = 0
        BY <1>2, <3>2 DEF Users
      <3>7. Puts(1, s) = 0 /\ Puts(2, s) = 0
        BY <1>2, <3>3 DEF Puts
      <3>8. icache[s].ref = Users(cwd, s) /\ Users(cwd, s) \in Nat
        BY <1>2, <1>5, <3>5
      <3> HIDE DEF Init
      <3> QED BY <3>6, <3>7, <3>8 DEF References
    <2> QED BY <2>1 DEF Counted
  <1>11. NumbersRight
    BY <1>1, <1>5 DEF NumbersRight
  <1>12. LocksRight
    BY <1>5, <1>8 DEF LocksRight
  <1>13. FreedAlone
    BY <1>8 DEF FreedAlone
  <1>14. Copied
    BY <1>5 DEF Copied
  <1>15. Settled
    <2>1. dinode[icache[1].inum].type # "none"
      BY <1>1, <1>5
    <2>2. \A q \in Proc, s \in Slot : ~(dp[q] = s \/ held[q] = s \/ (ip[q] = s /\ pc[q] \in IpLocked))
      BY <1>7, SlotFacts
    <2> QED BY <1>8, <2>1, <2>2 DEF Settled
  <1> QED BY <1>6, <1>9, <1>10, <1>11, <1>12, <1>13, <1>14, <1>15 DEF CacheInv

(***************************************************************************)
(* Every step.                                                             *)
(***************************************************************************)
LEMMA PanicKeeps == ASSUME CacheInv, NEW why, Panic(why) PROVE CacheInv'
  BY SameKeeps DEF Panic

LEMMA AtSlots ==
  ASSUME CacheInv, NEW p \in Proc
  PROVE  /\ pc[p] \in HasIp => ip[p] \in Slot
         /\ pc[p] \in HasDp => dp[p] \in Slot
         /\ pc[p] = "bad" => held[p] \in Slot
         /\ pc[p] = "parent" /\ call[p].op = "link" => held[p] \in Slot
  BY DEF CacheInv, Typed, Placed, InPlace

\* What a slot refers to, and what its directory says, when its owner asks.
LEMMA Known ==
  ASSUME CacheInv, NEW p \in Proc, NEW s \in Slot, Has(p, s)
  PROVE  /\ icache[s].inum \in Inum
         /\ \A n \in Names : dir[icache[s].inum][n] \in Inum \cup {None}
  <1>1. icache[s].ref >= 1 /\ icache[s].ref \in Nat
    BY Taken DEF CacheInv
  <1>2. icache[s].inum \in Inum
    BY <1>1 DEF CacheInv, NumbersRight
  <1> QED BY <1>2 DEF CacheInv, Typed

LEMMA WalkKeeps == ASSUME CacheInv, NEW p \in Proc, Walk(p) PROVE CacheInv'
  <1>1. PICK s : s = ip[p]
    OBVIOUS
  <1>2. /\ Ready(p, "walk") /\ Lockable(s) /\ s \in Slot /\ Has(p, s)
        /\ rest[p] # << >> /\ rest[p] \in Seq(Names) /\ Head(rest[p]) \in Names
    <2>1. Ready(p, "walk") /\ Lockable(s)
      BY <1>1 DEF Walk
    <2>2. s \in Slot /\ Has(p, s)
      BY <1>1, <2>1, AtSlots DEF Ready, HasIp, Waiting, Has
    <2>3. rest[p] # << >> /\ rest[p] \in Seq(Names)
      BY <2>1 DEF Ready, CacheInv, Typed, Placed, InPlace
    <2> QED BY <2>1, <2>2, <2>3
  <1> DEFINE next == dir[icache[s].inum][Head(rest[p])]
             stops == AsParent(p) /\ Len(rest[p]) = 1
             fails == Use(s)[s].type # "T_DIR"
  <1>3. next \in Inum \cup {None}
    BY <1>2, Known
  <1>4. CASE \E w : Panic(w)
    BY <1>4, PanicKeeps
  <1>5. CASE /\ Use(s)[s].type # "none" /\ icache' = Use(s) /\ Put(p, << s >>) /\ Fail(p)
             /\ UNCHANGED << disk, files, freeing, ghosts >>
    BY <1>1, <1>2, <1>5, WalkFails, OrdinaryKeeps
  <1>6. CASE /\ ~fails /\ stops
             /\ icache' = Use(s) /\ Goto(p, "parent")
             /\ ip' = [ip EXCEPT ![p] = NoSlot] /\ dp' = [dp EXCEPT ![p] = s]
             /\ UNCHANGED << disk, files, call, rest, held, puts, freeing, ghosts >>
    <2>1. Use(s)[s].type # "none"
      BY <1>6
    <2> QED BY <1>1, <1>2, <1>6, <2>1, WalkStops, OrdinaryKeeps
  <1>7. CASE /\ ~fails /\ ~stops /\ next # None /\ IgetSlot(Use(s), next) # NoSlot
             /\ icache' = iget(Use(s), next)
             /\ ip' = [ip EXCEPT ![p] = IgetSlot(Use(s), next)]
             /\ rest' = [rest EXCEPT ![p] = Tail(@)]
             /\ Put(p, << s >>)
             /\ Goto(p, IF Len(rest[p]) = 1 THEN "found" ELSE "walk")
             /\ UNCHANGED << disk, files, call, dp, held, freeing, ghosts >>
    <2>1. Use(s)[s].type # "none" /\ next \in Inum /\ (AsParent(p) => Len(rest[p]) # 1)
      BY <1>3, <1>7
    <2> HIDE DEF next
    <2> QED BY <1>1, <1>2, <1>7, <2>1, WalkGoes, OrdinaryKeeps
  <1>8. \/ \E w : Panic(w)
        \/ /\ Use(s)[s].type # "none" /\ icache' = Use(s) /\ Put(p, << s >>) /\ Fail(p)
           /\ UNCHANGED << disk, files, freeing, ghosts >>
        \/ /\ ~fails /\ stops
           /\ icache' = Use(s) /\ Goto(p, "parent")
           /\ ip' = [ip EXCEPT ![p] = NoSlot] /\ dp' = [dp EXCEPT ![p] = s]
           /\ UNCHANGED << disk, files, call, rest, held, puts, freeing, ghosts >>
        \/ /\ ~fails /\ ~stops /\ next # None /\ IgetSlot(Use(s), next) # NoSlot
           /\ icache' = iget(Use(s), next)
           /\ ip' = [ip EXCEPT ![p] = IgetSlot(Use(s), next)]
           /\ rest' = [rest EXCEPT ![p] = Tail(@)]
           /\ Put(p, << s >>)
           /\ Goto(p, IF Len(rest[p]) = 1 THEN "found" ELSE "walk")
           /\ UNCHANGED << disk, files, call, dp, held, freeing, ghosts >>
    BY <1>1 DEF Walk
  <1> QED BY <1>4, <1>5, <1>6, <1>7, <1>8

LEMMA FoundKeeps == ASSUME CacheInv, NEW p \in Proc, Found(p) PROVE CacheInv'
  <1>1. PICK s : s = ip[p]
    OBVIOUS
  <1>2. Ready(p, "found") /\ Lockable(s) /\ s \in Slot
    <2>1. Ready(p, "found") /\ Lockable(s)
      BY <1>1 DEF Found
    <2> QED BY <1>1, <2>1, AtSlots DEF Ready, HasIp, Waiting
  <1>3. CASE \E w : Panic(w)
    BY <1>3, PanicKeeps
  <1>4. CASE /\ Use(s)[s].type # "none" /\ icache' = Use(s) /\ Return(p)
             /\ UNCHANGED << disk, freeing, ghosts >>
             /\ \/ Opens(p, s)
                \/ Put(p, << s >>) /\ UNCHANGED files
                \/ cwd' = [cwd EXCEPT ![p] = s] /\ Put(p, << cwd[p] >>) /\ UNCHANGED fd
    BY <1>1, <1>2, <1>4, EndsWithIp, OrdinaryKeeps
  <1>5. CASE /\ Use(s)[s].type # "none" /\ call[p].op = "link"
             /\ Start(p, call[p].new, AddLink(Use(s), s, 1)) /\ iupdate(AddLink(Use(s), s, 1), s)
             /\ held' = [held EXCEPT ![p] = s]
             /\ UNCHANGED << dir, files, call, dp, puts, freeing, ghosts >>
    BY <1>1, <1>2, <1>5, FoundLinks, OrdinaryKeeps
  <1>6. \/ \E w : Panic(w)
        \/ /\ Use(s)[s].type # "none" /\ icache' = Use(s) /\ Return(p)
           /\ UNCHANGED << disk, freeing, ghosts >>
           /\ \/ Opens(p, s)
              \/ Put(p, << s >>) /\ UNCHANGED files
              \/ cwd' = [cwd EXCEPT ![p] = s] /\ Put(p, << cwd[p] >>) /\ UNCHANGED fd
        \/ /\ Use(s)[s].type # "none" /\ call[p].op = "link"
           /\ Start(p, call[p].new, AddLink(Use(s), s, 1)) /\ iupdate(AddLink(Use(s), s, 1), s)
           /\ held' = [held EXCEPT ![p] = s]
           /\ UNCHANGED << dir, files, call, dp, puts, freeing, ghosts >>
    BY <1>1 DEF Found
  <1> QED BY <1>3, <1>4, <1>5, <1>6

LEMMA LinkEnterKeeps == ASSUME CacheInv, NEW p \in Proc, LinkEnter(p) PROVE CacheInv'
  <1>1. PICK s : s = dp[p]
    OBVIOUS
  <1>2. PICK h : h = held[p]
    OBVIOUS
  <1>3. /\ Ready(p, "parent") /\ call[p].op = "link" /\ Lockable(s) /\ icache' = Use(s)
        /\ UNCHANGED << dinode, files, freeing, ghosts >>
    BY <1>1 DEF LinkEnter
  <1>4. s \in Slot /\ h \in Slot /\ Has(p, s) /\ Has(p, h)
    BY <1>1, <1>2, <1>3, AtSlots DEF Ready, HasDp, Has
  <1>5. Use(s)[s].inum \in Inum /\ Use(s)[h].inum \in Inum
    <2>1. icache[s].inum \in Inum /\ icache[h].inum \in Inum
      BY <1>4, Known
    <2> QED BY <1>4, <2>1, LoadedFacts, UseFacts DEF CacheInv
  <1>6. CASE Put(p, << s >>) /\ Fail(p) /\ UNCHANGED dir
    BY <1>1, <1>3, <1>4, <1>6, LinkFails, OrdinaryKeeps DEF disk
  <1>7. CASE /\ EnterName(Use(s)[s].inum, LastName(p), Use(s)[h].inum)
             /\ Put(p, << s, held[p] >>) /\ Return(p)
    BY <1>1, <1>3, <1>4, <1>5, <1>7, LinkEnters, OrdinaryKeeps
  <1> QED BY <1>1, <1>2, <1>6, <1>7 DEF LinkEnter

LEMMA LinkBadKeeps == ASSUME CacheInv, NEW p \in Proc, LinkBad(p) PROVE CacheInv'
  <1>1. PICK s : s = held[p]
    OBVIOUS
  <1>2. s \in Slot
    BY <1>1, AtSlots DEF LinkBad, Ready
  <1>3. /\ Ready(p, "bad") /\ Lockable(s)
        /\ icache' = AddLink(icache, s, TakesBack) /\ iupdate(AddLink(icache, s, TakesBack), s)
        /\ Put(p, << s >>) /\ Return(p)
        /\ UNCHANGED << dir, files, freeing, ghosts >>
    BY <1>1 DEF LinkBad
  <1> QED BY <1>1, <1>2, <1>3, LinkBadOrdinary, OrdinaryKeeps

\* The entry that a call looks at, in the directory that it has arrived at.
LEMMA EntryIs ==
  ASSUME CacheInv, NEW p \in Proc, pc[p] \in {"parent", "ialloc", "dots", "dotdot", "enter", "victim"}
  PROVE  /\ dp[p] \in Slot /\ Has(p, dp[p]) /\ icache[dp[p]].inum \in Inum
         /\ LastName(p) \in Names /\ Entry(p) \in Inum \cup {None}
  <1>1. dp[p] \in Slot /\ Has(p, dp[p])
    BY AtSlots DEF HasDp, DpLocked, Has
  <1>2. rest[p] # << >> /\ rest[p] \in Seq(Names)
    BY DEF CacheInv, Typed, Placed, InPlace, HasDp, DpLocked
  <1>3. LastName(p) \in Names
    BY <1>2, LastFacts DEF LastName
  <1> QED BY <1>1, <1>3, Known DEF Entry, Dir

LEMMA CreateLookupKeeps == ASSUME CacheInv, NEW p \in Proc, CreateLookup(p) PROVE CacheInv'
  <1>1. PICK s : s = dp[p]
    OBVIOUS
  <1>2. PICK i : i = Entry(p)
    OBVIOUS
  <1>3. Ready(p, "parent") /\ Creates(p) /\ Lockable(s)
    BY <1>1 DEF CreateLookup
  <1>4. s \in Slot /\ i \in Inum \cup {None} /\ call[p].op # "link"
    BY <1>1, <1>2, <1>3, EntryIs DEF Ready, Creates
  <1>5. CASE \E w : Panic(w)
    BY <1>5, PanicKeeps
  <1>6. CASE /\ i # None /\ IgetSlot(Use(s), i) # NoSlot /\ icache' = iget(Use(s), i)
             /\ ip' = [ip EXCEPT ![p] = IgetSlot(Use(s), i)]
             /\ PutDp(p) /\ Goto(p, "exists")
             /\ UNCHANGED << disk, files, call, rest, held, freeing, ghosts >>
    BY <1>1, <1>3, <1>4, <1>6, CreateFinds, OrdinaryKeeps
  <1>7. CASE /\ icache' = Lock(s) /\ Goto(p, "ialloc")
             /\ UNCHANGED << disk, files, locals, puts, freeing, ghosts >>
    BY <1>1, <1>3, <1>4, <1>7, CreateLocks, OrdinaryKeeps
  <1> QED BY <1>1, <1>2, <1>5, <1>6, <1>7 DEF CreateLookup

LEMMA CreateExistsKeeps == ASSUME CacheInv, NEW p \in Proc, CreateExists(p) PROVE CacheInv'
  <1>1. PICK s : s = ip[p]
    OBVIOUS
  <1>2. Ready(p, "exists") /\ Lockable(s) /\ s \in Slot
    <2>1. Ready(p, "exists") /\ Lockable(s)
      BY <1>1 DEF CreateExists
    <2> QED BY <1>1, <2>1, AtSlots DEF Ready, HasIp, Waiting
  <1>3. CASE \E w : Panic(w)
    BY <1>3, PanicKeeps
  <1>4. CASE /\ Use(s)[s].type # "none" /\ icache' = Use(s) /\ Return(p)
             /\ UNCHANGED << disk, freeing, ghosts >>
             /\ \/ Opens(p, s)
                \/ Put(p, << s >>) /\ UNCHANGED files
    BY <1>1, <1>2, <1>4, EndsWithIp, OrdinaryKeeps
  <1> QED BY <1>1, <1>3, <1>4 DEF CreateExists

LEMMA iallocKeeps == ASSUME CacheInv, NEW p \in Proc, ialloc(p) PROVE CacheInv'
  <1> DEFINE free == {i \in Inum : dinode[i].type = "none"}
             ty == IF call[p].op = "mkdir" THEN "T_DIR" ELSE "T_FILE"
  <1>1. PICK i : i = Min(free)
    OBVIOUS
  <1>2. CASE \E w : Panic(w)
    BY <1>2, PanicKeeps
  <1>3. CASE /\ free # {} /\ IgetSlot(icache, i) # NoSlot
             /\ dinode' = [dinode EXCEPT ![i] = [type |-> ty, nlink |-> 0]]
             /\ icache' = iget(icache, i)
             /\ ip' = [ip EXCEPT ![p] = IgetSlot(icache, i)]
             /\ Goto(p, "inew")
             /\ UNCHANGED << dir, files, call, rest, dp, held, puts, freeing, ghosts >>
    <2>1. free \in SUBSET Nat
      BY SlotFacts
    <2>2. i \in free
      BY <1>1, <1>3, <2>1, MinInSet
    <2>3. i \in Inum /\ dinode[i].type = "none" /\ ty \in {"T_DIR", "T_FILE"} /\ Ready(p, "ialloc")
      BY <2>2 DEF ialloc
    <2> HIDE DEF ty, free
    <2> QED BY <1>3, <2>3, iallocOrdinary, OrdinaryKeeps
  <1> QED BY <1>1, <1>2, <1>3 DEF ialloc

LEMMA CreateInodeKeeps == ASSUME CacheInv, NEW p \in Proc, CreateInode(p) PROVE CacheInv'
  <1>1. PICK s : s = ip[p]
    OBVIOUS
  <1>2. PICK c : c = SetLink(Lock(s), s)
    OBVIOUS
  <1>3. Ready(p, "inew") /\ Lockable(s) /\ s \in Slot
    <2>1. Ready(p, "inew") /\ Lockable(s)
      BY <1>1 DEF CreateInode
    <2> QED BY <1>1, <2>1, AtSlots DEF Ready, HasIp, Waiting
  <1>4. \/ \E w : Panic(w)
        \/ /\ c[s].type # "none" /\ icache' = c /\ iupdate(c, s)
           /\ Goto(p, IF call[p].op = "mkdir" THEN "dots" ELSE "enter")
           /\ UNCHANGED << dir, files, locals, puts, freeing, ghosts >>
    BY <1>1, <1>2 DEF CreateInode, SetLink
  <1>5. CASE \E w : Panic(w)
    BY <1>5, PanicKeeps
  <1>6. CASE /\ c[s].type # "none" /\ icache' = c /\ iupdate(c, s)
             /\ Goto(p, IF call[p].op = "mkdir" THEN "dots" ELSE "enter")
             /\ UNCHANGED << dir, files, locals, puts, freeing, ghosts >>
    BY <1>1, <1>2, <1>3, <1>6, CreateInodeOrdinary, OrdinaryKeeps
  <1> QED BY <1>4, <1>5, <1>6

LEMMA CreateDotsKeeps ==
  ASSUME CacheInv, NEW p \in Proc, CreateCountsDotdot(p) \/ CreateDotdot(p) \/ CreateEnter(p)
  PROVE CacheInv'
  <1>1. PICK s : s = dp[p]
    OBVIOUS
  <1>2. PICK i, j : i = icache[ip[p]].inum /\ j = icache[dp[p]].inum
    OBVIOUS
  <1>3. pc[p] \in {"dots", "dotdot", "enter"}
    BY DEF CreateCountsDotdot, CreateDotdot, CreateEnter, Ready
  <1>4. s \in Slot /\ i \in Inum /\ j \in Inum
    <2>1. ip[p] \in Slot /\ Has(p, ip[p])
      BY <1>3, AtSlots DEF HasIp, IpLocked, Has
    <2> QED BY <1>1, <1>2, <1>3, <2>1, Known, EntryIs
  <1>5. CASE CreateCountsDotdot(p)
    <2>1. PICK c : c = AddLink(icache, s, Dotdot)
      OBVIOUS
    <2>2. /\ Ready(p, "dots") /\ icache' = c /\ iupdate(c, s) /\ Goto(p, "dotdot")
          /\ UNCHANGED << dir, files, locals, puts, freeing, ghosts >>
      BY <1>1, <1>5, <2>1 DEF CreateCountsDotdot
    <2> QED BY <1>1, <1>4, <2>1, <2>2, DotsOrdinary, OrdinaryKeeps
  <1>6. CASE CreateDotdot(p)
    <2>1. /\ Ready(p, "dotdot") /\ EnterName(i, "..", j) /\ Goto(p, "enter")
          /\ UNCHANGED << dinode, icache, files, locals, puts, freeing, ghosts >>
      BY <1>2, <1>6 DEF CreateDotdot
    <2> QED BY <1>4, <2>1, DotdotOrdinary, OrdinaryKeeps
  <1>7. CASE CreateEnter(p)
    <2>1. /\ Ready(p, "enter") /\ EnterName(j, LastName(p), i) /\ icache' = Unlock(s)
          /\ PutDp(p) /\ Goto(p, "made")
          /\ UNCHANGED << dinode, files, call, rest, ip, held, freeing, ghosts >>
      BY <1>1, <1>2, <1>7 DEF CreateEnter
    <2> QED BY <1>1, <1>4, <2>1, EnterOrdinary, OrdinaryKeeps
  <1> QED BY <1>5, <1>6, <1>7

LEMMA CreateDoneKeeps == ASSUME CacheInv, NEW p \in Proc, CreateDone(p) PROVE CacheInv'
  <1>1. PICK s : s = ip[p]
    OBVIOUS
  <1>2. /\ Ready(p, "made") /\ icache' = Unlock(s) /\ Return(p)
        /\ Opens(p, s) \/ (Put(p, << s >>) /\ UNCHANGED files)
        /\ UNCHANGED << disk, freeing, ghosts >>
    BY <1>1 DEF CreateDone
  <1>3. s \in Slot
    BY <1>1, <1>2, AtSlots DEF Ready, HasIp, IpLocked
  <1> QED BY <1>1, <1>2, <1>3, MadeOrdinary, OrdinaryKeeps

LEMMA UnlinkLookupKeeps == ASSUME CacheInv, NEW p \in Proc, UnlinkLookup(p) PROVE CacheInv'
  <1>1. PICK s : s = dp[p]
    OBVIOUS
  <1>2. PICK i : i = Entry(p)
    OBVIOUS
  <1>3. Ready(p, "parent") /\ call[p].op = "unlink" /\ Lockable(s)
    BY <1>1 DEF UnlinkLookup
  <1>4. s \in Slot /\ i \in Inum \cup {None} /\ call[p].op # "link"
    BY <1>1, <1>2, <1>3, EntryIs DEF Ready
  <1>5. CASE \E w : Panic(w)
    BY <1>5, PanicKeeps
  <1>6. CASE /\ icache' = Use(s) /\ Put(p, << s >>) /\ Return(p)
             /\ UNCHANGED << disk, files, freeing, ghosts >>
    BY <1>1, <1>3, <1>4, <1>6, UnlinkMisses, OrdinaryKeeps
  <1>7. CASE /\ i # None /\ IgetSlot(Lock(s), i) # NoSlot /\ icache' = iget(Lock(s), i)
             /\ ip' = [ip EXCEPT ![p] = IgetSlot(Lock(s), i)]
             /\ Goto(p, "victim")
             /\ UNCHANGED << disk, files, call, rest, dp, held, puts, freeing, ghosts >>
    BY <1>1, <1>3, <1>4, <1>7, UnlinkFinds, OrdinaryKeeps
  <1> QED BY <1>1, <1>2, <1>5, <1>6, <1>7 DEF UnlinkLookup

LEMMA UnlinkEraseKeeps == ASSUME CacheInv, NEW p \in Proc, UnlinkErase(p) PROVE CacheInv'
  <1>1. PICK s : s = ip[p]
    OBVIOUS
  <1>2. PICK i : i = icache[dp[p]].inum
    OBVIOUS
  <1>3. Ready(p, "victim") /\ Lockable(s)
    BY <1>1 DEF UnlinkErase
  <1>4. s \in Slot /\ i \in Inum
    BY <1>1, <1>2, <1>3, AtSlots, EntryIs DEF Ready, HasIp, Waiting
  <1>5. Lock(s)[s].type = Use(s)[s].type
    <2>1. icache[s].inum \in Inum
      BY <1>1, <1>4, Known DEF Has
    <2> QED BY <1>4, <2>1, UseFacts, LockFacts DEF CacheInv
  <1>6. \/ \E w : Panic(w)
        \/ /\ Lock(s)[s].type # "none"
           /\ icache' = Use(s) /\ Put(p, << s >>) /\ Goto(p, "not_empty")
           /\ ip' = [ip EXCEPT ![p] = NoSlot]
           /\ UNCHANGED << disk, files, call, rest, dp, held, freeing, ghosts >>
        \/ /\ Lock(s)[s].type # "none" /\ EnterName(i, LastName(p), None)
           /\ icache' = Lock(s) /\ Goto(p, "undot") /\ UNCHANGED << dp, puts >>
           /\ UNCHANGED << dinode, files, call, rest, ip, held, freeing, ghosts >>
        \/ /\ Lock(s)[s].type # "none" /\ EnterName(i, LastName(p), None)
           /\ icache' = Unlocked(Lock(s), dp[p]) /\ PutDp(p) /\ Goto(p, "erased")
           /\ UNCHANGED << dinode, files, call, rest, ip, held, freeing, ghosts >>
    BY <1>1, <1>2 DEF UnlinkErase, Unlocked
  <1>7. CASE \E w : Panic(w)
    BY <1>7, PanicKeeps
  <1>8. CASE /\ Lock(s)[s].type # "none"
             /\ icache' = Use(s) /\ Put(p, << s >>) /\ Goto(p, "not_empty")
             /\ ip' = [ip EXCEPT ![p] = NoSlot]
             /\ UNCHANGED << disk, files, call, rest, dp, held, freeing, ghosts >>
    BY <1>1, <1>3, <1>4, <1>5, <1>8, UnlinkRefuses, OrdinaryKeeps
  <1>9. CASE /\ Lock(s)[s].type # "none" /\ EnterName(i, LastName(p), None)
             /\ icache' = Lock(s) /\ Goto(p, "undot") /\ UNCHANGED << dp, puts >>
             /\ UNCHANGED << dinode, files, call, rest, ip, held, freeing, ghosts >>
    BY <1>1, <1>3, <1>4, <1>9, UnlinkUndots, OrdinaryKeeps
  <1>10. CASE /\ Lock(s)[s].type # "none" /\ EnterName(i, LastName(p), None)
              /\ icache' = Unlocked(Lock(s), dp[p]) /\ PutDp(p) /\ Goto(p, "erased")
              /\ UNCHANGED << dinode, files, call, rest, ip, held, freeing, ghosts >>
    BY <1>1, <1>3, <1>4, <1>10, UnlinkErases, OrdinaryKeeps
  <1> QED BY <1>6, <1>7, <1>8, <1>9, <1>10

LEMMA UnlinkEndKeeps ==
  ASSUME CacheInv, NEW p \in Proc, UnlinkNotEmpty(p) \/ UnlinkCountsDotdot(p) \/ UnlinkDone(p)
  PROVE CacheInv'
  <1>1. CASE UnlinkNotEmpty(p)
    <2>1. PICK s : s = dp[p]
      OBVIOUS
    <2>2. /\ Ready(p, "not_empty") /\ icache' = Unlock(s) /\ Put(p, << s >>) /\ Return(p)
          /\ UNCHANGED << disk, files, freeing, ghosts >>
      BY <1>1, <2>1 DEF UnlinkNotEmpty, AfterNotEmpty
    <2>3. s \in Slot
      BY <2>1, <2>2, AtSlots DEF Ready, HasDp, DpLocked
    <2> QED BY <2>1, <2>2, <2>3, NotEmptyOrdinary, OrdinaryKeeps
  <1>2. CASE UnlinkCountsDotdot(p)
    <2>1. PICK s : s = dp[p]
      OBVIOUS
    <2>2. PICK c : c = AddLink(Unlock(s), s, -1)
      OBVIOUS
    <2>3. /\ Ready(p, "undot") /\ icache' = c /\ iupdate(c, s) /\ PutDp(p) /\ Goto(p, "erased")
          /\ UNCHANGED << dir, files, call, rest, ip, held, freeing, ghosts >>
      BY <1>2, <2>1, <2>2 DEF UnlinkCountsDotdot
    <2>4. s \in Slot
      BY <2>1, <2>3, AtSlots DEF Ready, HasDp, DpLocked
    <2>5. -1 \in Int
      OBVIOUS
    <2> QED BY <2>1, <2>2, <2>3, <2>4, <2>5, UndotOrdinary, OrdinaryKeeps
  <1>3. CASE UnlinkDone(p)
    <2>1. PICK s : s = ip[p]
      OBVIOUS
    <2>2. PICK c : c = AddLink(Unlock(s), s, -1)
      OBVIOUS
    <2>3. /\ Ready(p, "erased") /\ icache' = c /\ iupdate(c, s) /\ Put(p, << s >>) /\ Return(p)
          /\ UNCHANGED << dir, files, freeing, ghosts >>
      BY <1>3, <2>1, <2>2 DEF UnlinkDone
    <2>4. s \in Slot
      BY <2>1, <2>3, AtSlots DEF Ready, HasIp, IpLocked
    <2>5. -1 \in Int
      OBVIOUS
    <2> QED BY <2>1, <2>2, <2>3, <2>4, <2>5, UnlinkDoneOrdinary, OrdinaryKeeps
  <1> QED BY <1>1, <1>2, <1>3

LEMMA iputKeeps == ASSUME CacheInv, NEW p \in Proc, iput(p) PROVE CacheInv'
  <1>1. PICK s : s = Head(puts[p])
    OBVIOUS
  <1>2. puts[p] # << >> /\ freeing[p] = "no" /\ s \in Slot
    <2>1. puts[p] # << >> /\ freeing[p] = "no"
      BY DEF iput
    <2> QED BY <1>1, <2>1, FirstFacts
  <1>3. CASE \E w : Panic(w)
    BY <1>3, PanicKeeps
  <1>4. CASE /\ FreesInode(icache[s])
             /\ icache' = [icache EXCEPT ![s].busy = TRUE]
             /\ freeing' = [freeing EXCEPT ![p] = "itrunc"]
             /\ UNCHANGED << disk, files, pc, locals, puts, ghosts >>
    BY <1>1, <1>2, <1>4, iputLocks
  <1>5. CASE /\ icache' = [icache EXCEPT ![s].ref = @ - 1] /\ Dropped(p)
             /\ UNCHANGED << disk, files, pc, locals, freeing, ghosts >>
    BY <1>1, <1>2, <1>5, iputDrops, OrdinaryKeeps
  <1> QED BY <1>1, <1>3, <1>4, <1>5 DEF iput

LEMMA ProgramKeeps == ASSUME CacheInv, NEW p \in Proc, Program(p) PROVE CacheInv'
  <1>1. CASE Close(p)
    BY <1>1, CloseOrdinary, OrdinaryKeeps
  <1>2. ASSUME NEW k \in Calls, Begin(p, k) PROVE CacheInv'
    <2>1. /\ Ready(p, "user") /\ call' = [call EXCEPT ![p] = k] /\ Start(p, k.path, icache)
          /\ UNCHANGED << disk, files, dp, held, puts, freeing, ghosts >>
      BY <1>2 DEF Begin
    <2> QED BY <2>1, BeginOrdinary, OrdinaryKeeps
  <1> QED BY <1>1, <1>2 DEF Program

LEMMA CacheInvKept == ASSUME CacheInv, [Next]_vars PROVE CacheInv'
  <1>1. CASE UNCHANGED vars
    BY <1>1, SameKeeps DEF vars, ghosts
  <1>2. ASSUME NEW p \in Proc, IputDone(p) PROVE CacheInv'
    <2>1. puts[p] # << >>
      BY <1>2 DEF IputDone, CacheInv, Placed, PutsShort
    <2> QED BY <1>2, <2>1, FirstFacts, IputDoneKeeps
  <1>3. ASSUME NEW p \in Proc, InCall(p) PROVE CacheInv'
    BY <1>2, <1>3, iputKeeps, IputTruncKeeps, WalkKeeps, FoundKeeps, LinkEnterKeeps, LinkBadKeeps,
       CreateLookupKeeps, CreateExistsKeeps, iallocKeeps, CreateInodeKeeps, CreateDotsKeeps,
       CreateDoneKeeps, UnlinkLookupKeeps, UnlinkEraseKeeps, UnlinkEndKeeps DEF InCall
  <1> QED BY <1>1, <1>3, ProgramKeeps DEF Next

\* The inductive invariant: at every moment of iget, ilock, iunlock, iput, ialloc and of
\* the calls that use them, counts, locks, numbers and copies in the inode cache of fs.c
\* are right, and an inode that iput frees has no other settled reference.
THEOREM CacheInvHolds == Spec => []CacheInv
  <1>1. Init => CacheInv
    BY InitCacheInv
  <1>2. CacheInv /\ [Next]_vars => CacheInv'
    BY CacheInvKept
  <1> QED BY <1>1, <1>2, PTL DEF Spec

\* The set of locks that the model states is what Holds says.
LEMMA LocksAre ==
  ASSUME CacheInv, NEW q \in Proc, NEW s \in Slot
  PROVE  s \in Locks(q) <=> Holds(q, s)
  <1>1. freeing[q] # "no" => puts[q] # << >>
    BY DEF CacheInv, Placed, PutsShort
  <1>2. freeing[q] # "no" => (Put1(q, s) <=> s = Head(puts[q]))
    BY <1>1, FirstFacts
  <1>3. s \in (IF freeing[q] # "no" THEN {Head(puts[q])} ELSE {}) <=> Frees(q, s)
    BY <1>2 DEF Frees
  <1> QED BY <1>3 DEF Locks, Holds, IpLocked, DpLocked

LEMMA CacheInOrderHolds == ASSUME CacheInv PROVE CacheInOrder
  <1>1. TypeOK
    <2>1. \A s \in Slot : icache[s].inum \in Inum \cup {None} /\ icache[s].ref \in Nat
      BY DEF CacheInv, Typed, Record
    <2>2. \A p \in Proc : puts[p] \in Seq(Slot) /\ Len(puts[p]) <= 2
      BY DEF CacheInv, Typed, Placed, PutsShort
    <2>3. \A f \in {ip, dp, held} : f \in [Proc -> Slot \cup {NoSlot}]
      BY DEF CacheInv, Typed
    <2>4. DOMAIN icache = Slot
      BY DEF CacheInv, Typed
    <2> QED BY <2>1, <2>2, <2>3, <2>4 DEF CacheInv, Typed, TypeOK, Names, Types
  <1>2. ASSUME NEW s \in Slot
        PROVE  Is(icache[s].busy) = Cardinality({p \in Proc : s \in Locks(p)})
    <2>1. CASE icache[s].busy
      <3>1. PICK q \in Proc : Holds(q, s)
        BY <2>1 DEF CacheInv, LocksRight
      <3>2. \A r \in Proc : Holds(r, s) => r = q
        BY <3>1 DEF CacheInv, LocksRight
      <3>3. {p \in Proc : s \in Locks(p)} = {q}
        BY <3>1, <3>2, LocksAre
      <3> QED BY <2>1, <3>3, FS_Singleton DEF Is
    <2>2. CASE ~icache[s].busy
      <3>1. \A r \in Proc : ~Holds(r, s)
        BY <2>2 DEF CacheInv, LocksRight
      <3>2. {p \in Proc : s \in Locks(p)} = {}
        BY <3>1, LocksAre
      <3> QED BY <2>2, <3>2, FS_EmptySet DEF Is
    <2> QED BY <2>1, <2>2
  <1>3. ASSUME NEW s \in Slot, icache[s].ref > 0, icache[s].valid
        PROVE  LET d == dinode[icache[s].inum] IN
                 \/ d.type = icache[s].type /\ d.nlink = icache[s].nlink
                 \/ \E p \in Proc : freeing[p] = "done" /\ Head(puts[p]) = s
    <2>1. CASE Match(s)
      BY <2>1 DEF Match
    <2>2. ASSUME NEW q \in Proc, DoneWith(q, s) PROVE freeing[q] = "done" /\ Head(puts[q]) = s
      <3>1. puts[q] # << >>
        BY <2>2 DEF DoneWith, CacheInv, Placed, PutsShort
      <3> QED BY <2>2, <3>1, FirstFacts DEF DoneWith
    <2> QED BY <1>3, <2>1, <2>2 DEF CacheInv, Copied
  <1> QED BY <1>1, <1>2, <1>3 DEF CacheInv, Counted, NumbersRight, CacheInOrder

\* For any finite number of processes and names, any number of slots and inodes: ref is the
\* number of pointers to a slot, no inode has two slots, I_BUSY has one holder, and a valid
\* copy agrees with the disk unless it is just being freed, although iput gives up
\* icache.lock while it frees (fs.c, iget, ilock, iput).
THEOREM CacheStaysInOrder == Spec => []CacheInOrder
  <1>1. CacheInv => CacheInOrder
    BY CacheInOrderHolds
  <1> QED BY <1>1, CacheInvHolds, PTL

(***************************************************************************)
(* What is true of the tree while calls are under way, if no path has a    *)
(* "..": a process in a directory that was removed could reach with ".." a *)
(* parent that was removed, and freed, as well.                            *)
(***************************************************************************)
NoDotdot == \A c \in Calls : c.path \in Seq(Name)

\* create has a new inode and has not named it yet.
Making == {"inew", "dots", "dotdot", "enter"}
InumOf(s) == icache[s].inum

Steps(q) ==
  /\ rest[q] \in Seq(Name)
  /\ pc[q] \in {"dots", "dotdot"} => call[q].op = "mkdir"

\* The types that calls found, or gave, are still those on the disk.
TypesRight(q) ==
  /\ dp[q] # NoSlot => dinode[InumOf(dp[q])].type = "T_DIR"
  /\ held[q] # NoSlot => dinode[InumOf(held[q])].type = "T_FILE"
  /\ ip[q] # NoSlot => dinode[InumOf(ip[q])].type # "none"
  /\ pc[q] \in Making => dinode[InumOf(ip[q])].type
                           = IF call[q].op = "mkdir" THEN "T_DIR" ELSE "T_FILE"

\* So is what they found in the parent that they have locked.
EntryRight(q) ==
  /\ pc[q] = "victim" => dir[InumOf(dp[q])][LastName(q)] = InumOf(ip[q])
  /\ pc[q] \in {"ialloc"} \cup Making => dir[InumOf(dp[q])][LastName(q)] = None

\* A new inode is its maker's alone, but for an iput that is still behind itrunc.
NewRight(q) ==
  pc[q] \in Making =>
    /\ dinode[InumOf(ip[q])].nlink = IF pc[q] = "inew" THEN 0 ELSE 1
    /\ dir[InumOf(ip[q])] = IF pc[q] = "enter" /\ call[q].op = "mkdir"
                            THEN [Empty EXCEPT ![".."] = InumOf(dp[q])] ELSE Empty
    /\ \A r \in Proc : r # q /\ Has(r, ip[q]) => DoneWith(r, ip[q]) /\ pc[q] = "inew"

\* Nobody finds an inode that is being freed; behind itrunc, create may get its number.
FreeRight(q) ==
  \A s \in Slot : Put1(q, s) =>
    /\ freeing[q] = "itrunc" => /\ dinode[InumOf(s)].nlink = 0
                                /\ \A r \in Proc : ip[r] # s
    /\ freeing[q] = "done" =>
         /\ \A r \in Proc : ip[r] = s => pc[r] = "inew"
         /\ dinode[InumOf(s)].type # "none" => \E r \in Proc : ip[r] = s /\ pc[r] = "inew"

\* Directories are a tree, but for what is in directories that have been removed.
DirsRight ==
  /\ \A i \in Inum : dinode[i].type # "T_DIR" => dir[i] = Empty
  /\ \A i \in Inum : dinode[i].type = "none" => dinode[i].nlink = 0
  /\ dinode[ROOTINO].type = "T_DIR" /\ dir[ROOTINO][".."] = ROOTINO
  /\ \A d \in Inum, n \in Name : dir[d][n] # None /\ dinode[dir[d][n]].type = "T_DIR" =>
       /\ dir[d][n] # ROOTINO /\ dir[dir[d][n]][".."] = d
       /\ \A m \in Name : dir[d][m] = dir[d][n] => m = n

\* Links that are counted before the name is there, or after it has gone.
PendHeld(i) == {q \in Proc : held[q] # NoSlot /\ InumOf(held[q]) = i}
PendIp(i)   == {q \in Proc : /\ pc[q] \in {"dots", "dotdot", "enter", "undot", "erased"}
                             /\ InumOf(ip[q]) = i}
PendDp(i)   == {q \in Proc : /\ \/ pc[q] \in {"dotdot", "undot"}
                                \/ pc[q] = "enter" /\ call[q].op = "mkdir"
                             /\ InumOf(dp[q]) = i}
Pending(i)  == Cardinality(PendHeld(i)) + Cardinality(PendIp(i)) + Cardinality(PendDp(i))

LinksRight ==
  \A i \in Inum : /\ dinode[i].nlink >= Entries(i) + Pending(i)
                  /\ i \notin lost => dinode[i].nlink = Entries(i) + Pending(i)

\* An inode without a link is in use, and has been read since it was freed last.
UnnamedCached ==
  \A i \in Inum : dinode[i].type # "none" /\ dinode[i].nlink = 0 =>
    \E s \in Slot : /\ icache[s].ref > 0 /\ icache[s].inum = i
                    /\ icache[s].valid \/ \E q \in Proc : pc[q] = "inew" /\ ip[q] = s

TreeInv ==
  /\ \A q \in Proc : Steps(q) /\ TypesRight(q) /\ EntryRight(q) /\ NewRight(q) /\ FreeRight(q)
  /\ DirsRight /\ LinksRight /\ UnnamedCached /\ AssertionsHold

(***************************************************************************)
(* Counting links.                                                         *)
(***************************************************************************)
NamesOf(i)   == {e \in Inum \X Name : dir[e[1]][e[2]] = i}
DotdotsOf(i) == {d \in Inum : Named(d) /\ dir[d][".."] = i}
Pointed(i)   == \E d \in Inum, n \in Name : dir[d][n] = i

LEMMA PlacesFinite == IsFiniteSet(Inum) /\ IsFiniteSet(Inum \X Name) /\ IsFiniteSet(Proc)
  <1>1. IsFiniteSet(Inum)
    <2>1. 1 \in Int /\ NINODES \in Int
      BY InodesAssumption
    <2> QED BY <2>1, FS_Interval DEF Inum
  <1> QED BY <1>1, FS_Product, InodesAssumption

LEMMA EntriesSum ==
  ASSUME NEW i
  PROVE  /\ Cardinality(NamesOf(i)) \in Nat /\ Cardinality(DotdotsOf(i)) \in Nat
         /\ Entries(i) = Cardinality(NamesOf(i)) + Cardinality(DotdotsOf(i))
         /\ Entries(i)' = Cardinality(NamesOf(i)') + Cardinality(DotdotsOf(i)')
         /\ IsFiniteSet(NamesOf(i)) /\ IsFiniteSet(DotdotsOf(i))
  <1>1. NamesOf(i) \in SUBSET (Inum \X Name) /\ DotdotsOf(i) \in SUBSET Inum
    BY DEF NamesOf, DotdotsOf
  <1>2. IsFiniteSet(NamesOf(i)) /\ IsFiniteSet(DotdotsOf(i))
    BY <1>1, PlacesFinite, FS_Subset
  <1>3. Entries(i) = Cardinality(NamesOf(i)) + Cardinality(DotdotsOf(i))
    BY DEF Entries, NamesOf, DotdotsOf
  <1>4. Entries(i)' = Cardinality(NamesOf(i)') + Cardinality(DotdotsOf(i)')
    BY DEF Entries, NamesOf, DotdotsOf
  <1> QED BY <1>2, <1>3, <1>4, FS_CardinalityType

LEMMA EntriesFacts ==
  ASSUME NEW i
  PROVE  /\ Entries(i) \in Nat
         /\ Pointed(i) => Entries(i) >= 1
         /\ \A d \in Inum : Named(d) /\ dir[d][".."] = i => Entries(i) >= 1
  <1>1. ASSUME NEW S, IsFiniteSet(S), NEW x \in S PROVE Cardinality(S) \in Nat /\ Cardinality(S) >= 1
    <2>1. Cardinality(S) \in Nat /\ Cardinality(S) # 0
      BY <1>1, FS_CardinalityType, FS_EmptySet
    <2> QED BY <2>1
  <1>2. /\ Cardinality(NamesOf(i)) \in Nat /\ Cardinality(DotdotsOf(i)) \in Nat
        /\ Entries(i) = Cardinality(NamesOf(i)) + Cardinality(DotdotsOf(i))
        /\ IsFiniteSet(NamesOf(i)) /\ IsFiniteSet(DotdotsOf(i))
    BY EntriesSum
  <1>3. ASSUME Pointed(i) PROVE Entries(i) >= 1
    <2>1. PICK d \in Inum, n \in Name : dir[d][n] = i
      BY <1>3 DEF Pointed
    <2>2. << d, n >> \in NamesOf(i)
      BY <2>1 DEF NamesOf
    <2>3. Cardinality(NamesOf(i)) >= 1
      BY <1>1, <1>2, <2>2
    <2> QED BY <1>2, <2>3
  <1>4. ASSUME NEW d \in Inum, Named(d), dir[d][".."] = i PROVE Entries(i) >= 1
    <2>1. d \in DotdotsOf(i)
      BY <1>4 DEF DotdotsOf
    <2>2. Cardinality(DotdotsOf(i)) >= 1
      BY <1>1, <1>2, <2>1
    <2> QED BY <1>2, <2>2
  <1>5. Entries(i) \in Nat
    BY <1>2
  <1> QED BY <1>3, <1>4, <1>5

\* One name changes, and one directory gets a name, loses its name, or changes its "..".
LEMMA EntriesMove ==
  ASSUME NEW i, NEW d \in Inum, NEW n \in Name, NEW x \in Inum,
         \A e \in Inum, m \in Name : << e, m >> # << d, n >> => dir'[e][m] = dir[e][m],
         \A y \in Inum : y # x =>
           (Named(y) /\ dir[y][".."] = i <=> (Named(y) /\ dir[y][".."] = i)')
  PROVE  /\ Entries(i) \in Nat /\ Entries(i)' \in Nat
         /\ Entries(i)' = (Entries(i) - Is(dir[d][n] = i) + Is(dir'[d][n] = i))
                            - Is(Named(x) /\ dir[x][".."] = i)
                            + Is((Named(x) /\ dir[x][".."] = i)')
  <1>1. /\ Cardinality(NamesOf(i)) \in Nat /\ Cardinality(NamesOf(i)') \in Nat
        /\ Cardinality(NamesOf(i)')
             = Cardinality(NamesOf(i)) - Is(<< d, n >> \in NamesOf(i)) + Is(<< d, n >> \in NamesOf(i)')
    <2>1. /\ NamesOf(i) \in SUBSET (Inum \X Name) /\ NamesOf(i)' \in SUBSET (Inum \X Name)
          /\ << d, n >> \in Inum \X Name
      BY DEF NamesOf
    <2>2. \A e \in Inum \X Name : e # << d, n >> => (e \in NamesOf(i) <=> e \in NamesOf(i)')
      BY DEF NamesOf
    <2> QED BY <2>1, <2>2, PlacesFinite, OneMoves
  <1>2. /\ Cardinality(DotdotsOf(i)) \in Nat /\ Cardinality(DotdotsOf(i)') \in Nat
        /\ Cardinality(DotdotsOf(i)')
             = Cardinality(DotdotsOf(i)) - Is(x \in DotdotsOf(i)) + Is(x \in DotdotsOf(i)')
    <2>1. DotdotsOf(i) \in SUBSET Inum /\ DotdotsOf(i)' \in SUBSET Inum
      BY DEF DotdotsOf
    <2>2. \A y \in Inum : y # x => (y \in DotdotsOf(i) <=> y \in DotdotsOf(i)')
      BY DEF DotdotsOf
    <2> QED BY <2>1, <2>2, PlacesFinite, OneMoves
  <1>3. /\ << d, n >> \in NamesOf(i) <=> dir[d][n] = i
        /\ << d, n >> \in NamesOf(i)' <=> dir'[d][n] = i
    BY DEF NamesOf
  <1>4. /\ x \in DotdotsOf(i) <=> Named(x) /\ dir[x][".."] = i
        /\ x \in DotdotsOf(i)' <=> (Named(x) /\ dir[x][".."] = i)'
    BY DEF DotdotsOf
  <1>5. /\ Entries(i) = Cardinality(NamesOf(i)) + Cardinality(DotdotsOf(i))
        /\ Entries(i)' = Cardinality(NamesOf(i)') + Cardinality(DotdotsOf(i)')
    BY EntriesSum
  <1> QED BY <1>1, <1>2, <1>3, <1>4, <1>5 DEF Is

LEMMA EntriesSame ==
  ASSUME NEW i,
         \A e \in Inum, m \in Name : dir'[e][m] = dir[e][m],
         \A y \in Inum : Named(y) /\ dir[y][".."] = i <=> (Named(y) /\ dir[y][".."] = i)'
  PROVE  Entries(i)' = Entries(i)
  <1>1. NamesOf(i)' = NamesOf(i)
    BY DEF NamesOf
  <1>2. DotdotsOf(i)' = DotdotsOf(i)
    BY DEF DotdotsOf
  <1>3. /\ Entries(i) = Cardinality(NamesOf(i)) + Cardinality(DotdotsOf(i))
        /\ Entries(i)' = Cardinality(NamesOf(i)') + Cardinality(DotdotsOf(i)')
    BY EntriesSum
  <1> QED BY <1>1, <1>2, <1>3

\* Links that processes are about to make names for, or have taken the names of.
InHeld(q, i) == held[q] # NoSlot /\ InumOf(held[q]) = i
InIp(q, i)   == pc[q] \in {"dots", "dotdot", "enter", "undot", "erased"} /\ InumOf(ip[q]) = i
InDp(q, i)   == /\ \/ pc[q] \in {"dotdot", "undot"}
                   \/ pc[q] = "enter" /\ call[q].op = "mkdir"
                /\ InumOf(dp[q]) = i
PendOf(q, i) == Is(InHeld(q, i)) + Is(InIp(q, i)) + Is(InDp(q, i))

LEMMA PendingSum ==
  ASSUME NEW i, NEW q \in Proc
  PROVE  /\ Pending(i) \in Nat /\ PendOf(q, i) \in Nat /\ PendOf(q, i) <= Pending(i)
  <1>1. ASSUME NEW S \in SUBSET Proc
        PROVE  Cardinality(S) \in Nat /\ Is(q \in S) \in Nat /\ Is(q \in S) <= Cardinality(S)
    <2>1. IsFiniteSet(S)
      BY PlacesFinite, FS_Subset
    <2>2. Cardinality(S) \in Nat /\ (q \in S => Cardinality(S) # 0)
      BY <2>1, FS_CardinalityType, FS_EmptySet
    <2> QED BY <2>2 DEF Is
  <1>2. /\ PendHeld(i) \in SUBSET Proc /\ PendIp(i) \in SUBSET Proc /\ PendDp(i) \in SUBSET Proc
        /\ q \in PendHeld(i) <=> InHeld(q, i)
        /\ q \in PendIp(i) <=> InIp(q, i)
        /\ q \in PendDp(i) <=> InDp(q, i)
    BY DEF PendHeld, PendIp, PendDp, InHeld, InIp, InDp
  <1>3. /\ Cardinality(PendHeld(i)) \in Nat /\ Is(q \in PendHeld(i)) \in Nat
        /\ Is(q \in PendHeld(i)) <= Cardinality(PendHeld(i))
        /\ Cardinality(PendIp(i)) \in Nat /\ Is(q \in PendIp(i)) \in Nat
        /\ Is(q \in PendIp(i)) <= Cardinality(PendIp(i))
        /\ Cardinality(PendDp(i)) \in Nat /\ Is(q \in PendDp(i)) \in Nat
        /\ Is(q \in PendDp(i)) <= Cardinality(PendDp(i))
    BY <1>1, <1>2
  <1>4. PendOf(q, i) = Is(q \in PendHeld(i)) + Is(q \in PendIp(i)) + Is(q \in PendDp(i))
    BY <1>2 DEF PendOf, Is
  <1> QED BY <1>3, <1>4 DEF Pending

LEMMA HadStays ==
  ASSUME CacheInv, SlotsStay, NEW q \in Proc, NEW s \in Slot, Has(q, s)
  PROVE  /\ icache[s].ref > 0 /\ icache[s].inum \in Inum /\ InumOf(s) \in Inum
         /\ InumOf(s)' = InumOf(s) /\ icache'[s].inum = icache[s].inum
  BY Taken DEF CacheInv, NumbersRight, SlotsStay, InumOf

LEMMA PendingMove ==
  ASSUME CacheInv, NEW p \in Proc, Others(p), SlotsStay, NEW i
  PROVE  /\ Pending(i) \in Nat /\ Pending(i)' \in Nat
         /\ PendOf(p, i) \in Nat /\ PendOf(p, i)' \in Nat /\ PendOf(p, i) <= Pending(i)
         /\ Pending(i)' = Pending(i) - PendOf(p, i) + PendOf(p, i)'
  <1>1. ASSUME NEW A \in SUBSET Proc, NEW B \in SUBSET Proc,
               \A q \in Proc : q # p => (q \in A <=> q \in B)
        PROVE  /\ Cardinality(A) \in Nat /\ Cardinality(B) \in Nat
               /\ Is(p \in A) \in Nat /\ Is(p \in B) \in Nat
               /\ Cardinality(B) = Cardinality(A) - Is(p \in A) + Is(p \in B)
    <2>1. /\ Cardinality(A) \in Nat /\ Cardinality(B) \in Nat
          /\ Cardinality(B) = Cardinality(A) - Is(p \in A) + Is(p \in B)
      BY <1>1, PlacesFinite, OneMoves
    <2> QED BY <2>1 DEF Is
  <1>2. ASSUME NEW q \in Proc, q # p
        PROVE  /\ InHeld(q, i) <=> InHeld(q, i)'
               /\ InIp(q, i) <=> InIp(q, i)'
               /\ InDp(q, i) <=> InDp(q, i)'
    <2>1. /\ held'[q] = held[q] /\ ip'[q] = ip[q] /\ dp'[q] = dp[q]
          /\ pc'[q] = pc[q] /\ call'[q] = call[q]
      BY <1>2 DEF Others
    <2>2. held[q] # NoSlot => held[q] \in Slot /\ Has(q, held[q])
      BY DEF CacheInv, Typed, Has
    <2>3. pc[q] \in HasIp => ip[q] \in Slot /\ Has(q, ip[q])
      BY DEF CacheInv, Placed, InPlace, Typed, Has
    <2>4. pc[q] \in HasDp => dp[q] \in Slot /\ Has(q, dp[q])
      BY DEF CacheInv, Placed, InPlace, Typed, Has
    <2>5. InHeld(q, i) <=> InHeld(q, i)'
      BY <2>1, <2>2, HadStays DEF InHeld, InumOf
    <2>6. InIp(q, i) <=> InIp(q, i)'
      <3>1. pc[q] \in {"dots", "dotdot", "enter", "undot", "erased"} => pc[q] \in HasIp
        BY DEF HasIp, IpLocked
      <3> QED BY <2>1, <2>3, <3>1, HadStays DEF InIp, InumOf
    <2>7. InDp(q, i) <=> InDp(q, i)'
      <3>1. pc[q] \in {"dotdot", "undot", "enter"} => pc[q] \in HasDp
        BY DEF HasDp, DpLocked
      <3> QED BY <2>1, <2>4, <3>1, HadStays DEF InDp, InumOf
    <2> QED BY <2>5, <2>6, <2>7
  <1>3. ASSUME NEW q \in Proc
        PROVE  /\ q \in PendHeld(i) <=> InHeld(q, i)
               /\ q \in PendIp(i) <=> InIp(q, i)
               /\ q \in PendDp(i) <=> InDp(q, i)
               /\ q \in PendHeld(i)' <=> InHeld(q, i)'
               /\ q \in PendIp(i)' <=> InIp(q, i)'
               /\ q \in PendDp(i)' <=> InDp(q, i)'
    BY DEF PendHeld, PendIp, PendDp, InHeld, InIp, InDp
  <1>4. /\ PendHeld(i) \in SUBSET Proc /\ PendIp(i) \in SUBSET Proc /\ PendDp(i) \in SUBSET Proc
        /\ PendHeld(i)' \in SUBSET Proc /\ PendIp(i)' \in SUBSET Proc /\ PendDp(i)' \in SUBSET Proc
    BY DEF PendHeld, PendIp, PendDp
  <1>5. /\ \A q \in Proc : q # p => (q \in PendHeld(i) <=> q \in PendHeld(i)')
        /\ \A q \in Proc : q # p => (q \in PendIp(i) <=> q \in PendIp(i)')
        /\ \A q \in Proc : q # p => (q \in PendDp(i) <=> q \in PendDp(i)')
    BY <1>2, <1>3
  <1>6. /\ Cardinality(PendHeld(i)) \in Nat /\ Cardinality(PendHeld(i)') \in Nat
        /\ Is(p \in PendHeld(i)) \in Nat /\ Is(p \in PendHeld(i)') \in Nat
        /\ Cardinality(PendHeld(i)')
             = Cardinality(PendHeld(i)) - Is(p \in PendHeld(i)) + Is(p \in PendHeld(i)')
    BY <1>1, <1>4, <1>5
  <1>7. /\ Cardinality(PendIp(i)) \in Nat /\ Cardinality(PendIp(i)') \in Nat
        /\ Is(p \in PendIp(i)) \in Nat /\ Is(p \in PendIp(i)') \in Nat
        /\ Cardinality(PendIp(i)')
             = Cardinality(PendIp(i)) - Is(p \in PendIp(i)) + Is(p \in PendIp(i)')
    BY <1>1, <1>4, <1>5
  <1>8. /\ Cardinality(PendDp(i)) \in Nat /\ Cardinality(PendDp(i)') \in Nat
        /\ Is(p \in PendDp(i)) \in Nat /\ Is(p \in PendDp(i)') \in Nat
        /\ Cardinality(PendDp(i)')
             = Cardinality(PendDp(i)) - Is(p \in PendDp(i)) + Is(p \in PendDp(i)')
    BY <1>1, <1>4, <1>5
  <1>9. /\ PendOf(p, i) = Is(p \in PendHeld(i)) + Is(p \in PendIp(i)) + Is(p \in PendDp(i))
        /\ PendOf(p, i)' = Is(p \in PendHeld(i)') + Is(p \in PendIp(i)') + Is(p \in PendDp(i)')
    BY <1>3 DEF PendOf, Is
  <1>10. /\ Pending(i) = Cardinality(PendHeld(i)) + Cardinality(PendIp(i)) + Cardinality(PendDp(i))
         /\ Pending(i)' = Cardinality(PendHeld(i)') + Cardinality(PendIp(i)')
                            + Cardinality(PendDp(i)')
    BY DEF Pending
  <1>11. PendOf(p, i) <= Pending(i)
    BY PendingSum
  <1> QED BY <1>6, <1>7, <1>8, <1>9, <1>10, <1>11

LEMMA LinkFacts ==
  ASSUME CacheInv, TreeInv, NEW i \in Inum
  PROVE  /\ dinode[i].nlink \in Int /\ dinode[i].type \in Types
         /\ Entries(i) \in Nat /\ Pending(i) \in Nat
         /\ dinode[i].nlink >= Entries(i) + Pending(i)
         /\ i \notin lost => dinode[i].nlink = Entries(i) + Pending(i)
  <1>1. dinode[i] \in [type : Types, nlink : Int]
    BY DEF CacheInv, Typed
  <1>2. Entries(i) \in Nat
    BY EntriesFacts
  <1>3. Pending(i) \in Nat
    <2>1. CASE Proc = {}
      <3>1. PendHeld(i) = {} /\ PendIp(i) = {} /\ PendDp(i) = {}
        BY <2>1 DEF PendHeld, PendIp, PendDp
      <3> QED BY <3>1, FS_EmptySet DEF Pending
    <2>2. ASSUME NEW q \in Proc PROVE Pending(i) \in Nat
      BY PendingSum
    <2> QED BY <2>1, <2>2
  <1> QED BY <1>1, <1>2, <1>3 DEF TreeInv, LinksRight

\* What has a name has a link and a type, and so has the root.
LEMMA PointedFacts ==
  ASSUME CacheInv, TreeInv, NEW i \in Inum, Pointed(i) \/ i = ROOTINO
  PROVE  Entries(i) >= 1 /\ dinode[i].nlink >= 1 /\ dinode[i].type # "none"
  <1>1. CASE Pointed(i)
    <2>1. Entries(i) >= 1
      BY <1>1, EntriesFacts
    <2> QED BY <2>1, LinkFacts DEF TreeInv, DirsRight
  <1>2. CASE i = ROOTINO
    <2>1. Named(ROOTINO) /\ dir[ROOTINO][".."] = ROOTINO
      BY DEF TreeInv, DirsRight, Named
    <2>2. Entries(i) >= 1
      BY <1>2, <2>1, EntriesFacts
    <2> QED BY <2>2, LinkFacts DEF TreeInv, DirsRight
  <1> QED BY <1>1, <1>2

\* A new inode has no name, and nobody's ".." is it.
LEMMA MakingFacts ==
  ASSUME CacheInv, TreeInv, NEW q \in Proc, pc[q] \in Making
  PROVE  /\ ip[q] \in Slot /\ Has(q, ip[q]) /\ dp[q] \in Slot /\ Has(q, dp[q]) /\ Holds(q, dp[q])
         /\ InumOf(ip[q]) \in Inum /\ InumOf(dp[q]) \in Inum
         /\ Entries(InumOf(ip[q])) = 0
         /\ ~Pointed(InumOf(ip[q])) /\ ~Named(InumOf(ip[q])) /\ InumOf(ip[q]) # ROOTINO
         /\ dinode[InumOf(ip[q])].type # "none"
  <1>1. pc[q] \in HasIp /\ pc[q] \in HasDp /\ pc[q] \in DpLocked
    BY DEF Making, HasIp, HasDp, Waiting, IpLocked, DpLocked
  <1>2. /\ ip[q] \in Slot /\ Has(q, ip[q]) /\ dp[q] \in Slot /\ Has(q, dp[q]) /\ Holds(q, dp[q])
        /\ ip[q] # NoSlot
    BY <1>1 DEF CacheInv, Placed, InPlace, Typed, Has, Holds
  <1>3. InumOf(ip[q]) \in Inum /\ InumOf(dp[q]) \in Inum
    BY <1>2, Taken DEF CacheInv, NumbersRight, InumOf
  <1> DEFINE i == InumOf(ip[q])
  <1>4. Entries(i) \in Nat /\ Pending(i) \in Nat /\ dinode[i].nlink >= Entries(i) + Pending(i)
    BY <1>3, LinkFacts
  <1>5. Entries(i) = 0
    <2>1. CASE pc[q] = "inew"
      <3>1. dinode[i].nlink = 0
        BY <2>1 DEF TreeInv, NewRight, Making
      <3> QED BY <1>4, <3>1
    <2>2. CASE pc[q] # "inew"
      <3>1. dinode[i].nlink = 1
        BY <2>2 DEF TreeInv, NewRight
      <3>2. InIp(q, i)
        BY <2>2 DEF InIp, Making
      <3>3. PendOf(q, i) >= 1
        BY <3>2 DEF PendOf, Is
      <3>4. Pending(i) >= 1
        BY <1>4, <3>3, PendingSum
      <3> QED BY <1>4, <3>1, <3>4
    <2> QED BY <2>1, <2>2
  <1>6. ~Pointed(i) /\ i # ROOTINO
    BY <1>3, <1>5, PointedFacts
  <1>7. ~Named(i)
    BY <1>6 DEF Named, Pointed
  <1>8. dinode[i].type # "none"
    BY <1>2 DEF TreeInv, TypesRight
  <1> QED BY <1>2, <1>3, <1>5, <1>6, <1>7, <1>8

(***************************************************************************)
(* What the steps have in common that free no inode: what p changes on the *)
(* disk is locked by p, or free, and p comes by references only through    *)
(* names, and by ialloc.                                                   *)
(***************************************************************************)
DiskMoves(p) == \A i \in Inum :
  \/ dinode'[i] = dinode[i] /\ dir'[i] = dir[i]
  \/ \E s \in Slot : /\ Has(p, s) /\ InumOf(s) = i /\ icache'[s].valid
                     /\ Holds(p, s) \/ ~icache[s].busy
  \/ dinode[i].type = "none" /\ dir'[i] = dir[i]

GetsRight(p) == \A s \in Slot : Has(p, s)' =>
  \/ Has(p, s)
  \/ Pointed(icache'[s].inum)
  \/ pc'[p] = "inew" /\ ip'[p] = s /\ dinode[icache'[s].inum].type = "none"

TypesNew(p) == \A i \in Inum : dinode[i].type = "none" /\ dinode'[i].type # "none" =>
  pc'[p] = "inew" /\ ip'[p] \in Slot /\ icache'[ip'[p]].inum = i

InewWaits(p) == pc[p] = "inew" =>
  \/ pc'[p] = "inew" /\ ip'[p] = ip[p]
  \/ ~icache[ip[p]].busy /\ icache'[ip[p]].valid

Frame(p) == Ordinary(p) /\ DiskMoves(p) /\ GetsRight(p) /\ TypesNew(p) /\ InewWaits(p)

LEMMA HasStays ==
  ASSUME NEW p, Others(p), NEW q \in Proc, q # p, NEW s
  PROVE  Has(q, s)' <=> Has(q, s)
  BY OthersStay DEF Has, Others

\* Who has locked a slot can rely on the inode.
LEMMA LockedStays ==
  ASSUME CacheInv, NEW p \in Proc, DiskMoves(p), NEW q \in Proc, q # p,
         NEW s \in Slot, Holds(q, s), dinode[InumOf(s)].type # "none"
  PROVE  dinode'[InumOf(s)] = dinode[InumOf(s)] /\ dir'[InumOf(s)] = dir[InumOf(s)]
  <1>1. icache[s].busy /\ icache[s].ref > 0 /\ InumOf(s) \in Inum /\ ~Holds(p, s)
    BY HeldIsHad, Taken DEF CacheInv, LocksRight, NumbersRight, InumOf
  <1>2. ASSUME NEW t \in Slot, Has(p, t), InumOf(t) = InumOf(s), Holds(p, t) \/ ~icache[t].busy
        PROVE  FALSE
    <2>1. icache[t].ref > 0
      BY <1>2, Taken DEF CacheInv
    <2>2. t = s
      BY <1>1, <1>2, <2>1 DEF CacheInv, NumbersRight, InumOf
    <2> QED BY <1>1, <1>2, <2>2
  <1> QED BY <1>1, <1>2 DEF DiskMoves

\* Who has a slot after a step has one that is in use.
LEMMA TakenThen ==
  ASSUME Counted', NEW p \in Proc, Others(p), NEW q \in Proc, NEW s \in Slot, Has(q, s)'
  PROVE  icache'[s].ref > 0
  <1>1. /\ References(s) \in Nat /\ References(s)' \in Nat
        /\ References(s)' = References(s) - Mine(p, s) + Mine(p, s)'
    BY ReferencesMove
  <1>2. Mine(p, s)' \in Nat /\ (Has(p, s)' => Mine(p, s)' >= 1)
    BY DEF Has, Mine, Is
  <1>3. Mine(p, s) \in Nat /\ Mine(q, s) \in Nat /\ References(s) >= Mine(p, s)
    BY MineNat, MineInside
  <1>4. CASE q = p
    BY <1>1, <1>2, <1>3, <1>4 DEF Counted
  <1>5. CASE q # p
    <2>1. Has(q, s)
      BY <1>5, HasStays
    <2>2. Mine(q, s) >= 1
      BY <2>1, HasMine
    <2>3. References(s) >= Mine(p, s) + Mine(q, s)
      BY <1>5, MineInside
    <2> QED BY <1>1, <1>2, <1>3, <2>2, <2>3 DEF Counted
  <1> QED BY <1>4, <1>5

LEMMA OtherTypesRight ==
  ASSUME CacheInv, TreeInv, NEW p \in Proc, Ordinary(p), NEW q \in Proc, q # p
  PROVE  TypesRight(q)'
  <1>1. /\ held'[q] = held[q] /\ ip'[q] = ip[q] /\ dp'[q] = dp[q]
        /\ pc'[q] = pc[q] /\ call'[q] = call[q]
    BY DEF Ordinary, Others
  <1>2. ASSUME NEW s \in Slot, Has(q, s)
        PROVE  /\ InumOf(s)' = InumOf(s)
               /\ dinode[InumOf(s)].type # "none" =>
                    dinode'[InumOf(s)].type = dinode[InumOf(s)].type
    BY <1>2, HadStays DEF Ordinary, TypesStay
  <1>3. TypesRight(q)
    BY DEF TreeInv
  <1>4. dp[q] # NoSlot => dinode'[InumOf(dp[q])'].type = "T_DIR"
    <2>1. dp[q] # NoSlot => dp[q] \in Slot /\ Has(q, dp[q])
      BY DEF CacheInv, Typed, Has
    <2> QED BY <1>1, <1>2, <1>3, <2>1 DEF TypesRight, InumOf
  <1>5. held[q] # NoSlot => dinode'[InumOf(held[q])'].type = "T_FILE"
    <2>1. held[q] # NoSlot => held[q] \in Slot /\ Has(q, held[q])
      BY DEF CacheInv, Typed, Has
    <2> QED BY <1>1, <1>2, <1>3, <2>1 DEF TypesRight, InumOf
  <1>6. ip[q] # NoSlot =>
          /\ dinode'[InumOf(ip[q])'].type # "none"
          /\ dinode'[InumOf(ip[q])'].type = dinode[InumOf(ip[q])].type
    <2>1. ip[q] # NoSlot => ip[q] \in Slot /\ Has(q, ip[q])
      BY DEF CacheInv, Typed, Has
    <2> QED BY <1>1, <1>2, <1>3, <2>1 DEF TypesRight, InumOf
  <1>7. pc[q] \in Making => ip[q] # NoSlot
    BY SlotFacts, MakingFacts
  <1> QED BY <1>1, <1>3, <1>4, <1>5, <1>6, <1>7 DEF TypesRight, InumOf

LEMMA OtherEntryRight ==
  ASSUME CacheInv, TreeInv, NEW p \in Proc, Frame(p), NEW q \in Proc, q # p
  PROVE  EntryRight(q)'
  <1>1. /\ ip'[q] = ip[q] /\ dp'[q] = dp[q] /\ pc'[q] = pc[q] /\ rest'[q] = rest[q]
    BY DEF Frame, Ordinary, Others
  <1>2. EntryRight(q) /\ TypesRight(q)
    BY DEF TreeInv
  <1>3. ASSUME pc[q] \in {"victim", "ialloc"} \cup Making
        PROVE  dir'[InumOf(dp[q])] = dir[InumOf(dp[q])] /\ InumOf(dp[q])' = InumOf(dp[q])
    <2>1. pc[q] \in HasDp /\ pc[q] \in DpLocked
      BY <1>3 DEF HasDp, DpLocked, Making
    <2>2. dp[q] \in Slot /\ dp[q] # NoSlot /\ Has(q, dp[q]) /\ Holds(q, dp[q])
      BY <2>1 DEF CacheInv, Placed, InPlace, Typed, Has, Holds
    <2>3. dinode[InumOf(dp[q])].type # "none"
      BY <1>2, <2>2 DEF TypesRight
    <2> QED BY <1>1, <2>2, <2>3, LockedStays, HadStays DEF Frame, Ordinary, InumOf
  <1>4. ASSUME pc[q] = "victim" PROVE InumOf(ip[q])' = InumOf(ip[q])
    <2>1. ip[q] \in Slot /\ Has(q, ip[q])
      BY <1>4 DEF HasIp, Waiting, CacheInv, Placed, InPlace, Typed, Has
    <2> QED BY <1>1, <2>1, HadStays DEF Frame, Ordinary, InumOf
  <1> QED BY <1>1, <1>2, <1>3, <1>4 DEF EntryRight, LastName

LEMMA OtherNewRight ==
  ASSUME CacheInv, TreeInv, NEW p \in Proc, Frame(p), NEW q \in Proc, q # p
  PROVE  NewRight(q)'
  <1>1. /\ ip'[q] = ip[q] /\ dp'[q] = dp[q] /\ pc'[q] = pc[q] /\ call'[q] = call[q]
        /\ freeing[p] = "no" /\ Others(p) /\ SlotsStay
    BY DEF Frame, Ordinary, Others
  <1> SUFFICES ASSUME pc[q] \in Making PROVE NewRight(q)'
    BY <1>1 DEF NewRight
  <1>0. PICK t : t = ip[q]
    OBVIOUS
  <1> DEFINE i == InumOf(t)
  <1>2. /\ t \in Slot /\ Has(q, t) /\ dp[q] \in Slot /\ Has(q, dp[q])
        /\ i \in Inum /\ ~Pointed(i) /\ dinode[i].type # "none"
    BY <1>0, MakingFacts
  <1>3. /\ InumOf(t)' = i /\ icache'[t].inum = i /\ icache[t].ref > 0
        /\ InumOf(ip[q])' = i /\ InumOf(dp[q])' = InumOf(dp[q])
    BY <1>0, <1>1, <1>2, HadStays DEF InumOf
  <1>4. NewRight(q)
    BY DEF TreeInv
  <1>5. ~Has(p, t)
    BY <1>0, <1>1, <1>4 DEF NewRight, DoneWith
  <1>6. dinode'[i] = dinode[i] /\ dir'[i] = dir[i]
    <2>1. ASSUME NEW s \in Slot, Has(p, s), InumOf(s) = i PROVE FALSE
      <3>1. icache[s].ref > 0
        BY <2>1, Taken DEF CacheInv
      <3>2. s = t
        BY <1>2, <1>3, <2>1, <3>1 DEF CacheInv, NumbersRight, InumOf
      <3> QED BY <1>5, <2>1, <3>2
    <2> QED BY <1>2, <2>1 DEF Frame, DiskMoves
  <1>7. ~Has(p, t)'
    BY <1>2, <1>3, <1>5 DEF Frame, GetsRight
  <1>8. ASSUME NEW r \in Proc, r # q, Has(r, t)' PROVE DoneWith(r, t)' /\ pc[q] = "inew"
    <2>1. r # p
      BY <1>7, <1>8
    <2>2. Has(r, t)
      BY <1>1, <1>8, <2>1, HasStays
    <2>3. DoneWith(r, t) /\ pc[q] = "inew"
      BY <1>0, <1>4, <1>8, <2>2 DEF NewRight
    <2> QED BY <1>1, <2>1, <2>3, OthersStay
  <1>9. \A r \in Proc : r # q /\ Has(r, ip[q])' => DoneWith(r, ip[q])' /\ pc'[q] = "inew"
    BY <1>0, <1>1, <1>8 DEF Has, DoneWith, Put1, Put2
  <1>10. i = InumOf(ip[q])
    BY <1>0
  <1> HIDE DEF i
  <1> QED BY <1>1, <1>3, <1>4, <1>6, <1>9, <1>10 DEF NewRight

LEMMA OtherFreeRight ==
  ASSUME CacheInv, CacheInv', TreeInv, NEW p \in Proc, Frame(p), NEW q \in Proc, q # p
  PROVE  FreeRight(q)'
  <1>1. freeing'[q] = freeing[q] /\ Others(p) /\ SlotsStay /\ freeing[p] = "no"
    BY DEF Frame, Ordinary, Others
  <1> SUFFICES ASSUME NEW s \in Slot, Put1(q, s)', freeing[q] # "no"
               PROVE  /\ freeing[q] = "itrunc" => /\ dinode'[InumOf(s)'].nlink = 0
                                                  /\ \A r \in Proc : ip'[r] # s
                      /\ freeing[q] = "done" =>
                           /\ \A r \in Proc : ip'[r] = s => pc'[r] = "inew"
                           /\ dinode'[InumOf(s)'].type # "none" =>
                                \E r \in Proc : ip'[r] = s /\ pc'[r] = "inew"
    BY <1>1 DEF FreeRight
  <1> DEFINE i == InumOf(s)
  <1>2. Put1(q, s) /\ Frees(q, s) /\ Has(q, s) /\ Holds(q, s) /\ icache[s].busy
    BY <1>1, OthersStay DEF Frees, Has, Holds, CacheInv, LocksRight
  <1>3. i \in Inum /\ InumOf(s)' = i /\ icache'[s].inum = i /\ icache[s].ref > 0 /\ icache[s].inum = i
    BY <1>1, <1>2, HadStays DEF InumOf
  <1>4. /\ ~Holds(p, s) /\ ~Keeps(p, s) /\ ~Put2(p, s) /\ ~Put1(p, s)
    BY <1>1, <1>2 DEF CacheInv, LocksRight, FreedAlone
  <1>5. Has(p, s) => ip[p] = s
    BY <1>4 DEF Has, Keeps
  <1>6. FreeRight(q)
    BY DEF TreeInv
  <1>7. freeing[q] = "itrunc" => dinode[i].type # "none"
    BY <1>2, <1>3 DEF CacheInv, Settled
  <1>8. dinode[i].nlink = 0
    <2>1. CASE freeing[q] = "itrunc"
      BY <1>2, <1>6, <2>1 DEF FreeRight
    <2>2. CASE freeing[q] = "done" /\ dinode[i].type = "none"
      BY <1>3, <2>2 DEF TreeInv, DirsRight
    <2>3. CASE freeing[q] = "done" /\ dinode[i].type # "none"
      <3>1. PICK r \in Proc : ip[r] = s /\ pc[r] = "inew"
        BY <1>2, <1>6, <2>3 DEF FreeRight
      <3> QED BY <3>1 DEF TreeInv, NewRight, Making
    <2>4. freeing[q] \in {"itrunc", "done"}
      BY DEF CacheInv, Typed
    <2> QED BY <2>1, <2>2, <2>3, <2>4
  <1>9. ~Pointed(i)
    BY <1>3, <1>8, PointedFacts
  <1>10. \/ dinode'[i] = dinode[i]
         \/ dinode[i].type = "none"
    <2>1. CASE dinode[i].type = "none"
      BY <2>1
    <2>2. CASE dinode[i].type # "none"
      BY <1>2, <2>2, LockedStays DEF Frame
    <2> QED BY <2>1, <2>2
  <1>11. ASSUME ip'[p] = s
         PROVE  freeing[q] = "done" /\ pc'[p] = "inew"
    <2>1. Has(p, s)'
      BY <1>11 DEF Has
    <2>2. CASE Has(p, s)
      <3>1. ip[p] = s
        BY <1>5, <2>2
      <3>2. freeing[q] = "done" /\ pc[p] = "inew"
        <4>1. freeing[q] \in {"itrunc", "done"}
          BY DEF CacheInv, Typed
        <4> QED BY <1>2, <1>6, <3>1, <4>1 DEF FreeRight
      <3> QED BY <1>2, <3>1, <3>2 DEF Frame, InewWaits
    <2>3. CASE ~Has(p, s)
      <3>1. pc'[p] = "inew" /\ dinode[i].type = "none"
        BY <1>3, <1>9, <2>1, <2>3 DEF Frame, GetsRight
      <3>2. freeing[q] \in {"itrunc", "done"}
        BY DEF CacheInv, Typed
      <3> QED BY <1>7, <3>1, <3>2
    <2> QED BY <2>2, <2>3
  <1>12. \A r \in Proc : r # p => ip'[r] = ip[r] /\ pc'[r] = pc[r]
    BY <1>1 DEF Others
  <1>13. ASSUME freeing[q] = "itrunc"
         PROVE  dinode'[InumOf(s)'].nlink = 0 /\ \A r \in Proc : ip'[r] # s
    <2>1. dinode'[i] = dinode[i]
      BY <1>7, <1>10, <1>13
    <2>2. ASSUME NEW r \in Proc PROVE ip'[r] # s
      <3>1. CASE r = p
        BY <1>11, <1>13, <3>1
      <3>2. CASE r # p
        BY <1>2, <1>6, <1>12, <1>13, <3>2 DEF FreeRight
      <3> QED BY <3>1, <3>2
    <2> QED BY <1>3, <1>8, <2>1, <2>2
  <1>14. ASSUME freeing[q] = "done", NEW r \in Proc, ip'[r] = s PROVE pc'[r] = "inew"
    <2>1. CASE r = p
      BY <1>11, <1>14, <2>1
    <2>2. CASE r # p
      BY <1>2, <1>6, <1>12, <1>14, <2>2 DEF FreeRight
    <2> QED BY <2>1, <2>2
  <1>15. ASSUME freeing[q] = "done", dinode'[InumOf(s)'].type # "none"
         PROVE  \E r \in Proc : ip'[r] = s /\ pc'[r] = "inew"
    <2>1. CASE dinode[i].type # "none"
      <3>1. PICK r \in Proc : ip[r] = s /\ pc[r] = "inew"
        BY <1>2, <1>6, <1>15, <2>1 DEF FreeRight
      <3>2. CASE r = p
        BY <1>2, <3>1, <3>2 DEF Frame, InewWaits
      <3>3. CASE r # p
        BY <1>12, <3>1, <3>3
      <3> QED BY <3>2, <3>3
    <2>2. CASE dinode[i].type = "none"
      <3>1. pc'[p] = "inew" /\ ip'[p] \in Slot /\ icache'[ip'[p]].inum = i
        BY <1>3, <1>15, <2>2 DEF Frame, TypesNew
      <3>2. icache'[ip'[p]].ref > 0 /\ icache'[s].ref > 0
        <4>1. PICK u \in Slot : u = ip'[p]
          BY <3>1
        <4>2. Has(p, u)' /\ Has(q, s)'
          BY <4>1 DEF Has
        <4>3. Counted'
          BY DEF CacheInv
        <4> QED BY <1>1, <4>1, <4>2, <4>3, TakenThen
      <3>3. ip'[p] = s
        BY <1>3, <3>1, <3>2 DEF CacheInv, NumbersRight
      <3> QED BY <3>1, <3>3
    <2> QED BY <2>1, <2>2
  <1> QED BY <1>13, <1>14, <1>15

LEMMA FrameKeeps ==
  ASSUME CacheInv, CacheInv', TreeInv, NEW p \in Proc, Frame(p), panic' = panic,
         Steps(p)', TypesRight(p)', EntryRight(p)', NewRight(p)',
         DirsRight', LinksRight', UnnamedCached'
  PROVE  TreeInv'
  <1>1. Ordinary(p) /\ Others(p) /\ freeing'[p] = "no"
    BY DEF Frame, Ordinary
  <1>2. ASSUME NEW q \in Proc, q # p PROVE Steps(q)'
    BY <1>1, <1>2 DEF TreeInv, Steps, Others
  <1>3. FreeRight(p)'
    BY <1>1 DEF FreeRight
  <1>4. ASSUME NEW q \in Proc
        PROVE  Steps(q)' /\ TypesRight(q)' /\ EntryRight(q)' /\ NewRight(q)' /\ FreeRight(q)'
    <2>1. CASE q = p
      BY <1>3, <2>1
    <2>2. CASE q # p
      BY <1>1, <1>2, <2>2, OtherTypesRight, OtherEntryRight, OtherNewRight, OtherFreeRight
    <2> QED BY <2>1, <2>2
  <1>5. AssertionsHold'
    BY DEF TreeInv, AssertionsHold
  <1> QED BY <1>4, <1>5 DEF TreeInv

LEMMA SomebodyHas ==
  ASSUME Counted, NEW s \in Slot, icache[s].ref > 0
  PROVE  \E q \in Proc : Has(q, s)
  <1> SUFFICES ASSUME \A q \in Proc : ~Has(q, s) PROVE FALSE
    OBVIOUS
  <1>1. /\ {q \in Proc : cwd[q] = s} = {} /\ {q \in Proc : fd[q] = s} = {}
        /\ {q \in Proc : ip[q] = s} = {} /\ {q \in Proc : dp[q] = s} = {}
        /\ {q \in Proc : held[q] = s} = {}
        /\ {q \in Proc : 1 \in DOMAIN puts[q] /\ puts[q][1] = s} = {}
        /\ {q \in Proc : 2 \in DOMAIN puts[q] /\ puts[q][2] = s} = {}
    BY DEF Has, Put1, Put2
  <1>2. /\ Users(cwd, s) = 0 /\ Users(fd, s) = 0 /\ Users(ip, s) = 0 /\ Users(dp, s) = 0
        /\ Users(held, s) = 0 /\ Puts(1, s) = 0 /\ Puts(2, s) = 0
    BY <1>1, FS_EmptySet DEF Users, Puts
  <1>3. References(s) = 0
    BY <1>2 DEF References
  <1> QED BY <1>3 DEF Counted

\* A step that drops no reference leaves inodes without links in use.
NoDrop(p) == \A s \in Slot : Has(p, s) => Has(p, s)'

LEMMA CachedKeeps ==
  ASSUME CacheInv, CacheInv', TreeInv, NEW p \in Proc, Frame(p), NoDrop(p)
  PROVE  UnnamedCached'
  <1>1. Counted /\ Counted' /\ Others(p) /\ SlotsStay
    BY DEF CacheInv, Frame, Ordinary
  <1>2. ASSUME NEW q \in Proc, NEW s \in Slot, Has(q, s) PROVE icache'[s].ref > 0
    <2>1. Has(q, s)'
      BY <1>1, <1>2, HasStays DEF NoDrop
    <2> QED BY <1>1, <2>1, TakenThen
  <1> SUFFICES ASSUME NEW i \in Inum, dinode'[i].type # "none", dinode'[i].nlink = 0
               PROVE  \E s \in Slot : /\ icache'[s].ref > 0 /\ icache'[s].inum = i
                                      /\ \/ icache'[s].valid
                                         \/ \E q \in Proc : pc'[q] = "inew" /\ ip'[q] = s
    BY DEF UnnamedCached
  <1>3. CASE dinode[i].type = "none"
    <2>1. pc'[p] = "inew" /\ ip'[p] \in Slot /\ icache'[ip'[p]].inum = i
      BY <1>3 DEF Frame, TypesNew
    <2>2. PICK u \in Slot : u = ip'[p]
      BY <2>1
    <2>3. Has(p, u)'
      BY <2>2 DEF Has
    <2>4. icache'[u].ref > 0
      BY <1>1, <2>3, TakenThen
    <2> QED BY <2>1, <2>2, <2>4
  <1>4. CASE dinode[i].type # "none" /\ dinode[i].nlink = 0
    <2>1. PICK s \in Slot : /\ icache[s].ref > 0 /\ icache[s].inum = i
                            /\ icache[s].valid \/ \E q \in Proc : pc[q] = "inew" /\ ip[q] = s
      BY <1>4 DEF TreeInv, UnnamedCached
    <2>2. icache'[s].ref > 0 /\ icache'[s].inum = i
      BY <1>1, <1>2, <2>1, SomebodyHas DEF SlotsStay
    <2>3. CASE icache[s].valid
      BY <1>1, <2>1, <2>2, <2>3 DEF SlotsStay
    <2>4. ASSUME NEW q \in Proc, pc[q] = "inew", ip[q] = s
          PROVE  icache'[s].valid \/ \E r \in Proc : pc'[r] = "inew" /\ ip'[r] = s
      <3>1. CASE q = p
        BY <2>4, <3>1 DEF Frame, InewWaits
      <3>2. CASE q # p
        BY <1>1, <2>4, <3>2 DEF Others
      <3> QED BY <3>1, <3>2
    <2> QED BY <2>1, <2>2, <2>3, <2>4
  <1>5. CASE dinode[i].type # "none" /\ dinode[i].nlink # 0
    <2>1. PICK s \in Slot : Has(p, s) /\ InumOf(s) = i /\ icache'[s].valid
      BY <1>5 DEF Frame, DiskMoves
    <2>2. icache'[s].ref > 0 /\ icache'[s].inum = i
      BY <1>1, <1>2, <2>1, HadStays DEF InumOf
    <2> QED BY <2>1, <2>2
  <1> QED BY <1>3, <1>4, <1>5

(***************************************************************************)
(* Steps that write nothing to the disk.                                   *)
(***************************************************************************)
Places == Making \cup {"undot", "erased"}

Calm(p) ==
  /\ UNCHANGED << dinode, dir, lost, panic >> /\ held'[p] = held[p]
  /\ pc[p] \notin Places /\ pc'[p] \notin Places
  /\ GetsRight(p) /\ NoDrop(p)
  /\ Steps(p)' /\ TypesRight(p)' /\ EntryRight(p)'

LEMMA LinksSame ==
  ASSUME CacheInv, TreeInv, NEW p \in Proc, Others(p), SlotsStay, UNCHANGED << dinode, dir, lost >>,
         \A i \in Inum : PendOf(p, i)' = PendOf(p, i)
  PROVE  LinksRight' /\ DirsRight'
  <1>1. DirsRight'
    BY DEF TreeInv, DirsRight
  <1>2. ASSUME NEW i \in Inum PROVE Entries(i)' = Entries(i) /\ Pending(i)' = Pending(i)
    <2>1. Entries(i)' = Entries(i)
      BY EntriesSame DEF Named
    <2>2. Pending(i)' = Pending(i)
      BY PendingMove
    <2> QED BY <2>1, <2>2
  <1>3. LinksRight'
    BY <1>2 DEF TreeInv, LinksRight
  <1> QED BY <1>1, <1>3

LEMMA CalmKeeps ==
  ASSUME CacheInv, TreeInv, NEW p \in Proc, Ordinary(p), Calm(p)
  PROVE  TreeInv'
  <1>1. CacheInv' /\ Others(p) /\ SlotsStay
    BY OrdinaryKeeps DEF Ordinary
  <1>2. Frame(p)
    <2>1. DiskMoves(p)
      BY DEF Calm, DiskMoves
    <2>2. TypesNew(p) /\ InewWaits(p)
      BY DEF Calm, TypesNew, InewWaits, Places, Making
    <2> QED BY <2>1, <2>2 DEF Calm, Frame
  <1>3. NewRight(p)'
    BY DEF Calm, Places, NewRight
  <1>4. ASSUME NEW i \in Inum PROVE PendOf(p, i)' = PendOf(p, i)
    <2>1. ~InIp(p, i) /\ ~InIp(p, i)' /\ ~InDp(p, i) /\ ~InDp(p, i)'
      BY DEF Calm, Places, Making, InIp, InDp
    <2>2. held[p] # NoSlot => held[p] \in Slot /\ Has(p, held[p])
      BY DEF CacheInv, Typed, Has
    <2>3. InHeld(p, i)' <=> InHeld(p, i)
      BY <1>1, <2>2, HadStays DEF Calm, InHeld, InumOf
    <2> QED BY <2>1, <2>3 DEF PendOf, Is
  <1>5. LinksRight' /\ DirsRight'
    BY <1>1, <1>4, LinksSame DEF Calm
  <1>6. UnnamedCached'
    BY <1>1, <1>2, CachedKeeps DEF Calm
  <1> QED BY <1>1, <1>2, <1>3, <1>5, <1>6, FrameKeeps DEF Calm

\* A step that leaves the disk alone, whatever p arrives at by it.
Quiet(p) ==
  /\ UNCHANGED << dinode, dir, lost, panic >> /\ held'[p] = held[p]
  /\ pc[p] \notin Places /\ pc'[p] \notin Places
  /\ \A t \in Slot : Has(p, t) => Has(p, t)'
  /\ \A t \in Slot : Has(p, t)' => Has(p, t) \/ Pointed(icache'[t].inum)
  /\ rest'[p] \in Seq(Name)
  /\ dp'[p] = NoSlot \/ dp'[p] = dp[p]
       \/ (dp'[p] = ip[p] /\ dinode[InumOf(ip[p])].type = "T_DIR")
  /\ ip'[p] = NoSlot \/ ip'[p] = ip[p] \/ ip'[p] = cwd[p]
       \/ (ip'[p] \in Slot /\ Pointed(icache'[ip'[p]].inum))
  /\ EntryRight(p)'

LEMMA QuietKeeps ==
  ASSUME CacheInv, TreeInv, NEW p \in Proc, Ordinary(p), Quiet(p)
  PROVE  TreeInv'
  <1>1. CacheInv' /\ Others(p) /\ SlotsStay
    BY OrdinaryKeeps DEF Ordinary
  <1>2. /\ UNCHANGED << dinode, dir, lost, panic >> /\ held'[p] = held[p]
        /\ pc[p] \notin Places /\ pc'[p] \notin Places
        /\ rest'[p] \in Seq(Name)
    BY DEF Quiet
  <1>3. GetsRight(p) /\ NoDrop(p)
    BY DEF Quiet, GetsRight, NoDrop
  <1>4. Steps(p)'
    BY <1>2 DEF Steps, Places, Making
  <1>5. TypesRight(p)
    BY DEF TreeInv
  <1>6. ASSUME NEW t \in Slot, Has(p, t) PROVE icache'[t].inum = InumOf(t)
    BY <1>1, <1>6, HadStays DEF InumOf
  <1>7. PICK d, e, h : d = dp'[p] /\ e = ip'[p] /\ h = held'[p]
    OBVIOUS
  <1>8. d # NoSlot => dinode[icache'[d].inum].type = "T_DIR"
    <2>1. CASE d = dp[p] /\ d # NoSlot
      <3>1. d \in Slot /\ Has(p, d)
        BY <2>1 DEF CacheInv, Typed, Has
      <3> QED BY <1>5, <1>6, <2>1, <3>1 DEF TypesRight
    <2>2. CASE d = ip[p] /\ dinode[InumOf(ip[p])].type = "T_DIR" /\ d # NoSlot
      <3>1. d \in Slot /\ Has(p, d)
        BY <2>2 DEF CacheInv, Typed, Has
      <3> QED BY <1>6, <2>2, <3>1
    <2> QED BY <1>7, <2>1, <2>2 DEF Quiet
  <1>9. h # NoSlot => dinode[icache'[h].inum].type = "T_FILE"
    <2>1. CASE h # NoSlot
      <3>1. h = held[p] /\ h \in Slot /\ Has(p, h)
        BY <1>2, <1>7, <2>1 DEF CacheInv, Typed, Has
      <3> QED BY <1>5, <1>6, <2>1, <3>1 DEF TypesRight
    <2> QED BY <2>1
  <1>10. e # NoSlot => dinode[icache'[e].inum].type # "none"
    <2>1. CASE e = ip[p] /\ e # NoSlot
      <3>1. e \in Slot /\ Has(p, e)
        BY <2>1 DEF CacheInv, Typed, Has
      <3> QED BY <1>5, <1>6, <2>1, <3>1 DEF TypesRight
    <2>2. CASE e = cwd[p]
      <3>1. e \in Slot /\ Has(p, e) /\ Keeps(p, e)
        BY <2>2 DEF CacheInv, Typed, Has, Keeps
      <3> QED BY <1>6, <3>1 DEF CacheInv, Settled, InumOf
    <2>3. CASE e \in Slot /\ Pointed(icache'[e].inum)
      <3>1. Has(p, e)'
        BY <1>7 DEF Has
      <3>2. icache'[e].inum \in Inum
        <4>1. icache'[e].ref > 0
          BY <1>1, <2>3, <3>1, TakenThen DEF CacheInv
        <4> QED BY <1>1, <2>3, <4>1 DEF CacheInv, NumbersRight
      <3> QED BY <2>3, <3>2, PointedFacts
    <2> QED BY <1>7, <2>1, <2>2, <2>3 DEF Quiet
  <1>11. TypesRight(p)'
    BY <1>2, <1>7, <1>8, <1>9, <1>10 DEF TypesRight, InumOf, Places
  <1>12. Calm(p)
    BY <1>2, <1>3, <1>4, <1>11 DEF Calm, Quiet
  <1> QED BY <1>12, CalmKeeps

LEMMA TreeClose ==
  ASSUME CacheInv, TreeInv, NEW p \in Proc, Close(p) PROVE TreeInv'
  <1>1. /\ puts[p] = << >> /\ pc[p] = "user" /\ \A t : ~Put1(p, t) /\ ~Put2(p, t)
    BY ReadyFacts DEF Close
  <1>2. Typed
    BY DEF CacheInv
  <1>3. /\ UNCHANGED << dinode, dir, lost, panic, cwd, pc, rest, ip, dp, held >>
        /\ fd[p] \in Slot /\ puts'[p] = << fd[p] >> /\ fd'[p] = NoSlot
    BY <1>2 DEF Typed, Close, Put, locals, disk, ghosts
  <1>4. ASSUME NEW t \in Slot
        PROVE  (Put1(p, t)' <=> t = fd[p]) /\ ~Put2(p, t)'
    BY <1>3, PutsFactsThen
  <1>5. \A t \in Slot : Has(p, t)' <=> Has(p, t)
    BY <1>1, <1>3, <1>4, SlotFacts DEF Has
  <1>6. rest[p] \in Seq(Name)
    BY DEF TreeInv, Steps
  <1>7. Quiet(p)
    BY <1>1, <1>3, <1>5, <1>6 DEF Quiet, EntryRight, Places, Making
  <1> QED BY <1>7, CloseOrdinary, QuietKeeps

LEMMA TreeWalkFails ==
  ASSUME CacheInv, TreeInv, NEW p \in Proc, NEW s \in Slot, s = ip[p], Ready(p, "walk"),
         Lockable(s), Use(s)[s].type # "none", icache' = Use(s), Put(p, << s >>), Fail(p),
         UNCHANGED << disk, files, freeing, ghosts >>
  PROVE  TreeInv'
  <1>1. puts[p] = << >> /\ pc[p] = "walk" /\ \A t : ~Put1(p, t) /\ ~Put2(p, t)
    BY ReadyFacts
  <1>2. Typed /\ Placed(p)
    BY DEF CacheInv
  <1>3. /\ UNCHANGED << dinode, dir, lost, panic, cwd, fd >> /\ puts'[p] = << s >>
        /\ rest'[p] = << >> /\ ip'[p] = NoSlot /\ dp'[p] = NoSlot
        /\ held'[p] = held[p] /\ pc'[p] \in {"bad", "user"}
    BY <1>2 DEF Typed, Put, Fail, Return, Goto, Forget, files, disk, ghosts
  <1>4. ASSUME NEW t \in Slot PROVE (Put1(p, t)' <=> t = s) /\ ~Put2(p, t)'
    BY <1>3, PutsFactsThen
  <1>5. dp[p] = NoSlot
    BY <1>1, <1>2 DEF Placed, InPlace, HasDp, DpLocked
  <1>6. \A t \in Slot : Has(p, t)' <=> Has(p, t)
    BY <1>1, <1>3, <1>4, <1>5, SlotFacts DEF Has
  <1>7. << >> \in Seq(Name)
    OBVIOUS
  <1>8. Quiet(p)
    BY <1>1, <1>3, <1>6, <1>7 DEF Quiet, EntryRight, Places, Making
  <1> QED BY <1>8, WalkFails, QuietKeeps

LEMMA TreeWalkStops ==
  ASSUME CacheInv, TreeInv, NEW p \in Proc, NEW s \in Slot, s = ip[p], Ready(p, "walk"),
         Lockable(s), Use(s)[s].type = "T_DIR", AsParent(p), Len(rest[p]) = 1, icache' = Use(s),
         Goto(p, "parent"), ip' = [ip EXCEPT ![p] = NoSlot], dp' = [dp EXCEPT ![p] = s],
         UNCHANGED << disk, files, call, rest, held, puts, freeing, ghosts >>
  PROVE  TreeInv'
  <1>1. /\ puts[p] = << >> /\ pc[p] = "walk" /\ freeing[p] = "no"
        /\ \A t : ~Put1(p, t) /\ ~Put2(p, t)
    BY ReadyFacts
  <1>2. Typed /\ Placed(p)
    BY DEF CacheInv
  <1>3. /\ UNCHANGED << dinode, dir, lost, panic, cwd, fd, rest, held, puts >>
        /\ pc'[p] = "parent" /\ ip'[p] = NoSlot /\ dp'[p] = s
    BY <1>2 DEF Typed, disk, files, ghosts, Goto
  <1>4. ASSUME NEW t \in Slot PROVE ~Put1(p, t)' /\ ~Put2(p, t)'
    BY <1>1, <1>3, PutsFactsThen
  <1>5. dp[p] = NoSlot
    BY <1>1, <1>2 DEF Placed, InPlace, HasDp, DpLocked
  <1>6. \A t \in Slot : Has(p, t)' <=> Has(p, t)
    BY <1>1, <1>3, <1>4, <1>5, SlotFacts DEF Has
  <1>7. dinode[InumOf(s)].type = "T_DIR"
    <2>1. Has(p, s) /\ \A q \in Proc : ~DoneWith(q, s)
      BY <1>1, NotFreed DEF Has, Lockable
    <2>2. icache[s].ref > 0 /\ icache[s].inum \in Inum
      BY <2>1, Taken DEF CacheInv, NumbersRight
    <2>3. Loaded(s).type = "T_DIR"
      BY <1>2, <2>2, UseFacts
    <2> QED BY <2>1, <2>2, <2>3, LoadedMatches DEF InumOf
  <1>8. rest[p] \in Seq(Name)
    BY DEF TreeInv, Steps
  <1>9. Quiet(p)
    BY <1>1, <1>3, <1>6, <1>7, <1>8 DEF Quiet, EntryRight, Places, Making
  <1>10. Use(s)[s].type # "none"
    OBVIOUS
  <1> QED BY <1>9, <1>10, WalkStops, QuietKeeps

\* A name in a directory that p has arrived at.
LEMMA NameIn ==
  ASSUME CacheInv, NEW p \in Proc, NEW s \in Slot, Has(p, s), NEW n \in Name,
         NEW i, i = dir[icache[s].inum][n], i # None
  PROVE  i \in Inum /\ Pointed(i)
  <1>1. icache[s].inum \in Inum /\ n \in Names
    BY Known DEF Names
  <1> QED BY <1>1, Known DEF Pointed

LEMMA TreeWalkGoes ==
  ASSUME CacheInv, TreeInv, NEW p \in Proc, NEW s \in Slot, s = ip[p], Ready(p, "walk"),
         Lockable(s), Use(s)[s].type # "none", NEW i \in Inum, IgetSlot(Use(s), i) # NoSlot,
         icache' = iget(Use(s), i), ip' = [ip EXCEPT ![p] = IgetSlot(Use(s), i)],
         rest' = [rest EXCEPT ![p] = Tail(@)], Put(p, << s >>),
         Goto(p, IF Len(rest[p]) = 1 THEN "found" ELSE "walk"),
         UNCHANGED << disk, files, call, dp, held, freeing, ghosts >>,
         AsParent(p) => Len(rest[p]) # 1, Pointed(i)
  PROVE  TreeInv'
  <1>1. puts[p] = << >> /\ pc[p] = "walk" /\ \A t : ~Put1(p, t) /\ ~Put2(p, t)
    BY ReadyFacts
  <1>2. Typed /\ Placed(p)
    BY DEF CacheInv
  <1>3. PICK n : n = IgetSlot(Use(s), i)
    OBVIOUS
  <1>4. /\ UNCHANGED << dinode, dir, lost, panic, cwd, fd, dp, held >> /\ puts'[p] = << s >>
        /\ rest'[p] = Tail(rest[p]) /\ ip'[p] = n /\ pc'[p] \in {"found", "walk"}
    BY <1>2, <1>3 DEF Typed, Put, Goto, files, disk, ghosts
  <1>5. n \in Slot /\ icache'[n].inum = i
    <2>1. Has(p, s)
      BY DEF Has
    <2>2. Use(s) \in Caches
      BY <1>2, <2>1, Known, UseFacts
    <2>3. PICK c : c = Use(s)
      OBVIOUS
    <2> QED BY <1>3, <2>2, <2>3, IgetFacts
  <1>6. ASSUME NEW t \in Slot PROVE (Put1(p, t)' <=> t = s) /\ ~Put2(p, t)'
    BY <1>4, PutsFactsThen
  <1>7. \A t \in Slot : /\ Has(p, t) => Has(p, t)'
                        /\ Has(p, t)' => Has(p, t) \/ Pointed(icache'[t].inum)
    BY <1>1, <1>4, <1>5, <1>6, SlotFacts DEF Has
  <1>8. rest'[p] \in Seq(Name)
    <2>1. rest[p] \in Seq(Name) /\ rest[p] # << >>
      BY <1>1, <1>2 DEF TreeInv, Steps, Placed, InPlace
    <2> QED BY <1>4, <2>1, TailFacts
  <1>9. Quiet(p)
    BY <1>1, <1>4, <1>5, <1>7, <1>8 DEF Quiet, EntryRight, Places, Making
  <1> QED BY <1>9, WalkGoes, QuietKeeps

LEMMA TreeEndsWithIp ==
  ASSUME CacheInv, TreeInv, NEW p \in Proc, NEW s \in Slot, s = ip[p],
         Ready(p, "found") \/ Ready(p, "exists"), Lockable(s), Use(s)[s].type # "none",
         icache' = Use(s), Return(p), UNCHANGED << disk, freeing, ghosts >>,
         \/ Opens(p, s)
         \/ Put(p, << s >>) /\ UNCHANGED files
         \/ cwd' = [cwd EXCEPT ![p] = s] /\ Put(p, << cwd[p] >>) /\ UNCHANGED fd
  PROVE  TreeInv'
  <1>1. puts[p] = << >> /\ pc[p] \in {"found", "exists"} /\ \A t : ~Put1(p, t) /\ ~Put2(p, t)
    BY ReadyFacts
  <1>2. Typed /\ Placed(p)
    BY DEF CacheInv
  <1>3. dp[p] = NoSlot /\ held[p] = NoSlot
    BY <1>1, <1>2 DEF Placed, InPlace, HasDp, DpLocked
  <1>4. /\ UNCHANGED << dinode, dir, lost, panic >>
        /\ rest'[p] = << >> /\ ip'[p] = NoSlot /\ dp'[p] = NoSlot /\ held'[p] = NoSlot
        /\ pc'[p] = "user"
    BY <1>2 DEF Typed, Return, Goto, Forget, disk, ghosts
  <1>5. \/ cwd' = cwd /\ fd[p] = NoSlot /\ fd'[p] = s /\ puts' = puts
        \/ UNCHANGED << cwd, fd >> /\ puts'[p] = << s >>
        \/ cwd'[p] = s /\ UNCHANGED fd /\ puts'[p] = << cwd[p] >>
    BY <1>2 DEF Typed, Opens, Put, files
  <1>6. ASSUME NEW t \in Slot PROVE Has(p, t)' <=> Has(p, t)
    <2>1. CASE cwd' = cwd /\ fd[p] = NoSlot /\ fd'[p] = s /\ puts' = puts
      <3>1. ~Put1(p, t)' /\ ~Put2(p, t)'
        BY <1>1, <2>1, PutsFactsThen
      <3> QED BY <1>1, <1>3, <1>4, <2>1, <3>1, SlotFacts DEF Has
    <2>2. CASE UNCHANGED << cwd, fd >> /\ puts'[p] = << s >>
      <3>1. (Put1(p, t)' <=> t = s) /\ ~Put2(p, t)'
        BY <2>2, PutsFactsThen
      <3> QED BY <1>1, <1>3, <1>4, <2>2, <3>1, SlotFacts DEF Has
    <2>3. CASE cwd'[p] = s /\ UNCHANGED fd /\ puts'[p] = << cwd[p] >>
      <3>1. (Put1(p, t)' <=> t = cwd[p]) /\ ~Put2(p, t)'
        BY <2>3, PutsFactsThen
      <3> QED BY <1>1, <1>3, <1>4, <2>3, <3>1, SlotFacts DEF Has
    <2> QED BY <1>5, <2>1, <2>2, <2>3
  <1>7. << >> \in Seq(Name)
    OBVIOUS
  <1>8. Quiet(p)
    BY <1>1, <1>3, <1>4, <1>6, <1>7 DEF Quiet, EntryRight, Places, Making
  <1> QED BY <1>8, EndsWithIp, QuietKeeps

LEMMA TreeBegin ==
  ASSUME CacheInv, TreeInv, NEW p \in Proc, NEW k \in Calls, NoDotdot, Ready(p, "user"),
         call' = [call EXCEPT ![p] = k], Start(p, k.path, icache),
         UNCHANGED << disk, files, dp, held, puts, freeing, ghosts >>
  PROVE  TreeInv'
  <1>1. puts[p] = << >> /\ pc[p] = "user" /\ \A t : ~Put1(p, t) /\ ~Put2(p, t)
    BY ReadyFacts
  <1>2. Typed /\ Placed(p)
    BY DEF CacheInv
  <1>3. /\ UNCHANGED << dinode, dir, lost, panic, cwd, fd, dp, held, puts >>
        /\ rest'[p] = k.path /\ ip'[p] = cwd[p] /\ pc'[p] = "walk"
    BY <1>2 DEF Typed, Start, Goto, files, disk, ghosts
  <1>4. ASSUME NEW t \in Slot PROVE ~Put1(p, t)' /\ ~Put2(p, t)'
    BY <1>1, <1>3, PutsFactsThen
  <1>5. ip[p] = NoSlot
    BY <1>1, <1>2 DEF Placed, InPlace, HasIp, Waiting, IpLocked
  <1>6. \A t \in Slot : Has(p, t)' <=> Has(p, t)
    BY <1>1, <1>3, <1>4, <1>5, SlotFacts DEF Has
  <1>7. Quiet(p)
    BY <1>1, <1>3, <1>6 DEF Quiet, EntryRight, Places, Making, NoDotdot
  <1> QED BY <1>7, BeginOrdinary, QuietKeeps

LEMMA TreeLinkFails ==
  ASSUME CacheInv, TreeInv, NEW p \in Proc, NEW s \in Slot, s = dp[p], Ready(p, "parent"),
         Lockable(s), call[p].op = "link", icache' = Use(s), Put(p, << s >>), Fail(p),
         UNCHANGED << disk, files, freeing, ghosts >>
  PROVE  TreeInv'
  <1>1. puts[p] = << >> /\ pc[p] = "parent" /\ \A t : ~Put1(p, t) /\ ~Put2(p, t)
    BY ReadyFacts
  <1>2. Typed /\ Placed(p)
    BY DEF CacheInv
  <1>3. /\ UNCHANGED << dinode, dir, lost, panic, cwd, fd >> /\ puts'[p] = << s >>
        /\ rest'[p] = << >> /\ ip'[p] = NoSlot /\ dp'[p] = NoSlot
        /\ held'[p] = held[p] /\ pc'[p] \in {"bad", "user"}
    BY <1>2 DEF Typed, Put, Fail, Return, Goto, Forget, files, disk, ghosts
  <1>4. ASSUME NEW t \in Slot PROVE (Put1(p, t)' <=> t = s) /\ ~Put2(p, t)'
    BY <1>3, PutsFactsThen
  <1>5. ip[p] = NoSlot
    BY <1>1, <1>2 DEF Placed, InPlace, HasIp, Waiting, IpLocked
  <1>6. \A t \in Slot : Has(p, t)' <=> Has(p, t)
    BY <1>1, <1>3, <1>4, <1>5, SlotFacts DEF Has
  <1>7. << >> \in Seq(Name)
    OBVIOUS
  <1>8. Quiet(p)
    BY <1>1, <1>3, <1>6, <1>7 DEF Quiet, EntryRight, Places, Making
  <1> QED BY <1>8, LinkFails, QuietKeeps

LEMMA TreeCreateFinds ==
  ASSUME CacheInv, TreeInv, NEW p \in Proc, NEW s \in Slot, s = dp[p], Ready(p, "parent"),
         Lockable(s), call[p].op # "link", NEW i \in Inum, IgetSlot(Use(s), i) # NoSlot,
         icache' = iget(Use(s), i), ip' = [ip EXCEPT ![p] = IgetSlot(Use(s), i)], PutDp(p),
         Goto(p, "exists"), UNCHANGED << disk, files, call, rest, held, freeing, ghosts >>,
         Pointed(i)
  PROVE  TreeInv'
  <1>1. puts[p] = << >> /\ pc[p] = "parent" /\ \A t : ~Put1(p, t) /\ ~Put2(p, t)
    BY ReadyFacts
  <1>2. Typed /\ Placed(p)
    BY DEF CacheInv
  <1>3. PICK n : n = IgetSlot(Use(s), i)
    OBVIOUS
  <1>4. /\ UNCHANGED << dinode, dir, lost, panic, cwd, fd, held, rest >> /\ puts'[p] = << s >>
        /\ ip'[p] = n /\ dp'[p] = NoSlot /\ pc'[p] = "exists"
    BY <1>2, <1>3 DEF Typed, Put, PutDp, Goto, files, disk, ghosts
  <1>5. n \in Slot /\ icache'[n].inum = i
    <2>1. Has(p, s)
      BY DEF Has
    <2>2. Use(s) \in Caches
      BY <1>2, <2>1, Known, UseFacts
    <2>3. PICK c : c = Use(s)
      OBVIOUS
    <2> QED BY <1>3, <2>2, <2>3, IgetFacts
  <1>6. ASSUME NEW t \in Slot PROVE (Put1(p, t)' <=> t = s) /\ ~Put2(p, t)'
    BY <1>4, PutsFactsThen
  <1>7. ip[p] = NoSlot
    BY <1>1, <1>2 DEF Placed, InPlace, HasIp, Waiting, IpLocked
  <1>8. \A t \in Slot : /\ Has(p, t) => Has(p, t)'
                        /\ Has(p, t)' => Has(p, t) \/ Pointed(icache'[t].inum)
    BY <1>1, <1>4, <1>5, <1>6, <1>7, SlotFacts DEF Has
  <1>9. rest[p] \in Seq(Name)
    BY DEF TreeInv, Steps
  <1>10. Quiet(p)
    BY <1>1, <1>4, <1>5, <1>8, <1>9 DEF Quiet, EntryRight, Places, Making
  <1> QED BY <1>10, CreateFinds, QuietKeeps

LEMMA TreeCreateLocks ==
  ASSUME CacheInv, TreeInv, NEW p \in Proc, NEW s \in Slot, s = dp[p], Ready(p, "parent"),
         Lockable(s), call[p].op # "link", icache' = Lock(s), Goto(p, "ialloc"),
         UNCHANGED << disk, files, locals, puts, freeing, ghosts >>, Entry(p) = None
  PROVE  TreeInv'
  <1>1. puts[p] = << >> /\ pc[p] = "parent" /\ \A t : ~Put1(p, t) /\ ~Put2(p, t)
    BY ReadyFacts
  <1>2. Typed
    BY DEF CacheInv
  <1>3. /\ UNCHANGED << dinode, dir, lost, panic, cwd, fd, rest, ip, dp, held, puts >>
        /\ pc'[p] = "ialloc"
    BY <1>2 DEF Typed, Goto, locals, files, disk, ghosts
  <1>4. ASSUME NEW t \in Slot PROVE ~Put1(p, t)' /\ ~Put2(p, t)'
    BY <1>1, <1>3, PutsFactsThen
  <1>5. \A t \in Slot : Has(p, t)' <=> Has(p, t)
    BY <1>1, <1>3, <1>4 DEF Has
  <1>6. EntryRight(p)'
    <2>1. icache'[s].inum = icache[s].inum
      BY <1>2, Known, LockFacts DEF Has
    <2> QED BY <1>3, <2>1 DEF EntryRight, InumOf, Entry, Dir, LastName, Making
  <1>7. rest[p] \in Seq(Name)
    BY DEF TreeInv, Steps
  <1>8. Quiet(p)
    BY <1>1, <1>3, <1>5, <1>6, <1>7 DEF Quiet, Places, Making
  <1> QED BY <1>8, CreateLocks, QuietKeeps

LEMMA TreeMade ==
  ASSUME CacheInv, TreeInv, NEW p \in Proc, NEW s \in Slot, s = ip[p], Ready(p, "made"),
         icache' = Unlock(s), Return(p), Opens(p, s) \/ (Put(p, << s >>) /\ UNCHANGED files),
         UNCHANGED << disk, freeing, ghosts >>
  PROVE  TreeInv'
  <1>1. puts[p] = << >> /\ pc[p] = "made" /\ \A t : ~Put1(p, t) /\ ~Put2(p, t)
    BY ReadyFacts
  <1>2. Typed /\ Placed(p)
    BY DEF CacheInv
  <1>3. dp[p] = NoSlot /\ held[p] = NoSlot
    BY <1>1, <1>2 DEF Placed, InPlace, HasDp, DpLocked
  <1>4. /\ UNCHANGED << dinode, dir, lost, panic >>
        /\ rest'[p] = << >> /\ ip'[p] = NoSlot /\ dp'[p] = NoSlot /\ held'[p] = NoSlot
        /\ pc'[p] = "user"
    BY <1>2 DEF Typed, Return, Goto, Forget, disk, ghosts
  <1>5. \/ cwd' = cwd /\ fd[p] = NoSlot /\ fd'[p] = s /\ puts' = puts
        \/ UNCHANGED << cwd, fd >> /\ puts'[p] = << s >>
    BY <1>2 DEF Typed, Opens, Put, files
  <1>6. ASSUME NEW t \in Slot PROVE Has(p, t)' <=> Has(p, t)
    <2>1. CASE cwd' = cwd /\ fd[p] = NoSlot /\ fd'[p] = s /\ puts' = puts
      <3>1. ~Put1(p, t)' /\ ~Put2(p, t)'
        BY <1>1, <2>1, PutsFactsThen
      <3> QED BY <1>1, <1>3, <1>4, <2>1, <3>1, SlotFacts DEF Has
    <2>2. CASE UNCHANGED << cwd, fd >> /\ puts'[p] = << s >>
      <3>1. (Put1(p, t)' <=> t = s) /\ ~Put2(p, t)'
        BY <2>2, PutsFactsThen
      <3> QED BY <1>1, <1>3, <1>4, <2>2, <3>1, SlotFacts DEF Has
    <2> QED BY <1>5, <2>1, <2>2
  <1>7. << >> \in Seq(Name)
    OBVIOUS
  <1>8. Quiet(p)
    BY <1>1, <1>3, <1>4, <1>6, <1>7 DEF Quiet, EntryRight, Places, Making
  <1> QED BY <1>8, MadeOrdinary, QuietKeeps

LEMMA TreeUnlinkMisses ==
  ASSUME CacheInv, TreeInv, NEW p \in Proc, NEW s \in Slot, s = dp[p], Ready(p, "parent"),
         Lockable(s), call[p].op # "link", icache' = Use(s), Put(p, << s >>), Return(p),
         UNCHANGED << disk, files, freeing, ghosts >>
  PROVE  TreeInv'
  <1>1. puts[p] = << >> /\ pc[p] = "parent" /\ \A t : ~Put1(p, t) /\ ~Put2(p, t)
    BY ReadyFacts
  <1>2. Typed /\ Placed(p)
    BY DEF CacheInv
  <1>3. ip[p] = NoSlot /\ held[p] = NoSlot
    BY <1>1, <1>2 DEF Placed, InPlace, HasIp, Waiting, IpLocked
  <1>4. /\ UNCHANGED << dinode, dir, lost, panic, cwd, fd >> /\ puts'[p] = << s >>
        /\ rest'[p] = << >> /\ ip'[p] = NoSlot /\ dp'[p] = NoSlot
        /\ held'[p] = NoSlot /\ pc'[p] = "user"
    BY <1>2 DEF Typed, Put, Return, Goto, Forget, files, disk, ghosts
  <1>5. ASSUME NEW t \in Slot PROVE (Put1(p, t)' <=> t = s) /\ ~Put2(p, t)'
    BY <1>4, PutsFactsThen
  <1>6. \A t \in Slot : Has(p, t)' <=> Has(p, t)
    BY <1>1, <1>3, <1>4, <1>5, SlotFacts DEF Has
  <1>7. << >> \in Seq(Name)
    OBVIOUS
  <1>8. Quiet(p)
    BY <1>1, <1>3, <1>4, <1>6, <1>7 DEF Quiet, EntryRight, Places, Making
  <1> QED BY <1>8, UnlinkMisses, QuietKeeps

LEMMA TreeUnlinkFinds ==
  ASSUME CacheInv, TreeInv, NEW p \in Proc, NEW s \in Slot, s = dp[p], Ready(p, "parent"),
         Lockable(s), call[p].op # "link", NEW i \in Inum, IgetSlot(Lock(s), i) # NoSlot,
         icache' = iget(Lock(s), i), ip' = [ip EXCEPT ![p] = IgetSlot(Lock(s), i)],
         Goto(p, "victim"),
         UNCHANGED << disk, files, call, rest, dp, held, puts, freeing, ghosts >>,
         i = Entry(p), Pointed(i)
  PROVE  TreeInv'
  <1>1. puts[p] = << >> /\ pc[p] = "parent" /\ \A t : ~Put1(p, t) /\ ~Put2(p, t)
    BY ReadyFacts
  <1>2. Typed /\ Placed(p)
    BY DEF CacheInv
  <1>3. PICK n : n = IgetSlot(Lock(s), i)
    OBVIOUS
  <1>4. /\ UNCHANGED << dinode, dir, lost, panic, cwd, fd, held, rest, dp, puts >>
        /\ ip'[p] = n /\ pc'[p] = "victim"
    BY <1>2, <1>3 DEF Typed, Goto, files, disk, ghosts
  <1>5. n \in Slot /\ icache'[n].inum = i
    <2>1. Has(p, s)
      BY DEF Has
    <2>2. Lock(s) \in Caches
      BY <1>2, <2>1, Known, LockFacts
    <2>3. PICK c : c = Lock(s)
      OBVIOUS
    <2> QED BY <1>3, <2>2, <2>3, IgetFacts
  <1>6. ASSUME NEW t \in Slot PROVE ~Put1(p, t)' /\ ~Put2(p, t)'
    BY <1>1, <1>4, PutsFactsThen
  <1>7. ip[p] = NoSlot
    BY <1>1, <1>2 DEF Placed, InPlace, HasIp, Waiting, IpLocked
  <1>8. \A t \in Slot : /\ Has(p, t) => Has(p, t)'
                        /\ Has(p, t)' => Has(p, t) \/ Pointed(icache'[t].inum)
    BY <1>1, <1>4, <1>5, <1>6, <1>7, SlotFacts DEF Has
  <1>9. rest[p] \in Seq(Name)
    BY DEF TreeInv, Steps
  <1>10. Ordinary(p)
    BY UnlinkFinds
  <1>11. EntryRight(p)'
    <2>1. icache'[s].inum = icache[s].inum
      BY <1>10, HadStays DEF Ordinary, Has
    <2> QED BY <1>4, <1>5, <2>1 DEF EntryRight, InumOf, Entry, Dir, LastName, Making
  <1>12. Quiet(p)
    BY <1>1, <1>4, <1>5, <1>8, <1>9, <1>11 DEF Quiet, Places, Making
  <1> QED BY <1>10, <1>12, QuietKeeps

LEMMA TreeUnlinkRefuses ==
  ASSUME CacheInv, TreeInv, NEW p \in Proc, NEW s \in Slot, s = ip[p], Ready(p, "victim"),
         Lockable(s), Use(s)[s].type # "none", icache' = Use(s), Put(p, << s >>),
         Goto(p, "not_empty"), ip' = [ip EXCEPT ![p] = NoSlot],
         UNCHANGED << disk, files, call, rest, dp, held, freeing, ghosts >>
  PROVE  TreeInv'
  <1>1. puts[p] = << >> /\ pc[p] = "victim" /\ \A t : ~Put1(p, t) /\ ~Put2(p, t)
    BY ReadyFacts
  <1>2. Typed
    BY DEF CacheInv
  <1>3. /\ UNCHANGED << dinode, dir, lost, panic, cwd, fd, rest, dp, held >>
        /\ puts'[p] = << s >> /\ ip'[p] = NoSlot /\ pc'[p] = "not_empty"
    BY <1>2 DEF Typed, Put, Goto, files, disk, ghosts
  <1>4. ASSUME NEW t \in Slot PROVE (Put1(p, t)' <=> t = s) /\ ~Put2(p, t)'
    BY <1>3, PutsFactsThen
  <1>5. \A t \in Slot : Has(p, t)' <=> Has(p, t)
    BY <1>1, <1>3, <1>4, SlotFacts DEF Has
  <1>6. rest[p] \in Seq(Name)
    BY DEF TreeInv, Steps
  <1>7. Quiet(p)
    BY <1>1, <1>3, <1>5, <1>6 DEF Quiet, EntryRight, Places, Making
  <1> QED BY <1>7, UnlinkRefuses, QuietKeeps

LEMMA TreeNotEmpty ==
  ASSUME CacheInv, TreeInv, NEW p \in Proc, NEW s \in Slot, s = dp[p], Ready(p, "not_empty"),
         icache' = Unlock(s), Put(p, << s >>), Return(p), UNCHANGED << disk, files, freeing, ghosts >>
  PROVE  TreeInv'
  <1>1. puts[p] = << >> /\ pc[p] = "not_empty" /\ \A t : ~Put1(p, t) /\ ~Put2(p, t)
    BY ReadyFacts
  <1>2. Typed /\ Placed(p)
    BY DEF CacheInv
  <1>3. ip[p] = NoSlot /\ held[p] = NoSlot
    BY <1>1, <1>2 DEF Placed, InPlace, HasIp, Waiting, IpLocked
  <1>4. /\ UNCHANGED << dinode, dir, lost, panic, cwd, fd >> /\ puts'[p] = << s >>
        /\ rest'[p] = << >> /\ ip'[p] = NoSlot /\ dp'[p] = NoSlot
        /\ held'[p] = NoSlot /\ pc'[p] = "user"
    BY <1>2 DEF Typed, Put, Return, Goto, Forget, files, disk, ghosts
  <1>5. ASSUME NEW t \in Slot PROVE (Put1(p, t)' <=> t = s) /\ ~Put2(p, t)'
    BY <1>4, PutsFactsThen
  <1>6. \A t \in Slot : Has(p, t)' <=> Has(p, t)
    BY <1>1, <1>3, <1>4, <1>5, SlotFacts DEF Has
  <1>7. << >> \in Seq(Name)
    OBVIOUS
  <1>8. Quiet(p)
    BY <1>1, <1>3, <1>4, <1>6, <1>7 DEF Quiet, EntryRight, Places, Making
  <1> QED BY <1>8, NotEmptyOrdinary, QuietKeeps

(***************************************************************************)
(* Steps that write one inode, or one directory, which p has locked.       *)
(***************************************************************************)
Writes(p, s) ==
  /\ UNCHANGED << panic, lost >>
  /\ Has(p, s) /\ (Holds(p, s) \/ ~icache[s].busy) /\ icache'[s].valid
  /\ \A i \in Inum : dinode'[i].type = dinode[i].type
  /\ \A i \in Inum : i # InumOf(s) => dinode'[i] = dinode[i] /\ dir'[i] = dir[i]
  /\ \A t \in Slot : Has(p, t)' <=> Has(p, t)
  /\ dp'[p] \in {NoSlot, dp[p]} /\ ip'[p] \in {NoSlot, ip[p], cwd[p]}
  /\ \/ held'[p] \in {NoSlot, held[p]}
     \/ held'[p] = ip[p] /\ dinode[InumOf(ip[p])].type = "T_FILE"
  /\ rest'[p] \in Seq(Name)
  /\ pc'[p] \notin {"victim", "ialloc", "inew"}
  /\ pc[p] = "inew" => ip[p] = s /\ ~icache[s].busy

\* What becomes of a new inode.
Makes(p) == pc'[p] \in Making =>
  /\ pc[p] \in Making /\ (pc'[p] # "enter" => call[p].op = "mkdir")
  /\ ip'[p] = ip[p] /\ dp'[p] = dp[p] /\ rest'[p] = rest[p] /\ call'[p] = call[p]
  /\ dir'[InumOf(dp[p])][LastName(p)] = dir[InumOf(dp[p])][LastName(p)]
  /\ dinode'[InumOf(ip[p])].nlink = 1
  /\ dir'[InumOf(ip[p])] = IF pc'[p] = "enter" /\ call[p].op = "mkdir"
                           THEN [Empty EXCEPT ![".."] = InumOf(dp[p])] ELSE Empty

LEMMA WriteKeeps ==
  ASSUME CacheInv, TreeInv, NEW p \in Proc, Ordinary(p), NEW s \in Slot, Writes(p, s), Makes(p),
         DirsRight', LinksRight'
  PROVE  TreeInv'
  <1>1. CacheInv' /\ Others(p) /\ SlotsStay
    BY OrdinaryKeeps DEF Ordinary
  <1>2. /\ \A i \in Inum : dinode'[i].type = dinode[i].type
        /\ \A i \in Inum : i # InumOf(s) => dinode'[i] = dinode[i] /\ dir'[i] = dir[i]
        /\ \A t \in Slot : Has(p, t)' <=> Has(p, t)
        /\ Has(p, s) /\ (Holds(p, s) \/ ~icache[s].busy) /\ icache'[s].valid /\ panic' = panic
        /\ pc[p] = "inew" => ip[p] = s /\ ~icache[s].busy
    BY DEF Writes
  <1>3. Frame(p)
    <2>1. DiskMoves(p)
      BY <1>2 DEF DiskMoves
    <2>2. GetsRight(p) /\ TypesNew(p) /\ InewWaits(p)
      BY <1>2 DEF GetsRight, TypesNew, InewWaits
    <2> QED BY <2>1, <2>2 DEF Frame
  <1>4. Steps(p)'
    BY DEF Writes, Makes, Steps, Making
  <1>5. TypesRight(p)
    BY DEF TreeInv
  <1>6. ASSUME NEW t \in Slot, Has(p, t)
        PROVE  /\ icache'[t].inum = InumOf(t) /\ InumOf(t) \in Inum
               /\ dinode'[icache'[t].inum].type = dinode[InumOf(t)].type
    BY <1>1, <1>2, <1>6, HadStays DEF InumOf
  <1>7. PICK d, e, h : d = dp'[p] /\ e = ip'[p] /\ h = held'[p]
    OBVIOUS
  <1>8. d # NoSlot => dinode'[icache'[d].inum].type = "T_DIR"
    <2>1. CASE d = dp[p] /\ d # NoSlot
      <3>1. d \in Slot /\ Has(p, d)
        BY <2>1 DEF CacheInv, Typed, Has
      <3> QED BY <1>5, <1>6, <2>1, <3>1 DEF TypesRight
    <2> QED BY <1>7, <2>1 DEF Writes
  <1>9. h # NoSlot => dinode'[icache'[h].inum].type = "T_FILE"
    <2>1. CASE h = held[p] /\ h # NoSlot
      <3>1. h \in Slot /\ Has(p, h)
        BY <2>1 DEF CacheInv, Typed, Has
      <3> QED BY <1>5, <1>6, <2>1, <3>1 DEF TypesRight
    <2>2. CASE h = ip[p] /\ dinode[InumOf(ip[p])].type = "T_FILE" /\ h # NoSlot
      <3>1. h \in Slot /\ Has(p, h)
        BY <2>2 DEF CacheInv, Typed, Has
      <3> QED BY <1>6, <2>2, <3>1
    <2> QED BY <1>7, <2>1, <2>2 DEF Writes
  <1>10. e # NoSlot => dinode'[icache'[e].inum].type # "none"
    <2>1. CASE e = ip[p] /\ e # NoSlot
      <3>1. e \in Slot /\ Has(p, e)
        BY <2>1 DEF CacheInv, Typed, Has
      <3> QED BY <1>5, <1>6, <2>1, <3>1 DEF TypesRight
    <2>2. CASE e = cwd[p]
      <3>1. e \in Slot /\ Has(p, e) /\ Keeps(p, e)
        BY <2>2 DEF CacheInv, Typed, Has, Keeps
      <3> QED BY <1>6, <3>1 DEF CacheInv, Settled, InumOf
    <2> QED BY <1>7, <2>1, <2>2 DEF Writes
  <1>11. ASSUME pc'[p] \in Making
         PROVE  /\ pc[p] \in Making /\ ip'[p] = ip[p] /\ dp'[p] = dp[p] /\ call'[p] = call[p]
                /\ rest'[p] = rest[p]
                /\ ip[p] \in Slot /\ Has(p, ip[p]) /\ dp[p] \in Slot /\ Has(p, dp[p])
                /\ e = ip[p] /\ d = dp[p]
                /\ icache'[e].inum = InumOf(ip[p]) /\ icache'[d].inum = InumOf(dp[p])
                /\ dinode'[icache'[e].inum].type = dinode[InumOf(ip[p])].type
    <2>1. pc[p] \in Making /\ ip'[p] = ip[p] /\ dp'[p] = dp[p] /\ call'[p] = call[p]
          /\ rest'[p] = rest[p]
      BY <1>11 DEF Makes
    <2>2. ip[p] \in Slot /\ Has(p, ip[p]) /\ dp[p] \in Slot /\ Has(p, dp[p])
      BY <2>1, MakingFacts
    <2> QED BY <1>6, <1>7, <2>1, <2>2
  <1>12. TypesRight(p)'
    BY <1>5, <1>7, <1>8, <1>9, <1>10, <1>11 DEF TypesRight, InumOf
  <1>13. EntryRight(p)'
    <2>1. CASE pc'[p] \in Making
      <3>1. dir[InumOf(dp[p])][LastName(p)] = None
        BY <1>11, <2>1 DEF TreeInv, EntryRight
      <3>2. dir'[InumOf(dp[p])][LastName(p)] = None
        BY <2>1, <3>1 DEF Makes
      <3>3. pc'[p] # "victim" /\ dp'[p] = d
        BY <1>7 DEF Writes
      <3> QED BY <1>11, <2>1, <3>2, <3>3 DEF EntryRight, LastName, InumOf
    <2>2. CASE pc'[p] \notin Making
      BY <2>2 DEF Writes, EntryRight, Making
    <2> QED BY <2>1, <2>2
  <1>14. NewRight(p)'
    <2> SUFFICES ASSUME pc'[p] \in Making PROVE NewRight(p)'
      BY DEF NewRight
    <2>1. /\ dinode'[icache'[e].inum].nlink = 1
          /\ dir'[icache'[e].inum] = IF pc'[p] = "enter" /\ call'[p].op = "mkdir"
                           THEN [Empty EXCEPT ![".."] = icache'[d].inum] ELSE Empty
      BY <1>11 DEF Makes
    <2>2. pc'[p] # "inew"
      BY DEF Writes
    <2>3. ASSUME NEW r \in Proc, r # p, Has(r, e)' PROVE FALSE
      <3>1. Has(r, e)
        BY <1>1, <2>3, HasStays
      <3>2. DoneWith(r, e) /\ pc[p] = "inew"
        BY <1>11, <2>3, <3>1 DEF TreeInv, NewRight
      <3>3. ~icache[e].busy /\ e \in Slot
        BY <1>2, <1>11, <3>2
      <3> QED BY <3>2, <3>3 DEF CacheInv, LocksRight, Holds, Frees, DoneWith
    <2>4. \A r \in Proc : r # p /\ Has(r, ip[p])' => FALSE
      BY <1>7, <2>3 DEF Has, Put1, Put2
    <2> QED BY <1>7, <2>1, <2>2, <2>4 DEF NewRight, InumOf
  <1>15. UnnamedCached'
    <2>1. NoDrop(p)
      BY <1>2 DEF NoDrop
    <2> QED BY <1>1, <1>3, <2>1, CachedKeeps
  <1> QED BY <1>1, <1>2, <1>3, <1>4, <1>12, <1>13, <1>14, <1>15, FrameKeeps

\* A link is counted, or not any more, for a name that comes later, or that has gone.
LEMMA CountKeeps ==
  ASSUME CacheInv, TreeInv, NEW p \in Proc, Ordinary(p), NEW s \in Slot, Writes(p, s), Makes(p),
         dir' = dir, dinode[InumOf(s)].type # "none",
         NEW n \in Int, dinode'[InumOf(s)].nlink = dinode[InumOf(s)].nlink + n,
         \A i \in Inum : PendOf(p, i)' = PendOf(p, i) + (IF i = InumOf(s) THEN n ELSE 0)
  PROVE  TreeInv'
  <1>1. Others(p) /\ SlotsStay /\ lost' = lost
    BY DEF Ordinary, Writes
  <1>2. \A i \in Inum : /\ dinode'[i].type = dinode[i].type
                        /\ i # InumOf(s) => dinode'[i].nlink = dinode[i].nlink
    BY DEF Writes
  <1>3. DirsRight'
    <2>1. \A i \in Inum : dinode'[i].type = "none" => dinode'[i].nlink = 0
      BY <1>2 DEF TreeInv, DirsRight
    <2>2. dinode'[ROOTINO].type = "T_DIR" /\ dir'[ROOTINO][".."] = ROOTINO
      BY <1>2, SlotFacts DEF TreeInv, DirsRight
    <2>3. \A i \in Inum : dinode'[i].type # "T_DIR" => dir'[i] = Empty
      BY <1>2 DEF TreeInv, DirsRight
    <2>4. ASSUME NEW d \in Inum, NEW m \in Name, dir[d][m] # None,
                 dinode'[dir[d][m]].type = "T_DIR"
          PROVE  dinode[dir[d][m]].type = "T_DIR"
      <3>1. dir[d][m] \in Inum
        BY <2>4 DEF CacheInv, Typed, Names
      <3> QED BY <1>2, <2>4, <3>1
    <2> QED BY <2>1, <2>2, <2>3, <2>4 DEF TreeInv, DirsRight
  <1>4. LinksRight'
    <2>1. ASSUME NEW i \in Inum
          PROVE  /\ dinode'[i].nlink >= Entries(i)' + Pending(i)'
                 /\ i \notin lost' => dinode'[i].nlink = Entries(i)' + Pending(i)'
      <3>1. Entries(i)' = Entries(i)
        BY EntriesSame DEF Named
      <3>2. /\ Pending(i) \in Nat /\ PendOf(p, i) \in Nat
            /\ Pending(i)' = Pending(i) - PendOf(p, i) + PendOf(p, i)'
        BY <1>1, PendingMove
      <3>3. /\ dinode[i].nlink \in Int /\ Entries(i) \in Nat
            /\ dinode[i].nlink >= Entries(i) + Pending(i)
            /\ i \notin lost => dinode[i].nlink = Entries(i) + Pending(i)
        BY LinkFacts
      <3>4. PendOf(p, i)' = PendOf(p, i) + (IF i = InumOf(s) THEN n ELSE 0)
        OBVIOUS
      <3>5. dinode'[i].nlink = dinode[i].nlink + (IF i = InumOf(s) THEN n ELSE 0)
        BY <1>2, <3>3
      <3> QED BY <1>1, <3>1, <3>2, <3>3, <3>4, <3>5
    <2> QED BY <2>1 DEF LinksRight
  <1> QED BY <1>3, <1>4, WriteKeeps

\* iupdate of a cache that says of the inode what the disk says, but for n links.
LEMMA UpdateWrites ==
  ASSUME CacheInv, NEW c \in Caches, NEW s \in Slot, NEW n \in Int, iupdate(c, s),
         icache[s].inum \in Inum, c[s].inum = icache[s].inum,
         c[s].type = dinode[icache[s].inum].type, c[s].nlink = dinode[icache[s].inum].nlink + n
  PROVE  /\ InumOf(s) \in Inum
         /\ \A i \in Inum : dinode'[i].type = dinode[i].type
         /\ \A i \in Inum : i # InumOf(s) => dinode'[i] = dinode[i]
         /\ dinode'[InumOf(s)].nlink = dinode[InumOf(s)].nlink + n
  <1>1. /\ dinode'[c[s].inum].type = c[s].type /\ dinode'[c[s].inum].nlink = c[s].nlink
        /\ \A i \in Inum : i # c[s].inum => dinode'[i] = dinode[i]
    BY IupdateFacts DEF CacheInv
  <1> QED BY <1>1 DEF InumOf

LEMMA TreeFoundLinks ==
  ASSUME CacheInv, TreeInv, NEW p \in Proc, NEW s \in Slot, s = ip[p], Ready(p, "found"),
         Lockable(s), Use(s)[s].type \notin {"none", "T_DIR"}, call[p].op = "link",
         NEW c, c = AddLink(Use(s), s, 1), Start(p, call[p].new, c), iupdate(c, s),
         held' = [held EXCEPT ![p] = s],
         UNCHANGED << dir, files, call, dp, puts, freeing, ghosts >>
  PROVE  TreeInv'
  <1>1. /\ puts[p] = << >> /\ pc[p] = "found" /\ freeing[p] = "no"
        /\ \A t : ~Put1(p, t) /\ ~Put2(p, t)
    BY ReadyFacts
  <1>2. Typed /\ Placed(p)
    BY DEF CacheInv
  <1>3. /\ UNCHANGED << dir, lost, panic, cwd, fd, dp, puts >>
        /\ pc'[p] = "walk" /\ ip'[p] = cwd[p] /\ rest'[p] = call[p].new /\ held'[p] = s
    BY <1>2 DEF Typed, files, ghosts, Start, Goto
  <1>4. Ordinary(p)
    BY FoundLinks
  <1>5. /\ Use(s) \in Caches /\ Has(p, s) /\ icache[s].inum \in Inum /\ ~icache[s].busy
        /\ Use(s)[s].inum = icache[s].inum
        /\ dinode[icache[s].inum].type = Use(s)[s].type
        /\ dinode[icache[s].inum].nlink = Use(s)[s].nlink
    <2>1. Has(p, s) /\ ~icache[s].busy
      BY DEF Has, Lockable
    <2> QED BY <1>1, <2>1, UseTo DEF Kept
  <1>6. c \in Caches /\ c[s].inum = icache[s].inum
        /\ c[s].type = dinode[icache[s].inum].type
        /\ c[s].nlink = dinode[icache[s].inum].nlink + 1
    BY <1>5, AddLinkFacts
  <1>7. /\ InumOf(s) \in Inum
        /\ \A i \in Inum : dinode'[i].type = dinode[i].type
        /\ \A i \in Inum : i # InumOf(s) => dinode'[i] = dinode[i]
        /\ dinode'[InumOf(s)].nlink = dinode[InumOf(s)].nlink + 1
    BY <1>5, <1>6, UpdateWrites
  <1>8. dinode[InumOf(s)].type = "T_FILE"
    <2>1. dinode[icache[s].inum].type \in Types
      BY <1>2, <1>5 DEF Typed
    <2> QED BY <1>5, <2>1 DEF Types, InumOf
  <1>9. ASSUME NEW t \in Slot PROVE ~Put1(p, t)' /\ ~Put2(p, t)'
    BY <1>1, <1>3, PutsFactsThen
  <1>10. held[p] = NoSlot /\ dp[p] = NoSlot
    BY <1>1, <1>2 DEF Placed, InPlace, HasDp, DpLocked
  <1>11. ASSUME NEW t \in Slot PROVE Has(p, t)' <=> Has(p, t)
    BY <1>1, <1>3, <1>9, <1>10, SlotFacts DEF Has
  <1>12. call[p].new \in Seq(Name)
    BY <1>1, <1>2, InodesAssumption DEF Placed, InPlace
  <1>13. icache'[s].valid
    BY <1>3, <1>4 DEF Ordinary, ValidThen
  <1>14. Writes(p, s) /\ Makes(p)
    BY <1>1, <1>3, <1>5, <1>7, <1>8, <1>10, <1>11, <1>12, <1>13 DEF Writes, Makes, Making
  <1>15. ASSUME NEW i \in Inum
         PROVE  PendOf(p, i)' = PendOf(p, i) + (IF i = InumOf(s) THEN 1 ELSE 0)
    <2>1. InumOf(s)' = InumOf(s)
      BY <1>4, <1>5, HadStays DEF Ordinary
    <2>2. /\ ~InHeld(p, i) /\ ~InIp(p, i) /\ ~InDp(p, i) /\ ~InIp(p, i)' /\ ~InDp(p, i)'
          /\ InHeld(p, i)' <=> i = InumOf(s)
      BY <1>1, <1>3, <1>10, <2>1, SlotFacts DEF InHeld, InIp, InDp, InumOf
    <2> QED BY <2>2 DEF PendOf, Is
  <1>16. dinode[InumOf(s)].type # "none"
    BY <1>8
  <1> QED BY <1>3, <1>4, <1>7, <1>14, <1>15, <1>16, CountKeeps

LEMMA TreeLinkBad ==
  ASSUME CacheInv, TreeInv, NEW p \in Proc, NEW s \in Slot, s = held[p], Ready(p, "bad"),
         Lockable(s), NEW c, c = AddLink(icache, s, TakesBack), icache' = c, iupdate(c, s),
         Put(p, << s >>), Return(p), UNCHANGED << dir, files, freeing, ghosts >>
  PROVE  TreeInv'
  <1>1. /\ puts[p] = << >> /\ pc[p] = "bad" /\ freeing[p] = "no"
        /\ \A t : ~Put1(p, t) /\ ~Put2(p, t)
    BY ReadyFacts
  <1>2. Typed /\ Placed(p) /\ icache \in Caches
    BY DEF CacheInv, Typed, Caches
  <1>3. /\ UNCHANGED << dir, lost, panic, cwd, fd >> /\ puts'[p] = << s >>
        /\ pc'[p] = "user" /\ ip'[p] = NoSlot /\ dp'[p] = NoSlot /\ held'[p] = NoSlot
        /\ rest'[p] = << >>
    BY <1>2 DEF Typed, files, ghosts, Put, Return, Goto, Forget
  <1>4. Ordinary(p)
    BY LinkBadOrdinary
  <1>5. /\ Has(p, s) /\ ~icache[s].busy /\ icache[s].valid
    BY <1>1, <1>2, ValidBefore DEF Has, Lockable
  <1>6. /\ icache[s].inum \in Inum /\ dinode[icache[s].inum].type = icache[s].type
        /\ dinode[icache[s].inum].nlink = icache[s].nlink /\ icache[s].type # "none"
    BY <1>1, <1>5, LockedMatches
  <1>7. -1 \in Int /\ TakesBack = -1
    BY DEF TakesBack
  <1>8. c \in Caches /\ c[s].inum = icache[s].inum /\ c[s].valid
        /\ c[s].type = dinode[icache[s].inum].type
        /\ c[s].nlink = dinode[icache[s].inum].nlink + (-1)
    BY <1>2, <1>5, <1>6, <1>7, AddLinkFacts
  <1>9. /\ InumOf(s) \in Inum
        /\ \A i \in Inum : dinode'[i].type = dinode[i].type
        /\ \A i \in Inum : i # InumOf(s) => dinode'[i] = dinode[i]
        /\ dinode'[InumOf(s)].nlink = dinode[InumOf(s)].nlink + (-1)
    BY <1>6, <1>7, <1>8, UpdateWrites
  <1>10. ASSUME NEW t \in Slot PROVE (Put1(p, t)' <=> t = s) /\ ~Put2(p, t)'
    BY <1>3, PutsFactsThen
  <1>11. ip[p] = NoSlot /\ dp[p] = NoSlot
    BY <1>1, <1>2 DEF Placed, InPlace, HasIp, Waiting, IpLocked, HasDp, DpLocked
  <1>12. ASSUME NEW t \in Slot PROVE Has(p, t)' <=> Has(p, t)
    BY <1>1, <1>3, <1>10, <1>11, SlotFacts DEF Has
  <1>13. << >> \in Seq(Name)
    OBVIOUS
  <1>14. Writes(p, s) /\ Makes(p)
    BY <1>1, <1>3, <1>5, <1>8, <1>9, <1>12, <1>13 DEF Writes, Makes, Making
  <1>15. ASSUME NEW i \in Inum
         PROVE  PendOf(p, i)' = PendOf(p, i) + (IF i = InumOf(s) THEN -1 ELSE 0)
    <2>1. /\ ~InHeld(p, i)' /\ ~InIp(p, i) /\ ~InDp(p, i) /\ ~InIp(p, i)' /\ ~InDp(p, i)'
          /\ InHeld(p, i) <=> i = InumOf(s)
      BY <1>1, <1>3, SlotFacts DEF InHeld, InIp, InDp
    <2> QED BY <2>1 DEF PendOf, Is
  <1>16. dinode[InumOf(s)].type # "none"
    BY <1>6 DEF InumOf
  <1> QED BY <1>3, <1>4, <1>7, <1>9, <1>14, <1>15, <1>16, CountKeeps

LEMMA TreeCreateInode ==
  ASSUME CacheInv, TreeInv, NEW p \in Proc, NEW s \in Slot, s = ip[p], Ready(p, "inew"),
         Lockable(s), NEW c, c = SetLink(Lock(s), s), c[s].type # "none", icache' = c,
         iupdate(c, s), Goto(p, IF call[p].op = "mkdir" THEN "dots" ELSE "enter"),
         UNCHANGED << dir, files, locals, puts, freeing, ghosts >>
  PROVE  TreeInv'
  <1>1. /\ puts[p] = << >> /\ pc[p] = "inew" /\ freeing[p] = "no"
        /\ \A t : ~Put1(p, t) /\ ~Put2(p, t)
    BY ReadyFacts
  <1>2. Typed /\ Placed(p)
    BY DEF CacheInv
  <1>3. /\ UNCHANGED << dir, lost, panic, cwd, fd, call, rest, ip, dp, held, puts >>
        /\ pc'[p] = IF call[p].op = "mkdir" THEN "dots" ELSE "enter"
    BY <1>2 DEF Typed, files, locals, ghosts, Goto
  <1>4. Ordinary(p)
    BY CreateInodeOrdinary
  <1>5. Has(p, s) /\ ~icache[s].busy /\ icache[s].inum \in Inum
    <2>1. Has(p, s) /\ ~icache[s].busy
      BY DEF Has, Lockable
    <2> QED BY <2>1, Known
  <1>6. Lock(s) \in Caches /\ Lock(s)[s].inum = icache[s].inum
    BY <1>2, <1>5, LockFacts
  <1>7. /\ c \in Caches /\ c[s].inum = icache[s].inum /\ c[s].type = Lock(s)[s].type
        /\ c[s].nlink = 1
    BY <1>6, SetLinkFacts
  <1>8. dinode[icache[s].inum].type = c[s].type
    BY <1>1, <1>5, <1>7, LockTo
  <1>9. dinode[icache[s].inum].nlink = 0 /\ dir[icache[s].inum] = Empty
    BY <1>1 DEF TreeInv, NewRight, Making, InumOf
  <1>10. 1 \in Int /\ c[s].nlink = dinode[icache[s].inum].nlink + 1
    BY <1>7, <1>9
  <1>11. /\ InumOf(s) \in Inum
         /\ \A i \in Inum : dinode'[i].type = dinode[i].type
         /\ \A i \in Inum : i # InumOf(s) => dinode'[i] = dinode[i]
         /\ dinode'[InumOf(s)].nlink = dinode[InumOf(s)].nlink + 1
    BY <1>5, <1>7, <1>8, <1>10, UpdateWrites
  <1>12. ASSUME NEW t \in Slot PROVE ~Put1(p, t)' /\ ~Put2(p, t)'
    BY <1>1, <1>3, PutsFactsThen
  <1>13. ASSUME NEW t \in Slot PROVE Has(p, t)' <=> Has(p, t)
    BY <1>1, <1>3, <1>12 DEF Has
  <1>14. icache'[s].valid
    BY <1>3, <1>4 DEF Ordinary, ValidThen, IpLocked
  <1>15. rest[p] \in Seq(Name)
    BY DEF TreeInv, Steps
  <1>16. Writes(p, s)
    BY <1>1, <1>3, <1>5, <1>11, <1>13, <1>14, <1>15 DEF Writes
  <1>17. Makes(p)
    <2>1. dinode'[InumOf(ip[p])].nlink = 1 /\ dir'[InumOf(ip[p])] = Empty
      BY <1>3, <1>9, <1>11 DEF InumOf
    <2> QED BY <1>1, <1>3, <2>1 DEF Makes, Making
  <1>18. ASSUME NEW i \in Inum
         PROVE  PendOf(p, i)' = PendOf(p, i) + (IF i = InumOf(s) THEN 1 ELSE 0)
    <2>1. InumOf(s)' = InumOf(s)
      BY <1>4, <1>5, HadStays DEF Ordinary
    <2>2. held[p] = NoSlot
      BY <1>1, <1>2 DEF Placed, InPlace
    <2>3. /\ ~InHeld(p, i) /\ ~InHeld(p, i)' /\ ~InIp(p, i) /\ ~InDp(p, i) /\ ~InDp(p, i)'
          /\ InIp(p, i)' <=> i = InumOf(s)
      BY <1>1, <1>3, <2>1, <2>2 DEF InHeld, InIp, InDp, InumOf
    <2> QED BY <2>3 DEF PendOf, Is
  <1>19. dinode[InumOf(s)].type # "none"
    BY <1>8 DEF InumOf
  <1> QED BY <1>3, <1>4, <1>10, <1>11, <1>16, <1>17, <1>18, <1>19, CountKeeps

\* A new inode and its parent are two.
LEMMA TwoInodes ==
  ASSUME CacheInv, NEW p \in Proc, pc[p] \in IpLocked \cap DpLocked
  PROVE  /\ ip[p] \in Slot /\ Has(p, ip[p]) /\ dp[p] \in Slot /\ Has(p, dp[p])
         /\ InumOf(ip[p]) \in Inum /\ InumOf(dp[p]) \in Inum /\ InumOf(ip[p]) # InumOf(dp[p])
         /\ Holds(p, ip[p]) /\ Holds(p, dp[p]) /\ held[p] = NoSlot
         /\ icache[ip[p]].valid /\ icache[dp[p]].valid
  <1>1. ip[p] \in Slot /\ Has(p, ip[p]) /\ dp[p] \in Slot /\ Has(p, dp[p])
    BY AtSlots DEF HasIp, HasDp, Has
  <1>2. ip[p] # dp[p] /\ held[p] = NoSlot
    BY DEF CacheInv, Placed, InPlace, IpLocked, DpLocked
  <1>3. icache[ip[p]].ref > 0 /\ icache[dp[p]].ref > 0
    BY <1>1, Taken DEF CacheInv
  <1>4. icache[ip[p]].valid /\ icache[dp[p]].valid
    BY <1>1, ValidBefore
  <1> QED BY <1>1, <1>2, <1>3, <1>4 DEF CacheInv, NumbersRight, InumOf, Holds

LEMMA TreeDots ==
  ASSUME CacheInv, TreeInv, NEW p \in Proc, NEW s \in Slot, s = dp[p], Ready(p, "dots"),
         NEW c, c = AddLink(icache, s, Dotdot), icache' = c, iupdate(c, s), Goto(p, "dotdot"),
         UNCHANGED << dir, files, locals, puts, freeing, ghosts >>
  PROVE  TreeInv'
  <1>1. /\ puts[p] = << >> /\ pc[p] = "dots" /\ freeing[p] = "no"
        /\ \A t : ~Put1(p, t) /\ ~Put2(p, t)
    BY ReadyFacts
  <1>2. Typed /\ icache \in Caches
    BY DEF CacheInv, Typed, Caches
  <1>3. /\ UNCHANGED << dir, lost, panic, cwd, fd, call, rest, ip, dp, held, puts >>
        /\ pc'[p] = "dotdot"
    BY <1>2 DEF Typed, files, locals, ghosts, Goto
  <1>4. Ordinary(p)
    BY DotsOrdinary
  <1>5. PICK k : k = ip[p]
    OBVIOUS
  <1>6. /\ Has(p, s) /\ Holds(p, s) /\ icache[s].valid /\ held[p] = NoSlot
        /\ k \in Slot /\ Has(p, k) /\ InumOf(k) \in Inum /\ InumOf(k) # InumOf(s)
    BY <1>1, <1>5, TwoInodes DEF IpLocked, DpLocked
  <1>7. /\ icache[s].inum \in Inum /\ dinode[icache[s].inum].type = icache[s].type
        /\ dinode[icache[s].inum].nlink = icache[s].nlink /\ icache[s].type # "none"
    BY <1>1, <1>6, LockedMatches
  <1>8. 1 \in Int /\ Dotdot = 1
    BY DEF Dotdot
  <1>9. c \in Caches /\ c[s].inum = icache[s].inum /\ c[s].valid
        /\ c[s].type = dinode[icache[s].inum].type
        /\ c[s].nlink = dinode[icache[s].inum].nlink + 1
    BY <1>2, <1>6, <1>7, <1>8, AddLinkFacts
  <1>10. /\ InumOf(s) \in Inum
         /\ \A i \in Inum : dinode'[i].type = dinode[i].type
         /\ \A i \in Inum : i # InumOf(s) => dinode'[i] = dinode[i]
         /\ dinode'[InumOf(s)].nlink = dinode[InumOf(s)].nlink + 1
    BY <1>7, <1>8, <1>9, UpdateWrites
  <1>11. ASSUME NEW t \in Slot PROVE ~Put1(p, t)' /\ ~Put2(p, t)'
    BY <1>1, <1>3, PutsFactsThen
  <1>12. ASSUME NEW t \in Slot PROVE Has(p, t)' <=> Has(p, t)
    BY <1>1, <1>3, <1>11 DEF Has
  <1>13. rest[p] \in Seq(Name) /\ call[p].op = "mkdir"
    BY <1>1 DEF TreeInv, Steps
  <1>14. Writes(p, s)
    BY <1>1, <1>3, <1>6, <1>9, <1>10, <1>12, <1>13 DEF Writes
  <1>15. Makes(p)
    <2>1. dinode[InumOf(ip[p])].nlink = 1 /\ dir[InumOf(ip[p])] = Empty
      BY <1>1 DEF TreeInv, NewRight, Making
    <2>2. dinode'[InumOf(ip[p])].nlink = 1 /\ dir'[InumOf(ip[p])] = Empty
      BY <1>3, <1>5, <1>6, <1>10, <2>1
    <2> QED BY <1>1, <1>3, <1>13, <2>2 DEF Makes, Making
  <1>16. ASSUME NEW i \in Inum
         PROVE  PendOf(p, i)' = PendOf(p, i) + (IF i = InumOf(s) THEN 1 ELSE 0)
    <2>1. InumOf(s)' = InumOf(s) /\ InumOf(k)' = InumOf(k)
      BY <1>4, <1>6, HadStays DEF Ordinary
    <2>2. /\ ~InHeld(p, i) /\ ~InHeld(p, i)' /\ ~InDp(p, i)
          /\ InIp(p, i)' <=> InIp(p, i)
          /\ InDp(p, i)' <=> i = InumOf(s)
      BY <1>1, <1>3, <1>5, <1>6, <2>1 DEF InHeld, InIp, InDp, InumOf
    <2> QED BY <2>2 DEF PendOf, Is
  <1>17. dinode[InumOf(s)].type # "none"
    BY <1>7 DEF InumOf
  <1> QED BY <1>3, <1>4, <1>8, <1>10, <1>14, <1>15, <1>16, <1>17, CountKeeps

LEMMA TreeUndot ==
  ASSUME CacheInv, TreeInv, NEW p \in Proc, NEW s \in Slot, s = dp[p], Ready(p, "undot"),
         NEW c, c = AddLink(Unlock(s), s, -1), icache' = c, iupdate(c, s), PutDp(p),
         Goto(p, "erased"), UNCHANGED << dir, files, call, rest, ip, held, freeing, ghosts >>
  PROVE  TreeInv'
  <1>1. /\ puts[p] = << >> /\ pc[p] = "undot" /\ freeing[p] = "no"
        /\ \A t : ~Put1(p, t) /\ ~Put2(p, t)
    BY ReadyFacts
  <1>2. Typed
    BY DEF CacheInv
  <1>3. /\ UNCHANGED << dir, lost, panic, cwd, fd, call, rest, ip, held >>
        /\ pc'[p] = "erased" /\ dp'[p] = NoSlot /\ puts'[p] = << s >>
    BY <1>2 DEF Typed, files, ghosts, Goto, PutDp, Put
  <1>4. -1 \in Int
    OBVIOUS
  <1>5. Ordinary(p)
    BY <1>4, UndotOrdinary
  <1>6. PICK k : k = ip[p]
    OBVIOUS
  <1>7. /\ Has(p, s) /\ Holds(p, s) /\ icache[s].valid /\ held[p] = NoSlot
        /\ k \in Slot /\ Has(p, k) /\ InumOf(k) \in Inum
    BY <1>1, <1>6, TwoInodes DEF IpLocked, DpLocked
  <1>8. /\ icache[s].inum \in Inum /\ dinode[icache[s].inum].type = icache[s].type
        /\ dinode[icache[s].inum].nlink = icache[s].nlink /\ icache[s].type # "none"
    BY <1>1, <1>7, LockedMatches
  <1>9. PICK b : b = Unlock(s)
    OBVIOUS
  <1>10. /\ b \in Caches /\ b[s].inum = icache[s].inum /\ b[s].valid = icache[s].valid
         /\ b[s].type = icache[s].type /\ b[s].nlink = icache[s].nlink
    BY <1>9, UnlockTo
  <1>11. c \in Caches /\ c[s].inum = icache[s].inum /\ c[s].valid
         /\ c[s].type = dinode[icache[s].inum].type
         /\ c[s].nlink = dinode[icache[s].inum].nlink + (-1)
    <2>1. PICK n \in Int : n = -1
      BY <1>4
    <2>2. c = AddLink(b, s, n)
      BY <1>9, <2>1
    <2>3. /\ c \in Caches /\ c[s].inum = b[s].inum /\ c[s].valid = b[s].valid
          /\ c[s].type = b[s].type /\ c[s].nlink = b[s].nlink + n
      BY <1>10, <2>2, AddLinkFacts
    <2> QED BY <1>7, <1>8, <1>10, <2>1, <2>3
  <1>12. /\ InumOf(s) \in Inum
         /\ \A i \in Inum : dinode'[i].type = dinode[i].type
         /\ \A i \in Inum : i # InumOf(s) => dinode'[i] = dinode[i]
         /\ dinode'[InumOf(s)].nlink = dinode[InumOf(s)].nlink + (-1)
    BY <1>4, <1>8, <1>11, UpdateWrites
  <1>13. ASSUME NEW t \in Slot PROVE (Put1(p, t)' <=> t = s) /\ ~Put2(p, t)'
    BY <1>3, PutsFactsThen
  <1>14. ASSUME NEW t \in Slot PROVE Has(p, t)' <=> Has(p, t)
    BY <1>1, <1>3, <1>13, SlotFacts DEF Has
  <1>15. rest[p] \in Seq(Name)
    BY DEF TreeInv, Steps
  <1>16. Writes(p, s) /\ Makes(p)
    BY <1>1, <1>3, <1>7, <1>11, <1>12, <1>14, <1>15 DEF Writes, Makes, Making
  <1>17. ASSUME NEW i \in Inum
         PROVE  PendOf(p, i)' = PendOf(p, i) + (IF i = InumOf(s) THEN -1 ELSE 0)
    <2>1. InumOf(k)' = InumOf(k)
      BY <1>5, <1>7, HadStays DEF Ordinary
    <2>2. /\ ~InHeld(p, i) /\ ~InHeld(p, i)' /\ ~InDp(p, i)'
          /\ InIp(p, i)' <=> InIp(p, i)
          /\ InDp(p, i) <=> i = InumOf(s)
      BY <1>1, <1>3, <1>6, <1>7, <2>1 DEF InHeld, InIp, InDp, InumOf
    <2> QED BY <2>2 DEF PendOf, Is
  <1>18. dinode[InumOf(s)].type # "none"
    BY <1>8 DEF InumOf
  <1> QED BY <1>3, <1>4, <1>5, <1>12, <1>16, <1>17, <1>18, CountKeeps

LEMMA TreeUnlinkDone ==
  ASSUME CacheInv, TreeInv, NEW p \in Proc, NEW s \in Slot, s = ip[p], Ready(p, "erased"),
         NEW c, c = AddLink(Unlock(s), s, -1), icache' = c, iupdate(c, s), Put(p, << s >>),
         Return(p), UNCHANGED << dir, files, freeing, ghosts >>
  PROVE  TreeInv'
  <1>1. /\ puts[p] = << >> /\ pc[p] = "erased" /\ freeing[p] = "no"
        /\ \A t : ~Put1(p, t) /\ ~Put2(p, t)
    BY ReadyFacts
  <1>2. Typed /\ Placed(p)
    BY DEF CacheInv
  <1>3. /\ UNCHANGED << dir, lost, panic, cwd, fd >> /\ puts'[p] = << s >>
        /\ pc'[p] = "user" /\ ip'[p] = NoSlot /\ dp'[p] = NoSlot /\ held'[p] = NoSlot
        /\ rest'[p] = << >>
    BY <1>2 DEF Typed, files, ghosts, Put, Return, Goto, Forget
  <1>4. -1 \in Int
    OBVIOUS
  <1>5. Ordinary(p)
    BY <1>4, UnlinkDoneOrdinary
  <1>6. held[p] = NoSlot /\ dp[p] = NoSlot
    BY <1>1, <1>2 DEF Placed, InPlace, HasDp, DpLocked
  <1>7. Has(p, s) /\ Holds(p, s) /\ icache[s].valid
    BY <1>1, ValidBefore DEF Has, Holds, IpLocked
  <1>8. /\ icache[s].inum \in Inum /\ dinode[icache[s].inum].type = icache[s].type
        /\ dinode[icache[s].inum].nlink = icache[s].nlink /\ icache[s].type # "none"
    BY <1>1, <1>7, LockedMatches
  <1>9. PICK b : b = Unlock(s)
    OBVIOUS
  <1>10. /\ b \in Caches /\ b[s].inum = icache[s].inum /\ b[s].valid = icache[s].valid
         /\ b[s].type = icache[s].type /\ b[s].nlink = icache[s].nlink
    BY <1>9, UnlockTo
  <1>11. c \in Caches /\ c[s].inum = icache[s].inum /\ c[s].valid
         /\ c[s].type = dinode[icache[s].inum].type
         /\ c[s].nlink = dinode[icache[s].inum].nlink + (-1)
    <2>1. PICK n \in Int : n = -1
      BY <1>4
    <2>2. c = AddLink(b, s, n)
      BY <1>9, <2>1
    <2>3. /\ c \in Caches /\ c[s].inum = b[s].inum /\ c[s].valid = b[s].valid
          /\ c[s].type = b[s].type /\ c[s].nlink = b[s].nlink + n
      BY <1>10, <2>2, AddLinkFacts
    <2> QED BY <1>7, <1>8, <1>10, <2>1, <2>3
  <1>12. /\ InumOf(s) \in Inum
         /\ \A i \in Inum : dinode'[i].type = dinode[i].type
         /\ \A i \in Inum : i # InumOf(s) => dinode'[i] = dinode[i]
         /\ dinode'[InumOf(s)].nlink = dinode[InumOf(s)].nlink + (-1)
    BY <1>4, <1>8, <1>11, UpdateWrites
  <1>13. ASSUME NEW t \in Slot PROVE (Put1(p, t)' <=> t = s) /\ ~Put2(p, t)'
    BY <1>3, PutsFactsThen
  <1>14. ASSUME NEW t \in Slot PROVE Has(p, t)' <=> Has(p, t)
    BY <1>1, <1>3, <1>6, <1>13, SlotFacts DEF Has
  <1>15. << >> \in Seq(Name)
    OBVIOUS
  <1>16. Writes(p, s) /\ Makes(p)
    BY <1>1, <1>3, <1>7, <1>11, <1>12, <1>14, <1>15 DEF Writes, Makes, Making
  <1>17. ASSUME NEW i \in Inum
         PROVE  PendOf(p, i)' = PendOf(p, i) + (IF i = InumOf(s) THEN -1 ELSE 0)
    <2>1. /\ ~InHeld(p, i) /\ ~InHeld(p, i)' /\ ~InDp(p, i) /\ ~InDp(p, i)' /\ ~InIp(p, i)'
          /\ InIp(p, i) <=> i = InumOf(s)
      BY <1>1, <1>3, <1>6 DEF InHeld, InIp, InDp
    <2> QED BY <2>1 DEF PendOf, Is
  <1>18. dinode[InumOf(s)].type # "none"
    BY <1>8 DEF InumOf
  <1> QED BY <1>3, <1>4, <1>5, <1>12, <1>16, <1>17, <1>18, CountKeeps

(***************************************************************************)
(* Steps that enter a name, or erase one.                                  *)
(***************************************************************************)
LEMMA EnterFacts ==
  ASSUME CacheInv, NEW d \in Inum, NEW n \in Names, NEW x, EnterName(d, n, x)
  PROVE  /\ dir'[d][n] = x
         /\ \A m \in Names : m # n => dir'[d][m] = dir[d][m]
         /\ \A e \in Inum : e # d => dir'[e] = dir[e]
         /\ \A e \in Inum, m \in Name : e # d \/ m # n => dir'[e][m] = dir[e][m]
         /\ n # ".." => \A e \in Inum : dir'[e][".."] = dir[e][".."]
  <1>1. dir' = [dir EXCEPT ![d] = [dir[d] EXCEPT ![n] = x]]
    BY DEF EnterName
  <1>2. dir \in [Inum -> [Names -> Inum \cup {None}]] /\ dir[d] \in [Names -> Inum \cup {None}]
    BY DEF CacheInv, Typed
  <1>3. dir'[d] = [dir[d] EXCEPT ![n] = x] /\ \A e \in Inum : e # d => dir'[e] = dir[e]
    BY <1>1, <1>2
  <1>4. dir'[d][n] = x /\ \A m \in Names : m # n => dir'[d][m] = dir[d][m]
    BY <1>2, <1>3
  <1>5. \A e \in Inum, m \in Name : e # d \/ m # n => dir'[e][m] = dir[e][m]
    BY <1>3, <1>4 DEF Names
  <1>6. n # ".." => \A e \in Inum : dir'[e][".."] = dir[e][".."]
    BY <1>3, <1>4 DEF Names
  <1> QED BY <1>3, <1>4, <1>5, <1>6

LEMMA EntersCount ==
  ASSUME CacheInv, NEW d \in Inum, NEW n \in Name, NEW j \in Inum, EnterName(d, n, j),
         dir[d][n] = None, NEW i \in Inum
  PROVE  /\ Entries(i) \in Nat
         /\ Entries(i)' = Entries(i) + Is(j = i) + Is(~Named(j) /\ dir[j][".."] = i)
  <1>1. n \in Names /\ n # ".."
    BY InodesAssumption DEF Names
  <1>2. /\ dir'[d][n] = j
        /\ \A e \in Inum, m \in Name : e # d \/ m # n => dir'[e][m] = dir[e][m]
        /\ \A e \in Inum : dir'[e][".."] = dir[e][".."]
    BY <1>1, EnterFacts
  <1>3. Named(j)'
    BY <1>2 DEF Named
  <1>4. ASSUME NEW y \in Inum, y # j PROVE Named(y)' <=> Named(y)
    <2>1. \A e \in Inum, m \in Name : dir'[e][m] = y <=> dir[e][m] = y
      BY <1>2, <1>4, SlotFacts
    <2> QED BY <2>1 DEF Named
  <1>5. \A y \in Inum : y # j => (Named(y) /\ dir[y][".."] = i <=> (Named(y) /\ dir[y][".."] = i)')
    BY <1>2, <1>4
  <1>6. /\ Entries(i) \in Nat /\ Entries(i)' \in Nat
        /\ Entries(i)' = (Entries(i) - Is(dir[d][n] = i) + Is(dir'[d][n] = i))
                            - Is(Named(j) /\ dir[j][".."] = i)
                            + Is((Named(j) /\ dir[j][".."] = i)')
    BY <1>2, <1>5, EntriesMove
  <1>7. Is(dir[d][n] = i) = 0 /\ Is(dir'[d][n] = i) = Is(j = i)
    BY <1>2, SlotFacts DEF Is
  <1>8. Is((Named(j) /\ dir[j][".."] = i)') - Is(Named(j) /\ dir[j][".."] = i)
          = Is(~Named(j) /\ dir[j][".."] = i)
    BY <1>2, <1>3 DEF Is
  <1>9. /\ Is(j = i) \in Nat /\ Is(Named(j) /\ dir[j][".."] = i) \in Nat
        /\ Is((Named(j) /\ dir[j][".."] = i)') \in Nat
        /\ Is(~Named(j) /\ dir[j][".."] = i) \in Nat
    BY DEF Is
  <1> QED BY <1>6, <1>7, <1>8, <1>9

LEMMA ErasesCount ==
  ASSUME CacheInv, NEW d \in Inum, NEW n \in Name, EnterName(d, n, None),
         NEW v \in Inum, dir[d][n] = v, NEW i \in Inum
  PROVE  /\ Entries(i) \in Nat /\ Entries(i)' \in Nat
         /\ Entries(i)' = (Entries(i) - Is(v = i)) - Is(~Named(v)' /\ dir[v][".."] = i)
  <1>1. n \in Names /\ n # ".."
    BY InodesAssumption DEF Names
  <1>2. /\ dir'[d][n] = None
        /\ \A e \in Inum, m \in Name : e # d \/ m # n => dir'[e][m] = dir[e][m]
        /\ \A e \in Inum : dir'[e][".."] = dir[e][".."]
    BY <1>1, EnterFacts
  <1>3. Named(v)
    BY DEF Named
  <1>4. ASSUME NEW y \in Inum, y # v PROVE Named(y)' <=> Named(y)
    <2>1. \A e \in Inum, m \in Name : dir'[e][m] = y <=> dir[e][m] = y
      BY <1>2, <1>4, SlotFacts
    <2> QED BY <2>1 DEF Named
  <1>5. \A y \in Inum : y # v => (Named(y) /\ dir[y][".."] = i <=> (Named(y) /\ dir[y][".."] = i)')
    BY <1>2, <1>4
  <1>6. /\ Entries(i) \in Nat /\ Entries(i)' \in Nat
        /\ Entries(i)' = (Entries(i) - Is(dir[d][n] = i) + Is(dir'[d][n] = i))
                            - Is(Named(v) /\ dir[v][".."] = i)
                            + Is((Named(v) /\ dir[v][".."] = i)')
    BY <1>2, <1>5, EntriesMove
  <1>7. Is(dir[d][n] = i) = Is(v = i) /\ Is(dir'[d][n] = i) = 0
    BY <1>2, SlotFacts DEF Is
  <1>8. Is(Named(v) /\ dir[v][".."] = i) - Is((Named(v) /\ dir[v][".."] = i)')
          = Is(~Named(v)' /\ dir[v][".."] = i)
    BY <1>2, <1>3 DEF Is
  <1>9. /\ Is(v = i) \in Nat /\ Is(Named(v) /\ dir[v][".."] = i) \in Nat
        /\ Is((Named(v) /\ dir[v][".."] = i)') \in Nat
        /\ Is(~Named(v)' /\ dir[v][".."] = i) \in Nat
    BY DEF Is
  <1> QED BY <1>6, <1>7, <1>8, <1>9

\* Directories stay a tree when a file gets a name, a new directory its first, or any loses one.
LEMMA DirsEnter ==
  ASSUME CacheInv, TreeInv, UNCHANGED dinode, NEW d \in Inum, dinode[d].type = "T_DIR",
         NEW n \in Name, NEW x \in Inum \cup {None}, EnterName(d, n, x),
         x # None /\ dinode[x].type = "T_DIR" =>
           x # ROOTINO /\ dir[x][".."] = d /\ ~Pointed(x)
  PROVE  DirsRight'
  <1>1. n \in Names /\ n # ".."
    BY InodesAssumption DEF Names
  <1>2. /\ dir'[d][n] = x
        /\ \A e \in Inum : e # d => dir'[e] = dir[e]
        /\ \A e \in Inum, m \in Name : e # d \/ m # n => dir'[e][m] = dir[e][m]
        /\ \A e \in Inum : dir'[e][".."] = dir[e][".."]
    BY <1>1, EnterFacts
  <1>3. DirsRight
    BY DEF TreeInv
  <1>4. \A i \in Inum : dinode[i].type # "T_DIR" => dir'[i] = Empty
    BY <1>2, <1>3 DEF DirsRight
  <1>5. dir'[ROOTINO][".."] = ROOTINO
    BY <1>2, <1>3, SlotFacts DEF DirsRight
  <1>6. ASSUME NEW e \in Inum, NEW m \in Name, dir'[e][m] # None,
               dinode[dir'[e][m]].type = "T_DIR"
        PROVE  /\ dir'[e][m] # ROOTINO /\ dir'[dir'[e][m]][".."] = e
               /\ \A o \in Name : dir'[e][o] = dir'[e][m] => o = m
    <2>1. CASE << e, m >> = << d, n >>
      <3>1. e = d /\ m = n /\ dir'[e][m] = x /\ x \in Inum
        BY <1>2, <1>6, <2>1
      <3>2. x # ROOTINO /\ dir[x][".."] = d /\ ~Pointed(x)
        BY <1>6, <3>1
      <3>3. ASSUME NEW o \in Name, dir'[d][o] = x, o # n PROVE FALSE
        <4>1. dir[d][o] = x
          BY <1>2, <3>3
        <4> QED BY <3>2, <4>1 DEF Pointed
      <3> QED BY <1>2, <3>1, <3>2, <3>3
    <2>2. CASE << e, m >> # << d, n >>
      <3>1. dir'[e][m] = dir[e][m] /\ dir[e][m] \in Inum
        <4>1. dir[e] \in [Names -> Inum \cup {None}] /\ m \in Names
          BY DEF CacheInv, Typed, Names
        <4> QED BY <1>2, <1>6, <2>2, <4>1
      <3>2. /\ dir[e][m] # ROOTINO /\ dir[dir[e][m]][".."] = e
            /\ \A o \in Name : dir[e][o] = dir[e][m] => o = m
        BY <1>3, <1>6, <3>1 DEF DirsRight
      <3>3. ASSUME NEW o \in Name, dir'[e][o] = dir[e][m] PROVE o = m
        <4>1. CASE << e, o >> = << d, n >>
          <5>1. x = dir[e][m]
            BY <1>2, <3>3, <4>1
          <5>2. Pointed(x)
            BY <5>1 DEF Pointed
          <5> QED BY <1>6, <3>1, <5>1, <5>2, SlotFacts
        <4>2. CASE << e, o >> # << d, n >>
          BY <1>2, <3>2, <3>3, <4>2
        <4> QED BY <4>1, <4>2
      <3> QED BY <1>2, <3>1, <3>2, <3>3
    <2> QED BY <2>1, <2>2
  <1> QED BY <1>3, <1>4, <1>5, <1>6 DEF DirsRight

\* A name comes, or goes, for a link that is counted.
LEMMA NameKeeps ==
  ASSUME CacheInv, TreeInv, NEW p \in Proc, Ordinary(p), NEW s \in Slot, Writes(p, s), Makes(p),
         UNCHANGED dinode, DirsRight',
         \A i \in Inum : Entries(i)' + PendOf(p, i)' = Entries(i) + PendOf(p, i),
         \A i \in Inum : Entries(i)' \in Nat
  PROVE  TreeInv'
  <1>1. Others(p) /\ SlotsStay /\ lost' = lost
    BY DEF Ordinary, Writes
  <1>2. LinksRight'
    <2>1. ASSUME NEW i \in Inum
          PROVE  /\ dinode'[i].nlink >= Entries(i)' + Pending(i)'
                 /\ i \notin lost' => dinode'[i].nlink = Entries(i)' + Pending(i)'
      <3>1. /\ Pending(i) \in Nat /\ PendOf(p, i) \in Nat /\ PendOf(p, i)' \in Nat
            /\ Pending(i)' = Pending(i) - PendOf(p, i) + PendOf(p, i)'
        BY <1>1, PendingMove
      <3>2. /\ dinode[i].nlink \in Int /\ Entries(i) \in Nat
            /\ dinode[i].nlink >= Entries(i) + Pending(i)
            /\ i \notin lost => dinode[i].nlink = Entries(i) + Pending(i)
        BY LinkFacts
      <3>3. Entries(i)' + PendOf(p, i)' = Entries(i) + PendOf(p, i) /\ Entries(i)' \in Nat
        OBVIOUS
      <3> QED BY <1>1, <3>1, <3>2, <3>3
    <2> QED BY <2>1 DEF LinksRight
  <1> QED BY <1>2, WriteKeeps

\* What p finds in the parent, and where.
LEMMA ParentFacts ==
  ASSUME CacheInv, TreeInv, NEW p \in Proc,
         pc[p] \in {"parent", "ialloc", "dots", "dotdot", "enter", "victim"}
  PROVE  /\ dp[p] \in Slot /\ Has(p, dp[p]) /\ InumOf(dp[p]) \in Inum
         /\ dinode[InumOf(dp[p])].type = "T_DIR" /\ icache[dp[p]].valid
         /\ LastName(p) \in Name /\ rest[p] \in Seq(Name)
  <1>1. dp[p] \in Slot /\ Has(p, dp[p]) /\ InumOf(dp[p]) \in Inum
    BY EntryIs DEF InumOf
  <1>2. rest[p] \in Seq(Name) /\ rest[p] # << >>
    BY DEF TreeInv, Steps, CacheInv, Placed, InPlace, HasDp, DpLocked
  <1>3. LastName(p) \in Name
    BY <1>2, LastFacts DEF LastName
  <1>4. dp[p] # NoSlot
    BY <1>1, SlotFacts
  <1> QED BY <1>1, <1>2, <1>3, <1>4, ValidBefore DEF TreeInv, TypesRight

LEMMA TreeLinkEnters ==
  ASSUME CacheInv, TreeInv, NEW p \in Proc, NEW s \in Slot, s = dp[p], Ready(p, "parent"),
         Lockable(s), call[p].op = "link", icache' = Use(s),
         NEW d \in Inum, NEW j \in Inum, EnterName(d, LastName(p), j),
         Put(p, << s, held[p] >>), Return(p), UNCHANGED << dinode, files, freeing, ghosts >>,
         d = InumOf(s), j = InumOf(held[p]), dir[d][LastName(p)] = None
  PROVE  TreeInv'
  <1>1. /\ puts[p] = << >> /\ pc[p] = "parent" /\ freeing[p] = "no"
        /\ \A t : ~Put1(p, t) /\ ~Put2(p, t)
    BY ReadyFacts
  <1>2. Typed /\ Placed(p)
    BY DEF CacheInv
  <1>3. PICK h, n : h = held[p] /\ n = LastName(p)
    OBVIOUS
  <1>4. /\ UNCHANGED << dinode, lost, panic, cwd, fd >> /\ puts'[p] = << s, h >>
        /\ pc'[p] = "user" /\ ip'[p] = NoSlot /\ dp'[p] = NoSlot /\ held'[p] = NoSlot
        /\ rest'[p] = << >>
    BY <1>2, <1>3 DEF Typed, files, ghosts, Put, Return, Goto, Forget
  <1>5. Ordinary(p)
    BY LinkEnters
  <1>6. /\ Has(p, s) /\ ~icache[s].busy /\ icache[s].valid /\ dinode[d].type = "T_DIR"
        /\ n \in Name /\ h \in Slot /\ h # NoSlot /\ icache[s].ref > 0
    BY <1>1, <1>3, ParentFacts, AtSlots, SlotFacts, ValidBefore DEF Lockable
  <1>7. icache'[s].valid
    BY <1>5, <1>6 DEF Ordinary, SlotsStay
  <1>8. dinode[j].type = "T_FILE" /\ dir[j] = Empty
    <2>1. dinode[j].type = "T_FILE"
      BY <1>3, <1>6 DEF TreeInv, TypesRight
    <2> QED BY <2>1 DEF TreeInv, DirsRight
  <1>9. n \in Names /\ n # ".."
    BY <1>6, InodesAssumption DEF Names
  <1>10. /\ EnterName(d, n, j) /\ dir[d][n] = None
         /\ \A e \in Inum : e # d => dir'[e] = dir[e]
    <2>1. EnterName(d, n, j) /\ dir[d][n] = None
      BY <1>3
    <2> QED BY <1>9, <2>1, EnterFacts
  <1>11. ASSUME NEW t \in Slot PROVE (Put1(p, t)' <=> t = s) /\ (Put2(p, t)' <=> t = h)
    BY <1>4, PutsFactsThen
  <1>12. ip[p] = NoSlot
    BY <1>1, <1>2 DEF Placed, InPlace, HasIp, Waiting, IpLocked
  <1>13. ASSUME NEW t \in Slot PROVE Has(p, t)' <=> Has(p, t)
    BY <1>1, <1>3, <1>4, <1>11, <1>12, SlotFacts DEF Has
  <1>14. << >> \in Seq(Name)
    OBVIOUS
  <1>15. Writes(p, s) /\ Makes(p)
    BY <1>1, <1>4, <1>6, <1>7, <1>10, <1>13, <1>14 DEF Writes, Makes, Making
  <1>16. DirsRight'
    BY <1>4, <1>6, <1>8, <1>10, DirsEnter
  <1>17. ASSUME NEW i \in Inum
         PROVE  Entries(i)' + PendOf(p, i)' = Entries(i) + PendOf(p, i) /\ Entries(i)' \in Nat
    <2>1. Entries(i) \in Nat
          /\ Entries(i)' = Entries(i) + Is(j = i) + Is(~Named(j) /\ dir[j][".."] = i)
      BY <1>6, <1>10, EntersCount
    <2>2. dir[j][".."] # i
      BY <1>8, SlotFacts DEF Empty
    <2>3. PendOf(p, i)' = 0
      <3>1. ~InHeld(p, i)' /\ ~InIp(p, i)' /\ ~InDp(p, i)'
        BY <1>4 DEF InHeld, InIp, InDp
      <3> QED BY <3>1 DEF PendOf, Is
    <2>4. PendOf(p, i) = Is(j = i)
      <3>1. /\ ~InIp(p, i) /\ ~InDp(p, i)
            /\ InHeld(p, i) <=> j = i
        BY <1>1, <1>3, <1>6 DEF InHeld, InIp, InDp
      <3> QED BY <3>1 DEF PendOf, Is
    <2>5. Is(j = i) \in Nat /\ Is(~Named(j) /\ dir[j][".."] = i) = 0
      BY <2>2 DEF Is
    <2> QED BY <2>1, <2>3, <2>4, <2>5
  <1> QED BY <1>4, <1>5, <1>15, <1>16, <1>17, NameKeeps

LEMMA TreeDotdot ==
  ASSUME CacheInv, TreeInv, NEW p \in Proc, Ready(p, "dotdot"), NEW k \in Inum, NEW d \in Inum,
         EnterName(k, "..", d), Goto(p, "enter"),
         UNCHANGED << dinode, icache, files, locals, puts, freeing, ghosts >>,
         k = InumOf(ip[p]), d = InumOf(dp[p])
  PROVE  TreeInv'
  <1>1. /\ puts[p] = << >> /\ pc[p] = "dotdot" /\ freeing[p] = "no"
        /\ \A t : ~Put1(p, t) /\ ~Put2(p, t)
    BY ReadyFacts
  <1>2. Typed
    BY DEF CacheInv
  <1>3. /\ UNCHANGED << dinode, icache, lost, panic, cwd, fd, call, rest, ip, dp, held, puts >>
        /\ pc'[p] = "enter"
    BY <1>2 DEF Typed, files, locals, ghosts, Goto
  <1>4. Ordinary(p)
    BY DotdotOrdinary
  <1>5. PICK s : s = ip[p]
    OBVIOUS
  <1>6. /\ s \in Slot /\ Has(p, s) /\ Holds(p, s) /\ icache[s].valid /\ held[p] = NoSlot
        /\ InumOf(s) = k /\ k # d
    BY <1>1, <1>5, TwoInodes DEF IpLocked, DpLocked
  <1>7. /\ ~Pointed(k) /\ ~Named(k) /\ k # ROOTINO
        /\ dinode[k].nlink = 1 /\ dir[k] = Empty /\ call[p].op = "mkdir"
        /\ dinode[k].type = "T_DIR" /\ rest[p] \in Seq(Name)
    <2>1. pc[p] \in Making
      BY <1>1 DEF Making
    <2>2. ~Pointed(k) /\ ~Named(k) /\ k # ROOTINO
      BY <2>1, MakingFacts
    <2>3. call[p].op = "mkdir" /\ rest[p] \in Seq(Name)
      BY <1>1 DEF TreeInv, Steps
    <2> QED BY <1>1, <2>1, <2>2, <2>3 DEF TreeInv, NewRight, TypesRight
  <1>8. ".." \in Names
    BY DEF Names
  <1>9. /\ \A e \in Inum : e # k => dir'[e] = dir[e]
        /\ \A m \in Name : dir'[k][m] = dir[k][m]
        /\ dir'[k] = [dir[k] EXCEPT ![".."] = d]
    <2>1. \A e \in Inum : e # k => dir'[e] = dir[e]
      BY <1>8, EnterFacts
    <2>2. \A m \in Names : m # ".." => dir'[k][m] = dir[k][m]
      BY <1>8, EnterFacts
    <2>3. dir'[k] = [dir[k] EXCEPT ![".."] = d]
      BY <1>2 DEF EnterName, Typed
    <2> QED BY <2>1, <2>2, <2>3, InodesAssumption DEF Names
  <1>10. \A e \in Inum, m \in Name : dir'[e][m] = dir[e][m]
    BY <1>9
  <1>11. ASSUME NEW t \in Slot PROVE ~Put1(p, t)' /\ ~Put2(p, t)'
    BY <1>1, <1>3, PutsFactsThen
  <1>12. ASSUME NEW t \in Slot PROVE Has(p, t)' <=> Has(p, t)
    BY <1>1, <1>3, <1>11 DEF Has
  <1>13. Writes(p, s)
    BY <1>1, <1>3, <1>6, <1>7, <1>9, <1>12 DEF Writes
  <1>14. Makes(p)
    <2>1. dir'[k] = [Empty EXCEPT ![".."] = InumOf(dp[p])]
      BY <1>7, <1>9
    <2>2. dir'[InumOf(dp[p])][LastName(p)] = dir[InumOf(dp[p])][LastName(p)]
      BY <1>6, <1>9
    <2> QED BY <1>1, <1>3, <1>7, <2>1, <2>2 DEF Makes, Making
  <1>15. DirsRight'
    <2>1. DirsRight
      BY DEF TreeInv
    <2>2. \A i \in Inum : dinode[i].type # "T_DIR" => dir'[i] = Empty
      BY <1>7, <1>9, <2>1 DEF DirsRight
    <2>3. dir'[ROOTINO][".."] = ROOTINO
      BY <1>7, <1>9, <2>1, SlotFacts DEF DirsRight
    <2>4. ASSUME NEW e \in Inum, NEW m \in Name, dir'[e][m] # None,
                 dinode[dir'[e][m]].type = "T_DIR"
          PROVE  /\ dir'[e][m] # ROOTINO /\ dir'[dir'[e][m]][".."] = e
                 /\ \A o \in Name : dir'[e][o] = dir'[e][m] => o = m
      <3>1. dir'[e][m] = dir[e][m] /\ dir[e][m] \in Inum
        <4>1. dir[e] \in [Names -> Inum \cup {None}] /\ m \in Names
          BY <1>2 DEF Typed, Names
        <4> QED BY <1>10, <2>4, <4>1
      <3>2. /\ dir[e][m] # ROOTINO /\ dir[dir[e][m]][".."] = e
            /\ \A o \in Name : dir[e][o] = dir[e][m] => o = m
        BY <2>1, <2>4, <3>1 DEF DirsRight
      <3>3. dir[e][m] # k
        BY <1>7 DEF Pointed
      <3> QED BY <1>9, <1>10, <3>1, <3>2, <3>3
    <2> QED BY <1>3, <2>1, <2>2, <2>3, <2>4 DEF DirsRight
  <1>16. ASSUME NEW i \in Inum
         PROVE  Entries(i)' + PendOf(p, i)' = Entries(i) + PendOf(p, i) /\ Entries(i)' \in Nat
    <2>1. ASSUME NEW y \in Inum PROVE Named(y)' <=> Named(y)
      BY <1>10 DEF Named
    <2>2. Entries(i)' = Entries(i) /\ Entries(i) \in Nat
      <3>1. \A y \in Inum : Named(y) /\ dir[y][".."] = i <=> (Named(y) /\ dir[y][".."] = i)'
        BY <1>7, <1>9, <2>1
      <3> QED BY <1>10, <3>1, EntriesSame, EntriesFacts
    <2>3. /\ InHeld(p, i)' <=> InHeld(p, i)
          /\ InIp(p, i)' <=> InIp(p, i)
          /\ InDp(p, i)' <=> InDp(p, i)
      BY <1>1, <1>3, <1>7 DEF InHeld, InIp, InDp, InumOf
    <2>4. PendOf(p, i)' = PendOf(p, i)
      BY <2>3 DEF PendOf, Is
    <2> QED BY <2>2, <2>4
  <1> QED BY <1>3, <1>4, <1>6, <1>13, <1>14, <1>15, <1>16, NameKeeps

LEMMA TreeEnter ==
  ASSUME CacheInv, TreeInv, NEW p \in Proc, NEW s \in Slot, s = dp[p], Ready(p, "enter"),
         NEW d \in Inum, NEW k \in Inum, EnterName(d, LastName(p), k), icache' = Unlock(s),
         PutDp(p), Goto(p, "made"),
         UNCHANGED << dinode, files, call, rest, ip, held, freeing, ghosts >>,
         d = InumOf(s), k = InumOf(ip[p])
  PROVE  TreeInv'
  <1>1. /\ puts[p] = << >> /\ pc[p] = "enter" /\ freeing[p] = "no"
        /\ \A t : ~Put1(p, t) /\ ~Put2(p, t)
    BY ReadyFacts
  <1>2. Typed
    BY DEF CacheInv
  <1>3. PICK n : n = LastName(p)
    OBVIOUS
  <1>4. /\ UNCHANGED << dinode, lost, panic, cwd, fd, call, rest, ip, held >>
        /\ pc'[p] = "made" /\ dp'[p] = NoSlot /\ puts'[p] = << s >>
    BY <1>2 DEF Typed, files, ghosts, Goto, PutDp, Put
  <1>5. Ordinary(p)
    BY EnterOrdinary
  <1>6. /\ Has(p, s) /\ Holds(p, s) /\ icache[s].valid /\ held[p] = NoSlot /\ icache[s].ref > 0
        /\ k # d
    BY <1>1, TwoInodes, ValidBefore DEF IpLocked, DpLocked
  <1>7. /\ ~Pointed(k) /\ ~Named(k) /\ k # ROOTINO /\ dir[d][n] = None
        /\ dir[k] = IF call[p].op = "mkdir" THEN [Empty EXCEPT ![".."] = d] ELSE Empty
        /\ dinode[k].type = "T_DIR" => call[p].op = "mkdir"
    <2>1. pc[p] \in Making
      BY <1>1 DEF Making
    <2>2. ~Pointed(k) /\ ~Named(k) /\ k # ROOTINO
      BY <2>1, MakingFacts
    <2>3. dir[d][n] = None
      BY <1>3, <2>1 DEF TreeInv, EntryRight
    <2> QED BY <1>1, <2>1, <2>2, <2>3 DEF TreeInv, NewRight, TypesRight
  <1>8. n \in Name /\ dinode[d].type = "T_DIR" /\ rest[p] \in Seq(Name)
    BY <1>1, <1>3, ParentFacts
  <1>9. n \in Names /\ n # ".."
    BY <1>8, InodesAssumption DEF Names
  <1>10. EnterName(d, n, k) /\ \A e \in Inum : e # d => dir'[e] = dir[e]
    <2>1. EnterName(d, n, k)
      BY <1>3
    <2> QED BY <1>9, <2>1, EnterFacts
  <1>11. ASSUME NEW t \in Slot PROVE (Put1(p, t)' <=> t = s) /\ ~Put2(p, t)'
    BY <1>4, PutsFactsThen
  <1>12. ASSUME NEW t \in Slot PROVE Has(p, t)' <=> Has(p, t)
    BY <1>1, <1>4, <1>11, SlotFacts DEF Has
  <1>13. icache'[s].valid
    BY <1>5, <1>6 DEF Ordinary, SlotsStay
  <1>14. Writes(p, s) /\ Makes(p)
    BY <1>1, <1>4, <1>6, <1>8, <1>10, <1>12, <1>13 DEF Writes, Makes, Making
  <1>15. dir[k][".."] = IF call[p].op = "mkdir" THEN d ELSE None
    BY <1>7 DEF Empty
  <1>16. DirsRight'
    <2>1. dinode[k].type = "T_DIR" => k # ROOTINO /\ dir[k][".."] = d /\ ~Pointed(k)
      BY <1>7, <1>15
    <2> QED BY <1>4, <1>8, <1>10, <2>1, DirsEnter
  <1>17. ASSUME NEW i \in Inum
         PROVE  Entries(i)' + PendOf(p, i)' = Entries(i) + PendOf(p, i) /\ Entries(i)' \in Nat
    <2>1. Entries(i) \in Nat
          /\ Entries(i)' = Entries(i) + Is(k = i) + Is(~Named(k) /\ dir[k][".."] = i)
      <3>1. n \in Name /\ dir[d][n] = None /\ EnterName(d, n, k)
        BY <1>7, <1>8, <1>10
      <3> QED BY <3>1, EntersCount
    <2>2. ~Named(k) /\ dir[k][".."] = i <=> call[p].op = "mkdir" /\ d = i
      BY <1>7, <1>15, SlotFacts
    <2>3. PendOf(p, i)' = 0
      <3>1. ~InHeld(p, i)' /\ ~InIp(p, i)' /\ ~InDp(p, i)'
        BY <1>4, <1>6 DEF InHeld, InIp, InDp
      <3> QED BY <3>1 DEF PendOf, Is
    <2>4. PendOf(p, i) = Is(k = i) + Is(call[p].op = "mkdir" /\ d = i)
      <3>1. /\ ~InHeld(p, i)
            /\ InIp(p, i) <=> k = i
            /\ InDp(p, i) <=> call[p].op = "mkdir" /\ d = i
        BY <1>1, <1>6 DEF InHeld, InIp, InDp
      <3> QED BY <3>1 DEF PendOf, Is
    <2>5. /\ Is(k = i) \in Nat /\ Is(call[p].op = "mkdir" /\ d = i) \in Nat
          /\ Is(~Named(k) /\ dir[k][".."] = i) = Is(call[p].op = "mkdir" /\ d = i)
      BY <2>2 DEF Is
    <2> QED BY <2>1, <2>3, <2>4, <2>5
  <1> QED BY <1>4, <1>5, <1>14, <1>16, <1>17, NameKeeps

\* What unlink has found, and locks next.
LEMMA VictimFacts ==
  ASSUME CacheInv, TreeInv, NEW p \in Proc, pc[p] = "victim", NEW d, d = InumOf(dp[p]),
         NEW v, v = InumOf(ip[p]), NEW n, n = LastName(p)
  PROVE  /\ ip[p] \in Slot /\ Has(p, ip[p]) /\ dp[p] \in Slot /\ Has(p, dp[p])
         /\ Holds(p, dp[p]) /\ icache[dp[p]].valid /\ icache[dp[p]].ref > 0
         /\ d \in Inum /\ v \in Inum /\ n \in Name /\ rest[p] \in Seq(Name)
         /\ dinode[d].type = "T_DIR" /\ dir[d][n] = v /\ Pointed(v) /\ held[p] = NoSlot
  <1>1. /\ dp[p] \in Slot /\ Has(p, dp[p]) /\ d \in Inum /\ dinode[d].type = "T_DIR"
        /\ icache[dp[p]].valid /\ n \in Name /\ rest[p] \in Seq(Name)
    BY ParentFacts
  <1>2. ip[p] \in Slot /\ Has(p, ip[p])
    BY AtSlots DEF HasIp, Waiting, Has
  <1>3. v \in Inum /\ icache[dp[p]].ref > 0
    BY <1>1, <1>2, Known, Taken DEF InumOf, CacheInv
  <1>4. dir[d][n] = v
    BY DEF TreeInv, EntryRight
  <1>5. Pointed(v)
    BY <1>1, <1>4 DEF Pointed
  <1>6. held[p] = NoSlot /\ Holds(p, dp[p])
    BY DEF CacheInv, Placed, InPlace, Holds, DpLocked
  <1> QED BY <1>1, <1>2, <1>3, <1>4, <1>5, <1>6

LEMMA TreeUnlinkUndots ==
  ASSUME CacheInv, TreeInv, NEW p \in Proc, NEW s \in Slot, s = ip[p], Ready(p, "victim"),
         Lockable(s), Lock(s)[s].type = "T_DIR", NEW d \in Inum,
         EnterName(d, LastName(p), None), icache' = Lock(s), Goto(p, "undot"),
         UNCHANGED << dinode, files, call, rest, ip, dp, held, puts, freeing, ghosts >>,
         d = InumOf(dp[p])
  PROVE  TreeInv'
  <1>1. /\ puts[p] = << >> /\ pc[p] = "victim" /\ freeing[p] = "no"
        /\ \A t : ~Put1(p, t) /\ ~Put2(p, t)
    BY ReadyFacts
  <1>2. PICK n, v, u : n = LastName(p) /\ v = InumOf(s) /\ u = dp[p]
    OBVIOUS
  <1>3. /\ Has(p, s) /\ u \in Slot /\ Has(p, u) /\ Holds(p, u) /\ icache[u].valid
        /\ icache[u].ref > 0 /\ v \in Inum /\ n \in Name /\ rest[p] \in Seq(Name)
        /\ dinode[d].type = "T_DIR" /\ dir[d][n] = v /\ Pointed(v) /\ held[p] = NoSlot
    BY <1>1, <1>2, VictimFacts
  <1>4. /\ UNCHANGED << dinode, lost, panic, cwd, fd, call, rest, ip, dp, held, puts >>
        /\ pc'[p] = "undot" /\ EnterName(d, n, None)
    BY <1>2 DEF CacheInv, Typed, files, ghosts, Goto
  <1>5. Ordinary(p)
    <2>1. Lock(s)[s].type # "none"
      OBVIOUS
    <2> QED BY <2>1, UnlinkUndots
  <1>6. icache'[u].valid
    BY <1>3, <1>5 DEF Ordinary, SlotsStay
  <1>7. n \in Names /\ n # ".."
    BY <1>3, InodesAssumption DEF Names
  <1>8. /\ \A e \in Inum : e # d => dir'[e] = dir[e]
        /\ dir'[d][n] = None
        /\ \A e \in Inum, m \in Name : e # d \/ m # n => dir'[e][m] = dir[e][m]
    BY <1>4, <1>7, EnterFacts
  <1>9. ASSUME NEW t \in Slot PROVE Has(p, t)' <=> Has(p, t)
    <2>1. Put1(p, t)' <=> Put1(p, t)
      BY <1>4 DEF Put1
    <2>2. Put2(p, t)' <=> Put2(p, t)
      BY <1>4 DEF Put2
    <2> QED BY <1>4, <2>1, <2>2 DEF Has
  <1>10. Writes(p, u) /\ Makes(p)
    <2>1. InumOf(u) = d
      BY <1>2
    <2> QED BY <1>1, <1>2, <1>3, <1>4, <1>6, <1>8, <1>9, <2>1 DEF Writes, Makes, Making
  <1>11. DirsRight'
    BY <1>3, <1>4, DirsEnter
  <1>12. dinode[v].type = "T_DIR"
    BY <1>1, <1>2, <1>3, LockTo DEF Lockable, InumOf
  <1>13. /\ v # ROOTINO /\ dir[v][".."] = d
         /\ \A m \in Name : dir[d][m] = v => m = n
    <2>1. v # None
      BY <1>3, SlotFacts
    <2> QED BY <1>3, <1>12, <2>1 DEF TreeInv, DirsRight
  <1>14. ~Named(v)'
    <2>1. ASSUME NEW e \in Inum, NEW m \in Name, dir'[e][m] = v PROVE FALSE
      <3>1. e # d \/ m # n
        BY <1>3, <1>8, <2>1, SlotFacts
      <3>2. dir[e][m] = v
        BY <1>8, <2>1, <3>1
      <3>3. dir[v][".."] = e
        BY <1>3, <1>12, <3>2, SlotFacts DEF TreeInv, DirsRight
      <3> QED BY <1>13, <3>1, <3>2, <3>3
    <2> QED BY <1>2, <1>13, <2>1 DEF Named
  <1>15. ASSUME NEW i \in Inum
         PROVE  Entries(i)' + PendOf(p, i)' = Entries(i) + PendOf(p, i) /\ Entries(i)' \in Nat
    <2>1. /\ Entries(i) \in Nat /\ Entries(i)' \in Nat
          /\ Entries(i)' = (Entries(i) - Is(v = i)) - Is(~Named(v)' /\ dir[v][".."] = i)
      BY <1>3, <1>4, ErasesCount
    <2>2. Is(~Named(v)' /\ dir[v][".."] = i) = Is(d = i)
      BY <1>13, <1>14 DEF Is
    <2>3. PendOf(p, i) = 0
      <3>1. ~InHeld(p, i) /\ ~InIp(p, i) /\ ~InDp(p, i)
        BY <1>1, <1>3 DEF InHeld, InIp, InDp
      <3> QED BY <3>1 DEF PendOf, Is
    <2>4. PendOf(p, i)' = Is(v = i) + Is(d = i)
      <3>1. InumOf(u)' = d /\ InumOf(s)' = v
        BY <1>2, <1>3, <1>5, HadStays DEF Ordinary
      <3>2. /\ ~InHeld(p, i)'
            /\ InIp(p, i)' <=> v = i
            /\ InDp(p, i)' <=> d = i
        BY <1>2, <1>3, <1>4, <3>1 DEF InHeld, InIp, InDp, InumOf
      <3> QED BY <3>2 DEF PendOf, Is
    <2>5. Is(v = i) \in Nat /\ Is(d = i) \in Nat
      BY DEF Is
    <2> QED BY <2>1, <2>2, <2>3, <2>4, <2>5
  <1> QED BY <1>3, <1>4, <1>5, <1>10, <1>11, <1>15, NameKeeps

LEMMA TreeUnlinkErases ==
  ASSUME CacheInv, TreeInv, NEW p \in Proc, NEW s \in Slot, s = ip[p], Ready(p, "victim"),
         Lockable(s), Lock(s)[s].type \notin {"none", "T_DIR"}, NEW d \in Inum,
         EnterName(d, LastName(p), None), icache' = Unlocked(Lock(s), dp[p]), PutDp(p),
         Goto(p, "erased"),
         UNCHANGED << dinode, files, call, rest, ip, held, freeing, ghosts >>,
         d = InumOf(dp[p])
  PROVE  TreeInv'
  <1>1. /\ puts[p] = << >> /\ pc[p] = "victim" /\ freeing[p] = "no"
        /\ \A t : ~Put1(p, t) /\ ~Put2(p, t)
    BY ReadyFacts
  <1>2. PICK n, v, u : n = LastName(p) /\ v = InumOf(s) /\ u = dp[p]
    OBVIOUS
  <1>3. /\ Has(p, s) /\ u \in Slot /\ Has(p, u) /\ Holds(p, u) /\ icache[u].valid
        /\ icache[u].ref > 0 /\ v \in Inum /\ n \in Name /\ rest[p] \in Seq(Name)
        /\ dinode[d].type = "T_DIR" /\ dir[d][n] = v /\ Pointed(v) /\ held[p] = NoSlot
    BY <1>1, <1>2, VictimFacts
  <1>4. /\ UNCHANGED << dinode, lost, panic, cwd, fd, call, rest, ip, held >>
        /\ pc'[p] = "erased" /\ EnterName(d, n, None) /\ dp'[p] = NoSlot /\ puts'[p] = << u >>
    BY <1>2 DEF CacheInv, Typed, files, ghosts, Goto, PutDp, Put
  <1>5. Ordinary(p)
    <2>1. Lock(s)[s].type # "none"
      OBVIOUS
    <2> QED BY <2>1, UnlinkErases
  <1>6. icache'[u].valid
    BY <1>3, <1>5 DEF Ordinary, SlotsStay
  <1>7. n \in Names /\ n # ".."
    BY <1>3, InodesAssumption DEF Names
  <1>8. \A e \in Inum : e # d => dir'[e] = dir[e]
    BY <1>4, <1>7, EnterFacts
  <1>9. ASSUME NEW t \in Slot PROVE Has(p, t)' <=> Has(p, t)
    <2>1. (Put1(p, t)' <=> t = u) /\ ~Put2(p, t)'
      BY <1>4, PutsFactsThen
    <2> QED BY <1>1, <1>2, <1>4, <2>1, SlotFacts DEF Has
  <1>10. Writes(p, u) /\ Makes(p)
    <2>1. InumOf(u) = d
      BY <1>2
    <2> QED BY <1>1, <1>2, <1>3, <1>4, <1>6, <1>8, <1>9, <2>1 DEF Writes, Makes, Making
  <1>11. DirsRight'
    BY <1>3, <1>4, DirsEnter
  <1>12. dinode[v].type # "T_DIR"
    BY <1>1, <1>2, <1>3, LockTo DEF Lockable, InumOf
  <1>13. dir[v] = Empty
    BY <1>3, <1>12 DEF TreeInv, DirsRight
  <1>14. ASSUME NEW i \in Inum
         PROVE  Entries(i)' + PendOf(p, i)' = Entries(i) + PendOf(p, i) /\ Entries(i)' \in Nat
    <2>1. /\ Entries(i) \in Nat /\ Entries(i)' \in Nat
          /\ Entries(i)' = (Entries(i) - Is(v = i)) - Is(~Named(v)' /\ dir[v][".."] = i)
      BY <1>3, <1>4, ErasesCount
    <2>2. Is(~Named(v)' /\ dir[v][".."] = i) = 0
      <3>1. dir[v][".."] # i
        BY <1>13, SlotFacts DEF Empty
      <3> QED BY <3>1 DEF Is
    <2>3. PendOf(p, i) = 0
      <3>1. ~InHeld(p, i) /\ ~InIp(p, i) /\ ~InDp(p, i)
        BY <1>1, <1>3 DEF InHeld, InIp, InDp
      <3> QED BY <3>1 DEF PendOf, Is
    <2>4. PendOf(p, i)' = Is(v = i)
      <3>1. InumOf(s)' = v
        BY <1>2, <1>3, <1>5, HadStays DEF Ordinary
      <3>2. ~InHeld(p, i)' /\ ~InDp(p, i)' /\ (InIp(p, i)' <=> v = i)
        BY <1>2, <1>3, <1>4, <3>1 DEF InHeld, InIp, InDp, InumOf
      <3> QED BY <3>2 DEF PendOf, Is
    <2>5. Is(v = i) \in Nat
      BY DEF Is
    <2> QED BY <2>1, <2>2, <2>3, <2>4, <2>5
  <1> QED BY <1>3, <1>4, <1>5, <1>10, <1>11, <1>14, NameKeeps

(***************************************************************************)
(* An inode is allocated.                                                  *)
(***************************************************************************)
\* Only an iput behind its iupdate refers to an inode that is free.
LEMMA FreeIsDone ==
  ASSUME CacheInv, TreeInv, NEW t \in Slot, dinode[InumOf(t)].type = "none",
         NEW r \in Proc, Has(r, t)
  PROVE  DoneWith(r, t)
  <1>1. ~(Keeps(r, t) \/ Put2(r, t) \/ (Put1(r, t) /\ freeing[r] # "done"))
    BY DEF CacheInv, Settled, InumOf
  <1>2. ip[r] # t
    <2>1. ip[r] # NoSlot => dinode[InumOf(ip[r])].type # "none"
      BY DEF TreeInv, TypesRight
    <2> QED BY <2>1, SlotFacts
  <1> QED BY <1>1, <1>2 DEF Has, Keeps, DoneWith

LEMMA TreeIalloc ==
  ASSUME CacheInv, TreeInv, NEW p \in Proc, Ready(p, "ialloc"), NEW i \in Inum,
         dinode[i].type = "none", NEW ty, ty = IF call[p].op = "mkdir" THEN "T_DIR" ELSE "T_FILE",
         dinode' = [dinode EXCEPT ![i] = [type |-> ty, nlink |-> 0]],
         IgetSlot(icache, i) # NoSlot, icache' = iget(icache, i),
         ip' = [ip EXCEPT ![p] = IgetSlot(icache, i)], Goto(p, "inew"),
         UNCHANGED << dir, files, call, rest, dp, held, puts, freeing, ghosts >>
  PROVE  TreeInv'
  <1>1. /\ puts[p] = << >> /\ pc[p] = "ialloc" /\ freeing[p] = "no"
        /\ \A t : ~Put1(p, t) /\ ~Put2(p, t)
    BY ReadyFacts
  <1>2. PICK t : t = IgetSlot(icache, i)
    OBVIOUS
  <1>3. /\ UNCHANGED << dir, lost, panic, cwd, fd, call, rest, dp, held, puts >>
        /\ pc'[p] = "inew" /\ ip'[p] = t
    BY <1>2 DEF CacheInv, Typed, files, ghosts, Goto
  <1>4. /\ \A j \in Inum : j # i => dinode'[j] = dinode[j]
        /\ dinode'[i].type = ty /\ dinode'[i].nlink = 0
    BY DEF CacheInv, Typed
  <1>5. ty \in {"T_DIR", "T_FILE"}
    OBVIOUS
  <1>6. Ordinary(p)
    BY <1>5, iallocOrdinary
  <1>7. CacheInv' /\ Others(p) /\ SlotsStay
    BY <1>6, OrdinaryKeeps DEF Ordinary
  <1>8. icache'[t].inum = i /\ t \in Slot
    <2>1. icache \in Caches
      BY DEF CacheInv, Typed, Caches
    <2> QED BY <1>2, <2>1, IgetFacts
  <1>9. held[p] = NoSlot /\ ip[p] = NoSlot
    BY <1>1 DEF CacheInv, Placed, InPlace, HasIp, Waiting, IpLocked
  <1>10. ASSUME NEW u \in Slot PROVE Has(p, u)' <=> Has(p, u) \/ u = t
    <2>1. (Put1(p, u)' <=> Put1(p, u)) /\ (Put2(p, u)' <=> Put2(p, u))
      BY <1>3 DEF Put1, Put2
    <2> QED BY <1>3, <1>9, <2>1, SlotFacts DEF Has
  <1>11. PICK d, u : d = InumOf(u) /\ u = dp[p]
    OBVIOUS
  <1>12. /\ u \in Slot /\ Has(p, u) /\ d \in Inum /\ dinode[d].type = "T_DIR"
         /\ rest[p] \in Seq(Name)
    BY <1>1, <1>11, ParentFacts
  <1>13. InumOf(u)' = d /\ d # i
    BY <1>7, <1>11, <1>12, HadStays
  <1>14. DirsRight /\ dir[i] = Empty /\ dinode[i].nlink = 0
    BY DEF TreeInv, DirsRight
  <1>15. Frame(p)
    <2>1. DiskMoves(p)
      BY <1>3, <1>4 DEF DiskMoves
    <2>2. GetsRight(p)
      BY <1>3, <1>8, <1>10 DEF GetsRight
    <2>3. TypesNew(p)
      BY <1>3, <1>4, <1>8 DEF TypesNew
    <2>4. InewWaits(p)
      BY <1>1 DEF InewWaits
    <2> QED BY <1>6, <2>1, <2>2, <2>3, <2>4 DEF Frame
  <1>16. UnnamedCached'
    <2>1. NoDrop(p)
      BY <1>10 DEF NoDrop
    <2> QED BY <1>7, <1>15, <2>1, CachedKeeps
  <1>17. Steps(p)'
    BY <1>3, <1>12 DEF Steps
  <1>18. TypesRight(p)'
    <2>1. dinode'[InumOf(u)'].type = "T_DIR"
      BY <1>4, <1>12, <1>13
    <2>2. InumOf(t)' = i
      BY <1>8 DEF InumOf
    <2> QED BY <1>3, <1>4, <1>5, <1>9, <1>11, <2>1, <2>2 DEF TypesRight, Making, InumOf
  <1>19. EntryRight(p)'
    <2>1. dir[d][LastName(p)] = None
      BY <1>1, <1>11 DEF TreeInv, EntryRight
    <2>2. dir'[InumOf(u)'][LastName(p)'] = None
      BY <1>3, <1>13, <2>1 DEF LastName
    <2> QED BY <1>3, <1>11, <2>2 DEF EntryRight, InumOf
  <1>20. NewRight(p)'
    <2>1. InumOf(t)' = i
      BY <1>8 DEF InumOf
    <2>2. ASSUME NEW r \in Proc, r # p, Has(r, t)' PROVE DoneWith(r, t)'
      <3>1. Has(r, t)
        BY <1>7, <2>2, HasStays
      <3>2. InumOf(t) = i
        BY <1>7, <1>8, <2>1, <3>1, HadStays
      <3>3. DoneWith(r, t)
        BY <1>8, <3>1, <3>2, FreeIsDone
      <3> QED BY <1>7, <2>2, <3>3, OthersStay
    <2>3. \A r \in Proc : r # p /\ Has(r, ip[p])' => DoneWith(r, ip[p])'
      <3>1. PICK x : x = ip'[p]
        OBVIOUS
      <3> QED BY <1>3, <2>2 DEF Has, DoneWith, Put1, Put2
    <2>4. dinode'[InumOf(t)'].nlink = 0 /\ dir'[InumOf(t)'] = Empty
      BY <1>3, <1>4, <1>14, <2>1
    <2> QED BY <1>3, <2>3, <2>4 DEF NewRight, Making, InumOf
  <1>21. DirsRight'
    <2>1. ~Pointed(i) /\ i # ROOTINO
      BY <1>4, <1>14, PointedFacts
    <2>2. \A e \in Inum, n \in Name : dir[e][n] # i
      BY <2>1 DEF Pointed
    <2>3. \A e \in Inum, n \in Name : dir[e][n] # None =>
            dir[e][n] \in Inum /\ dinode'[dir[e][n]] = dinode[dir[e][n]]
      <3>1. \A e \in Inum, n \in Name : dir[e][n] \in Inum \cup {None}
        BY DEF CacheInv, Typed, Names
      <3> QED BY <1>4, <2>2, <3>1
    <2>4. \A j \in Inum : dinode'[j].type # "T_DIR" => dir[j] = Empty
      BY <1>4, <1>14 DEF DirsRight
    <2>5. \A j \in Inum : dinode'[j].type = "none" => dinode'[j].nlink = 0
      BY <1>4, <1>5, <1>14 DEF DirsRight
    <2>6. dinode'[ROOTINO].type = "T_DIR" /\ dir[ROOTINO][".."] = ROOTINO
      BY <1>4, <1>14, <2>1, SlotFacts DEF DirsRight
    <2>7. \A e \in Inum, n \in Name : dir[e][n] # None /\ dinode'[dir[e][n]].type = "T_DIR" =>
            /\ dir[e][n] # ROOTINO /\ dir[dir[e][n]][".."] = e
            /\ \A m \in Name : dir[e][m] = dir[e][n] => m = n
      BY <1>14, <2>3 DEF DirsRight
    <2> QED BY <1>3, <2>4, <2>5, <2>6, <2>7 DEF DirsRight
  <1>22. LinksRight'
    <2>1. ASSUME NEW j \in Inum
          PROVE  Entries(j)' = Entries(j) /\ Pending(j)' = Pending(j)
                 /\ dinode'[j].nlink = dinode[j].nlink
      <3>1. Entries(j)' = Entries(j)
        BY <1>3, EntriesSame DEF Named
      <3>2. PendOf(p, j)' = PendOf(p, j)
        <4>1. /\ ~InHeld(p, j) /\ ~InIp(p, j) /\ ~InDp(p, j)
              /\ ~InHeld(p, j)' /\ ~InIp(p, j)' /\ ~InDp(p, j)'
          BY <1>1, <1>3, <1>9 DEF InHeld, InIp, InDp
        <4> QED BY <4>1 DEF PendOf, Is
      <3>3. Pending(j)' = Pending(j)
        BY <1>7, <3>2, PendingMove
      <3>4. dinode'[j].nlink = dinode[j].nlink
        BY <1>4, <1>14
      <3> QED BY <3>1, <3>3, <3>4
    <2> QED BY <1>3, <2>1 DEF TreeInv, LinksRight
  <1> QED BY <1>3, <1>7, <1>15, <1>16, <1>17, <1>18, <1>19, <1>20, <1>21, <1>22, FrameKeeps

(***************************************************************************)
(* iput.                                                                   *)
(***************************************************************************)
\* The numbers in the slots, and what the calls are at, stay as they are; so does the disk.
SamePlaces ==
  /\ UNCHANGED << pc, call, rest, ip, dp, held >>
  /\ \A t \in Slot : InumOf(t)' = InumOf(t)
SameNumbers == SamePlaces /\ UNCHANGED << dinode, dir, lost, panic >>

LEMMA SameFacts ==
  ASSUME CacheInv, TreeInv, SameNumbers, NEW q \in Proc
  PROVE  /\ Steps(q)' /\ TypesRight(q)' /\ EntryRight(q)'
         /\ pc'[q] \in Making => ip[q] \in Slot /\ ip'[q] = ip[q] /\ InumOf(ip[q])' = InumOf(ip[q])
  <1>1. /\ UNCHANGED << dinode, dir, lost, panic, pc, call, rest, ip, dp, held >>
        /\ \A t \in Slot : InumOf(t)' = InumOf(t)
    BY DEF SameNumbers, SamePlaces
  <1>2. PICK i, d, h : i = ip[q] /\ d = dp[q] /\ h = held[q]
    OBVIOUS
  <1>3. i \in Slot \cup {NoSlot} /\ d \in Slot \cup {NoSlot} /\ h \in Slot \cup {NoSlot}
    BY <1>2 DEF CacheInv, Typed
  <1>4. /\ i # NoSlot => InumOf(i)' = InumOf(i)
        /\ d # NoSlot => InumOf(d)' = InumOf(d)
        /\ h # NoSlot => InumOf(h)' = InumOf(h)
    BY <1>1, <1>3
  <1>5. /\ pc[q] \in Making => i # NoSlot /\ d # NoSlot
        /\ pc[q] \in {"victim"} \cup {"ialloc"} => d # NoSlot
        /\ pc[q] = "victim" => i # NoSlot
    BY <1>2 DEF CacheInv, Placed, InPlace, HasIp, HasDp, Waiting, IpLocked, DpLocked, Making
  <1>6. Steps(q)'
    BY <1>1 DEF TreeInv, Steps
  <1>7. TypesRight(q)'
    <2>1. TypesRight(q)
      BY DEF TreeInv
    <2>2. ip'[q] = i /\ dp'[q] = d /\ held'[q] = h
      BY <1>1, <1>2
    <2> QED BY <1>1, <1>2, <1>4, <1>5, <2>1, <2>2 DEF TypesRight, InumOf
  <1>8. EntryRight(q)'
    <2>1. EntryRight(q)
      BY DEF TreeInv
    <2>2. ip'[q] = i /\ dp'[q] = d /\ LastName(q)' = LastName(q)
      BY <1>1, <1>2 DEF LastName
    <2> QED BY <1>1, <1>2, <1>4, <1>5, <2>1, <2>2 DEF EntryRight, InumOf
  <1>9. pc'[q] \in Making => ip[q] \in Slot /\ ip'[q] = ip[q] /\ InumOf(ip[q])' = InumOf(ip[q])
    <2>1. pc'[q] \in Making => i \in Slot /\ ip'[q] = i /\ InumOf(i)' = InumOf(i)
      BY <1>1, <1>2, <1>3, <1>4, <1>5
    <2> QED BY <1>2, <2>1 DEF InumOf
  <1> QED BY <1>6, <1>7, <1>8, <1>9

LEMMA PendingSame ==
  ASSUME CacheInv, SamePlaces, NEW i
  PROVE  Pending(i)' = Pending(i)
  <1>1. /\ UNCHANGED << pc, call, rest, ip, dp, held >>
        /\ \A t \in Slot : InumOf(t)' = InumOf(t)
    BY DEF SamePlaces
  <1>2. ASSUME NEW q \in Proc
        PROVE  /\ InHeld(q, i)' <=> InHeld(q, i)
               /\ InIp(q, i)' <=> InIp(q, i)
               /\ InDp(q, i)' <=> InDp(q, i)
    <2>1. PICK k, d, h : k = ip[q] /\ d = dp[q] /\ h = held[q]
      OBVIOUS
    <2>2. k \in Slot \cup {NoSlot} /\ d \in Slot \cup {NoSlot} /\ h \in Slot \cup {NoSlot}
      BY <2>1 DEF CacheInv, Typed
    <2>3. /\ k # NoSlot => InumOf(k)' = InumOf(k)
          /\ d # NoSlot => InumOf(d)' = InumOf(d)
          /\ h # NoSlot => InumOf(h)' = InumOf(h)
      BY <1>1, <2>2
    <2>4. /\ pc[q] \in {"dots", "dotdot", "enter", "undot", "erased"} => k # NoSlot
          /\ pc[q] \in {"dotdot", "undot", "enter"} => d # NoSlot
      BY <2>1 DEF CacheInv, Placed, InPlace, HasIp, HasDp, IpLocked, DpLocked
    <2>5. ip'[q] = k /\ dp'[q] = d /\ held'[q] = h /\ pc'[q] = pc[q] /\ call'[q] = call[q]
      BY <1>1, <2>1
    <2>6. InHeld(q, i)' <=> InHeld(q, i)
      BY <2>1, <2>3, <2>5 DEF InHeld, InumOf
    <2>7. InIp(q, i)' <=> InIp(q, i)
      BY <2>1, <2>3, <2>4, <2>5 DEF InIp, InumOf
    <2>8. InDp(q, i)' <=> InDp(q, i)
      BY <2>1, <2>3, <2>4, <2>5 DEF InDp, InumOf
    <2> QED BY <2>6, <2>7, <2>8
  <1>3. PendHeld(i)' = PendHeld(i)
    BY <1>2 DEF PendHeld, InHeld
  <1>4. PendIp(i)' = PendIp(i)
    BY <1>2 DEF PendIp, InIp
  <1>5. PendDp(i)' = PendDp(i)
    BY <1>2 DEF PendDp, InDp
  <1>6. Pending(i)' = Cardinality(PendHeld(i)') + Cardinality(PendIp(i)')
                        + Cardinality(PendDp(i)')
    BY DEF Pending, PendHeld, PendIp, PendDp
  <1> QED BY <1>3, <1>4, <1>5, <1>6 DEF Pending

LEMMA SameLinks ==
  ASSUME CacheInv, TreeInv, SameNumbers
  PROVE  DirsRight' /\ LinksRight' /\ AssertionsHold'
  <1>1. /\ UNCHANGED << dinode, dir, lost, panic, pc, call, rest, ip, dp, held >>
        /\ \A t \in Slot : InumOf(t)' = InumOf(t)
    BY DEF SameNumbers, SamePlaces
  <1>2. DirsRight' /\ AssertionsHold'
    BY <1>1 DEF TreeInv, DirsRight, AssertionsHold
  <1>3. ASSUME NEW i \in Inum PROVE Entries(i)' = Entries(i) /\ Pending(i)' = Pending(i)
    <2>1. Entries(i)' = Entries(i)
      BY <1>1, EntriesSame DEF Named
    <2>2. Pending(i)' = Pending(i)
      BY PendingSame DEF SameNumbers
    <2> QED BY <2>1, <2>2
  <1>4. LinksRight'
    BY <1>1, <1>3 DEF TreeInv, LinksRight
  <1> QED BY <1>2, <1>4

\* The only reference to a slot, that iput has, is to an inode that has links: else it frees it.
LEMMA LastHasLinks ==
  ASSUME CacheInv, NEW p \in Proc, puts[p] # << >>, freeing[p] = "no",
         NEW s \in Slot, s = Head(puts[p]), icache[s].ref = 1, icache[s].valid
  PROVE  icache[s].nlink = dinode[InumOf(s)].nlink
  <1>1. \A q \in Proc : ~DoneWith(q, s)
    <2>1. ASSUME NEW q \in Proc, DoneWith(q, s) PROVE FALSE
      <3>1. Has(q, s)
        BY <2>1, HeldIsHad
      <3>2. q = p
        BY <3>1, LastReference
      <3> QED BY <2>1, <3>2 DEF DoneWith
    <2> QED BY <2>1
  <1>2. icache[s].ref > 0
    BY FirstFacts
  <1> QED BY <1>1, <1>2 DEF CacheInv, Copied, Match, InumOf

\* iput of a reference that is not the last one, or to an inode with links.
LEMMA TreeDrops ==
  ASSUME CacheInv, TreeInv, NEW p \in Proc, puts[p] # << >>, freeing[p] = "no",
         NEW s \in Slot, s = Head(puts[p]), ~FreesInode(icache[s]),
         icache' = [icache EXCEPT ![s].ref = @ - 1],
         Dropped(p), UNCHANGED << disk, files, pc, locals, freeing, ghosts >>
  PROVE  TreeInv'
  <1>1. Ordinary(p)
    BY iputDrops
  <1>2. CacheInv' /\ Others(p) /\ SlotsStay
    BY <1>1, OrdinaryKeeps DEF Ordinary
  <1>3. /\ UNCHANGED << dinode, dir, lost, panic, pc, call, rest, ip, dp, held, cwd, fd >>
        /\ puts'[p] = Tail(puts[p])
    BY DEF disk, files, locals, ghosts, Dropped, CacheInv, Typed
  <1>4. /\ icache'[s].ref = icache[s].ref - 1 /\ icache'[s].inum = icache[s].inum
        /\ icache'[s].valid = icache[s].valid /\ icache[s].ref \in Nat
        /\ \A t \in Slot : t # s => icache'[t] = icache[t]
    BY DEF CacheInv, Typed, Record
  <1>5. SameNumbers
    BY <1>3, <1>4 DEF SameNumbers, SamePlaces, InumOf
  <1>6. ASSUME NEW t \in Slot, Has(p, t)' PROVE Has(p, t)
    <2>1. (Put1(p, t)' <=> Put2(p, t)) /\ ~Put2(p, t)'
      BY <1>3, DroppedFacts
    <2> QED BY <1>3, <1>6, <2>1 DEF Has
  <1>7. Frame(p)
    BY <1>1, <1>3, <1>6 DEF Frame, DiskMoves, GetsRight, TypesNew, InewWaits
  <1>8. DirsRight' /\ LinksRight'
    BY <1>5, SameLinks
  <1>9. Steps(p)' /\ TypesRight(p)' /\ EntryRight(p)'
    BY <1>5, SameFacts
  <1>10. NewRight(p)'
    <2>1. CASE pc'[p] \in Making
      <3>1. PICK t : t = ip[p]
        OBVIOUS
      <3>2. t \in Slot /\ ip'[p] = t /\ InumOf(t)' = InumOf(t) /\ pc[p] \in Making
            /\ dp[p] \in Slot /\ InumOf(dp[p])' = InumOf(dp[p])
        <4>1. t \in Slot /\ ip'[p] = t /\ InumOf(t)' = InumOf(t) /\ pc[p] \in Making
          BY <1>3, <1>5, <2>1, <3>1, SameFacts DEF InumOf
        <4>2. PICK u : u = dp[p]
          OBVIOUS
        <4>3. u \in Slot /\ InumOf(u)' = InumOf(u)
          BY <1>5, <4>1, <4>2, MakingFacts DEF SameNumbers, SamePlaces
        <4> QED BY <1>3, <4>1, <4>2, <4>3 DEF InumOf
      <3>3. NewRight(p)
        BY DEF TreeInv
      <3>4. ASSUME NEW r \in Proc, r # p, Has(r, t)' PROVE DoneWith(r, t)' /\ pc'[p] = "inew"
        <4>1. Has(r, t)
          BY <1>2, <3>4, HasStays
        <4>2. DoneWith(r, t) /\ pc[p] = "inew"
          BY <3>1, <3>2, <3>3, <3>4, <4>1 DEF NewRight
        <4> QED BY <1>2, <1>3, <3>4, <4>2, OthersStay
      <3>5. \A r \in Proc : r # p /\ Has(r, ip[p])' => DoneWith(r, ip[p])' /\ pc'[p] = "inew"
        BY <3>2, <3>4 DEF Has, DoneWith, Put1, Put2
      <3> QED BY <1>3, <3>1, <3>2, <3>3, <3>5 DEF NewRight, InumOf
    <2>2. CASE pc'[p] \notin Making
      BY <2>2 DEF NewRight
    <2> QED BY <2>1, <2>2
  <1>11. UnnamedCached'
    <2> SUFFICES ASSUME NEW i \in Inum, dinode[i].type # "none", dinode[i].nlink = 0
                 PROVE  \E t \in Slot : /\ icache'[t].ref > 0 /\ icache'[t].inum = i
                                        /\ \/ icache'[t].valid
                                           \/ \E q \in Proc : pc[q] = "inew" /\ ip[q] = t
      BY <1>3 DEF UnnamedCached
    <2>1. PICK t \in Slot : /\ icache[t].ref > 0 /\ icache[t].inum = i
                            /\ icache[t].valid \/ \E q \in Proc : pc[q] = "inew" /\ ip[q] = t
      BY DEF TreeInv, UnnamedCached
    <2>2. t = s => icache[s].ref # 1
      <3>1. ASSUME t = s, icache[s].ref = 1 PROVE FALSE
        <4>1. icache[s].valid
          BY <2>1, <3>1, LastReference
        <4>2. icache[s].nlink = 0
          BY <2>1, <3>1, <4>1, LastHasLinks DEF InumOf
        <4> QED BY <3>1, <4>1, <4>2 DEF FreesInode
      <3> QED BY <3>1
    <2>3. icache'[t].ref > 0 /\ icache'[t].inum = i /\ icache'[t].valid = icache[t].valid
      BY <1>4, <2>1, <2>2
    <2> QED BY <2>1, <2>3
  <1> QED BY <1>2, <1>3, <1>7, <1>8, <1>9, <1>10, <1>11, FrameKeeps

\* iput locks the inode that it is to free.
LEMMA TreeLocks ==
  ASSUME CacheInv, TreeInv, NEW p \in Proc, puts[p] # << >>, freeing[p] = "no",
         NEW s \in Slot, s = Head(puts[p]), FreesInode(icache[s]),
         icache' = [icache EXCEPT ![s].busy = TRUE],
         freeing' = [freeing EXCEPT ![p] = "itrunc"],
         UNCHANGED << disk, files, pc, locals, puts, ghosts >>
  PROVE  TreeInv'
  <1>1. /\ UNCHANGED << dinode, dir, lost, panic, pc, call, rest, ip, dp, held, cwd, fd, puts >>
        /\ freeing'[p] = "itrunc" /\ \A q \in Proc : q # p => freeing'[q] = freeing[q]
    BY DEF disk, files, locals, ghosts, CacheInv, Typed
  <1>2. \A t \in Slot : /\ icache'[t].ref = icache[t].ref /\ icache'[t].inum = icache[t].inum
                        /\ icache'[t].valid = icache[t].valid
    BY DEF CacheInv, Typed, Record
  <1>3. SameNumbers
    BY <1>1, <1>2 DEF SameNumbers, SamePlaces, InumOf
  <1>4. icache[s].ref = 1 /\ icache[s].valid /\ icache[s].nlink = 0
    BY DEF FreesInode
  <1>5. /\ \A t : Put1(p, t) <=> t = s
        /\ \A r \in Proc : ip[r] # s
    BY <1>4, FirstFacts, LastReference
  <1>6. ASSUME NEW q \in Proc, NEW t
        PROVE  /\ Put1(q, t)' <=> Put1(q, t)
               /\ Has(q, t)' <=> Has(q, t)
               /\ DoneWith(q, t)' <=> DoneWith(q, t)
    <2>1. (Put1(q, t)' <=> Put1(q, t)) /\ (Put2(q, t)' <=> Put2(q, t))
      BY <1>1 DEF Put1, Put2
    <2> QED BY <1>1, <2>1 DEF Has, DoneWith
  <1>7. ASSUME NEW q \in Proc PROVE NewRight(q)'
    <2>1. CASE pc'[q] \in Making
      <3>1. PICK t, u : t = ip[q] /\ u = dp[q]
        OBVIOUS
      <3>2. /\ t \in Slot /\ u \in Slot /\ pc[q] \in Making
            /\ InumOf(t)' = InumOf(t) /\ InumOf(u)' = InumOf(u)
        BY <1>1, <1>3, <2>1, <3>1, MakingFacts DEF SameNumbers, SamePlaces
      <3>3. NewRight(q)
        BY DEF TreeInv
      <3>4. \A r \in Proc : r # q /\ Has(r, t)' => DoneWith(r, t)' /\ pc'[q] = "inew"
        BY <1>1, <1>6, <3>1, <3>2, <3>3 DEF NewRight
      <3>5. \A r \in Proc : r # q /\ Has(r, ip[q])' => DoneWith(r, ip[q])' /\ pc'[q] = "inew"
        BY <1>1, <3>1, <3>4 DEF Has, DoneWith, Put1, Put2
      <3> QED BY <1>1, <3>1, <3>2, <3>3, <3>5 DEF NewRight, InumOf
    <2>2. CASE pc'[q] \notin Making
      BY <2>2 DEF NewRight
    <2> QED BY <2>1, <2>2
  <1>8. ASSUME NEW q \in Proc PROVE FreeRight(q)'
    <2>1. CASE q = p
      <3>1. dinode[InumOf(s)].nlink = 0
        BY <1>4, LastHasLinks
      <3>2. InumOf(s)' = InumOf(s)
        BY <1>3 DEF SameNumbers, SamePlaces
      <3> QED BY <1>1, <1>5, <1>6, <2>1, <3>1, <3>2 DEF FreeRight
    <2>2. CASE q # p
      <3>1. FreeRight(q)
        BY DEF TreeInv
      <3>2. \A t \in Slot : InumOf(t)' = InumOf(t)
        BY <1>3 DEF SameNumbers, SamePlaces
      <3> QED BY <1>1, <1>6, <2>2, <3>1, <3>2 DEF FreeRight
    <2> QED BY <2>1, <2>2
  <1>9. UnnamedCached'
    BY <1>1, <1>2 DEF TreeInv, UnnamedCached
  <1> QED BY <1>3, <1>7, <1>8, <1>9, SameFacts, SameLinks DEF TreeInv

\* What iput frees is nobody else's, and has no name.
LEMMA FreedFacts ==
  ASSUME CacheInv, TreeInv, NEW p \in Proc, freeing[p] = "itrunc", NEW s, s = Head(puts[p]),
         NEW i, i = InumOf(s)
  PROVE  /\ s \in Slot /\ i \in Inum /\ \A t : Put1(p, t) <=> t = s
         /\ icache[s].nlink = 0 /\ dinode[i].nlink = 0 /\ dinode[i].type # "none"
         /\ Entries(i) = 0 /\ ~Pointed(i) /\ ~Named(i) /\ i # ROOTINO
         /\ \A r \in Proc, t \in Slot : Has(r, t) /\ InumOf(t) = i => r = p /\ t = s
         /\ \A r \in Proc : ip[r] # s /\ dp[r] # s /\ held[r] # s
  <1>1. puts[p] # << >>
    BY DEF CacheInv, Placed, PutsShort
  <1>2. s \in Slot /\ (\A t : Put1(p, t) <=> t = s) /\ icache[s].ref > 0 /\ i \in Inum
    BY <1>1, FirstFacts DEF InumOf
  <1>3. Frees(p, s) /\ Put1(p, s) /\ freeing[p] # "done"
    BY <1>2 DEF Frees
  <1>4. dinode[i].nlink = 0 /\ \A r \in Proc : ip[r] # s
    BY <1>2, <1>3 DEF TreeInv, FreeRight
  <1>5. dinode[i].type # "none"
    BY <1>2, <1>3 DEF CacheInv, Settled, InumOf
  <1>6. /\ icache[s].valid
        /\ \A r \in Proc : ~Keeps(r, s) /\ ~Put2(r, s) /\ (Put1(r, s) => r = p)
    BY <1>2, <1>3 DEF CacheInv, FreedAlone
  <1>7. icache[s].nlink = 0
    <2>1. \A q \in Proc : ~DoneWith(q, s)
      BY <1>3, <1>6 DEF DoneWith
    <2> QED BY <1>2, <1>4, <1>6, <2>1 DEF CacheInv, Copied, Match, InumOf
  <1>8. Entries(i) = 0
    BY <1>2, <1>4, LinkFacts
  <1>9. ~Pointed(i) /\ i # ROOTINO
    BY <1>2, <1>8, PointedFacts
  <1>10. ~Named(i)
    BY <1>9 DEF Named, Pointed
  <1>11. \A r \in Proc : Has(r, s) => r = p
    BY <1>4, <1>6 DEF Has, Keeps
  <1>12. \A r \in Proc, t \in Slot : Has(r, t) /\ InumOf(t) = i => r = p /\ t = s
    <2>1. ASSUME NEW r \in Proc, NEW t \in Slot, Has(r, t), InumOf(t) = i PROVE t = s
      <3>1. icache[t].ref > 0
        BY <2>1, Taken DEF CacheInv
      <3> QED BY <1>2, <2>1, <3>1 DEF CacheInv, NumbersRight, InumOf
    <2> QED BY <1>11, <2>1
  <1>13. \A r \in Proc : dp[r] # s /\ held[r] # s
    BY <1>6 DEF Keeps
  <1> QED BY <1>2, <1>4, <1>5, <1>7, <1>8, <1>9, <1>10, <1>12, <1>13

\* The names in an inode without a name go: what they named is lost, but for directories.
LEMMA TruncCount ==
  ASSUME CacheInv, TreeInv, NEW i \in Inum, ~Pointed(i), i # ROOTINO, Entries(i) = 0,
         dir' = [dir EXCEPT ![i] = Empty], NEW j \in Inum
  PROVE  /\ Entries(j)' \in Nat /\ Entries(j) \in Nat /\ Entries(j)' <= Entries(j)
         /\ (\A n \in Name : dir[i][n] # j) => Entries(j)' = Entries(j)
  <1>1. /\ \A e \in Inum : e # i => dir'[e] = dir[e]
        /\ dir'[i] = Empty /\ \A n \in Name : dir'[i][n] = None
    BY DEF CacheInv, Typed, Empty, Names
  <1>2. \A e \in Inum, n \in Name : dir'[e][n] \in Inum => e # i /\ dir'[e][n] = dir[e][n]
    BY <1>1, SlotFacts
  <1>3. /\ Cardinality(NamesOf(j)) \in Nat /\ Cardinality(DotdotsOf(j)) \in Nat
        /\ Entries(j) = Cardinality(NamesOf(j)) + Cardinality(DotdotsOf(j))
        /\ Entries(j)' = Cardinality(NamesOf(j)') + Cardinality(DotdotsOf(j)')
        /\ IsFiniteSet(NamesOf(j)) /\ IsFiniteSet(DotdotsOf(j))
    BY EntriesSum
  <1>4. NamesOf(j)' \subseteq NamesOf(j)
    BY <1>2 DEF NamesOf
  <1>5. ASSUME \A n \in Name : dir[i][n] # j PROVE NamesOf(j)' = NamesOf(j)
    <2>1. ASSUME NEW e \in Inum, NEW n \in Name, dir[e][n] = j PROVE dir'[e][n] = j
      BY <1>1, <1>5, <2>1
    <2>2. NamesOf(j) \subseteq NamesOf(j)'
      BY <2>1 DEF NamesOf
    <2> QED BY <1>4, <2>2
  <1>6. DotdotsOf(j)' = DotdotsOf(j)
    <2>1. ASSUME NEW d \in Inum PROVE (Named(d) /\ dir[d][".."] = j)' <=> Named(d) /\ dir[d][".."] = j
      <3>1. CASE d = i
        <4>1. ~Named(i)
          BY DEF Named, Pointed
        <4>2. ~Named(i)'
          <5>1. \A e \in Inum, n \in Name : dir'[e][n] # i
            BY <1>2 DEF Pointed
          <5> QED BY <5>1 DEF Named
        <4> QED BY <3>1, <4>1, <4>2
      <3>2. CASE d # i
        <4>1. dir'[d] = dir[d]
          BY <1>1, <3>2
        <4>2. Named(d)' => Named(d)
          BY <1>2 DEF Named
        <4>3. ASSUME Named(d), dir[d][".."] = j PROVE Named(d)'
          <5>1. CASE d = ROOTINO
            BY <5>1 DEF Named
          <5>2. ASSUME NEW e \in Inum, NEW n \in Name, dir[e][n] = d PROVE Named(d)'
            <6>1. dinode[d].type = "T_DIR"
              <7>1. ASSUME dinode[d].type # "T_DIR" PROVE FALSE
                <8>1. dir[d] = Empty
                  BY <7>1 DEF TreeInv, DirsRight
                <8> QED BY <4>3, <8>1, SlotFacts DEF Empty
              <7> QED BY <7>1
            <6>2. dir[d][".."] = e
              BY <5>2, <6>1, SlotFacts DEF TreeInv, DirsRight
            <6>3. e # i
              <7>1. e = i => Entries(i) >= 1
                BY <4>3, <6>2, EntriesFacts
              <7> QED BY <7>1
            <6>4. dir'[e][n] = d
              BY <1>1, <5>2, <6>3
            <6> QED BY <6>4 DEF Named
          <5> QED BY <4>3, <5>1, <5>2 DEF Named
        <4> QED BY <4>1, <4>2, <4>3
      <3> QED BY <3>1, <3>2
    <2> QED BY <2>1 DEF DotdotsOf
  <1>7. Cardinality(NamesOf(j)') \in Nat /\ Cardinality(NamesOf(j)') <= Cardinality(NamesOf(j))
    <2>1. PICK A, B : A = NamesOf(j) /\ B = NamesOf(j)'
      OBVIOUS
    <2>2. B \subseteq A /\ IsFiniteSet(A)
      BY <1>3, <1>4, <2>1
    <2>3. IsFiniteSet(B) /\ Cardinality(B) <= Cardinality(A)
      BY <2>2, FS_Subset
    <2>4. Cardinality(B) \in Nat
      BY <2>3, FS_CardinalityType
    <2> QED BY <2>1, <2>3, <2>4
  <1> QED BY <1>3, <1>5, <1>6, <1>7

\* itrunc, and the iupdate behind it: nobody but p refers to the inode.
LEMMA TreeTruncs ==
  ASSUME CacheInv, TreeInv, NEW p \in Proc, IputTrunc(p)
  PROVE  TreeInv'
  <1>1. PICK s, i : s = Head(puts[p]) /\ i = InumOf(s)
    OBVIOUS
  <1>2. freeing[p] = "itrunc" /\ panic = "none"
    BY DEF IputTrunc
  <1>3. /\ s \in Slot /\ i \in Inum /\ \A t : Put1(p, t) <=> t = s
        /\ icache[s].nlink = 0 /\ dinode[i].nlink = 0 /\ dinode[i].type # "none"
        /\ Entries(i) = 0 /\ ~Pointed(i) /\ ~Named(i) /\ i # ROOTINO
        /\ \A r \in Proc, t \in Slot : Has(r, t) /\ InumOf(t) = i => r = p /\ t = s
        /\ \A r \in Proc : ip[r] # s /\ dp[r] # s /\ held[r] # s
    BY <1>1, <1>2, FreedFacts
  <1>4. PICK c : c = [icache EXCEPT ![s].type = "none"]
    OBVIOUS
  <1>5. /\ \A t \in Slot : /\ c[t].ref = icache[t].ref /\ c[t].inum = icache[t].inum
                           /\ c[t].valid = icache[t].valid /\ c[t].nlink = icache[t].nlink
        /\ c[s].type = "none" /\ c[s].inum = i
    BY <1>1, <1>3, <1>4 DEF CacheInv, Typed, Record, InumOf
  <1>6. /\ icache' = c /\ dir' = [dir EXCEPT ![i] = Empty]
        /\ lost' = lost \cup {j \in Inum : \E n \in Name : dir[i][n] = j}
        /\ dinode' = [dinode EXCEPT ![i] = [type |-> c[s].type, nlink |-> c[s].nlink]]
        /\ UNCHANGED << cwd, fd, pc, call, rest, ip, dp, held, puts, panic >>
        /\ freeing' = [freeing EXCEPT ![p] = "done"]
    BY <1>1, <1>4, <1>5 DEF IputTrunc, iupdate, files, locals
  <1>7. /\ \A j \in Inum : j # i => dinode'[j] = dinode[j] /\ dir'[j] = dir[j]
        /\ dinode'[i].type = "none" /\ dinode'[i].nlink = 0 /\ dir'[i] = Empty
    BY <1>3, <1>5, <1>6 DEF CacheInv, Typed
  <1>8. freeing'[p] = "done" /\ \A q \in Proc : q # p => freeing'[q] = freeing[q]
    BY <1>6 DEF CacheInv, Typed
  <1>9. SamePlaces
    BY <1>5, <1>6 DEF SamePlaces, InumOf
  <1>10. ASSUME NEW q \in Proc, NEW t
         PROVE  /\ Put1(q, t)' <=> Put1(q, t)
                /\ Has(q, t)' <=> Has(q, t)
                /\ DoneWith(q, t) => DoneWith(q, t)'
    <2>1. (Put1(q, t)' <=> Put1(q, t)) /\ (Put2(q, t)' <=> Put2(q, t))
      BY <1>6 DEF Put1, Put2
    <2> QED BY <1>6, <1>8, <2>1 DEF Has, DoneWith
  \* What others refer to is another inode.
  <1>11. ASSUME NEW q \in Proc, NEW t \in Slot, t # s, Has(q, t)
         PROVE  /\ InumOf(t) \in Inum /\ InumOf(t)' = InumOf(t) /\ InumOf(t) # i
                /\ dinode'[InumOf(t)] = dinode[InumOf(t)] /\ dir'[InumOf(t)] = dir[InumOf(t)]
    <2>1. InumOf(t) \in Inum /\ InumOf(t) # i
      BY <1>3, <1>11, Known DEF InumOf
    <2>2. InumOf(t)' = InumOf(t)
      BY <1>9 DEF SamePlaces
    <2> QED BY <1>7, <2>1, <2>2
  <1>12. ASSUME NEW q \in Proc
         PROVE  Steps(q)' /\ TypesRight(q)' /\ EntryRight(q)' /\ NewRight(q)' /\ FreeRight(q)'
    <2>1. PICK k, d, h : k = ip[q] /\ d = dp[q] /\ h = held[q]
      OBVIOUS
    <2>2. /\ k \in Slot \cup {NoSlot} /\ d \in Slot \cup {NoSlot} /\ h \in Slot \cup {NoSlot}
          /\ k # s /\ d # s /\ h # s
      BY <1>3, <2>1 DEF CacheInv, Typed
    <2>3. ASSUME NEW t \in {k, d, h}, t # NoSlot
          PROVE  /\ InumOf(t)' = InumOf(t)
                 /\ dinode'[InumOf(t)] = dinode[InumOf(t)] /\ dir'[InumOf(t)] = dir[InumOf(t)]
      <3>1. t \in Slot /\ t # s /\ Has(q, t)
        BY <2>1, <2>2, <2>3 DEF Has
      <3> QED BY <1>11, <3>1
    <2>4. /\ pc[q] \in Making => k # NoSlot /\ d # NoSlot
          /\ pc[q] \in {"victim"} \cup {"ialloc"} => d # NoSlot
          /\ pc[q] = "victim" => k # NoSlot
      BY <2>1 DEF CacheInv, Placed, InPlace, HasIp, HasDp, Waiting, IpLocked, DpLocked, Making
    <2>5. /\ ip'[q] = k /\ dp'[q] = d /\ held'[q] = h /\ pc'[q] = pc[q] /\ call'[q] = call[q]
          /\ rest'[q] = rest[q] /\ LastName(q)' = LastName(q)
      BY <1>6, <2>1 DEF LastName
    <2>6. Steps(q) /\ TypesRight(q) /\ EntryRight(q) /\ NewRight(q) /\ FreeRight(q)
      BY DEF TreeInv
    <2>7. Steps(q)'
      BY <2>5, <2>6 DEF Steps
    <2>8. TypesRight(q)'
      BY <2>1, <2>3, <2>4, <2>5, <2>6 DEF TypesRight, InumOf
    <2>9. EntryRight(q)'
      BY <2>1, <2>3, <2>4, <2>5, <2>6 DEF EntryRight, InumOf
    <2>10. NewRight(q)'
      <3>1. pc[q] \in Making => \A r \in Proc : r # q /\ Has(r, k)' => DoneWith(r, k)' /\ pc'[q] = "inew"
        BY <1>10, <2>1, <2>5, <2>6 DEF NewRight
      <3>2. pc[q] \in Making => \A r \in Proc : r # q /\ Has(r, ip[q])' => DoneWith(r, ip[q])' /\ pc'[q] = "inew"
        BY <1>6, <2>1, <3>1 DEF Has, DoneWith, Put1, Put2
      <3> QED BY <2>1, <2>3, <2>4, <2>5, <2>6, <3>2 DEF NewRight, InumOf
    <2>11. FreeRight(q)'
      <3>1. CASE q = p
        <4>1. InumOf(s)' = i
          BY <1>1, <1>3, <1>9 DEF SamePlaces
        <4> QED BY <1>3, <1>6, <1>7, <1>8, <1>10, <3>1, <4>1 DEF FreeRight
      <3>2. CASE q # p
        <4>1. ASSUME NEW t \in Slot, Put1(q, t)
              PROVE  InumOf(t)' = InumOf(t) /\ dinode'[InumOf(t)] = dinode[InumOf(t)]
          <5>1. Has(q, t)
            BY <4>1 DEF Has
          <5>2. t # s
            BY <1>1, <1>3, <3>2, <5>1
          <5> QED BY <1>11, <5>1, <5>2
        <4> QED BY <1>6, <1>8, <1>10, <2>6, <3>2, <4>1 DEF FreeRight
      <3> QED BY <3>1, <3>2
    <2> QED BY <2>7, <2>8, <2>9, <2>10, <2>11
  <1>13. DirsRight'
    <2>1. DirsRight
      BY DEF TreeInv
    <2>2. \A e \in Inum, n \in Name : dir[e][n] # i
      BY <1>3 DEF Pointed
    <2>3. ASSUME NEW e \in Inum, NEW n \in Name, dir'[e][n] # None
          PROVE  /\ e # i /\ dir'[e] = dir[e] /\ dir[e][n] \in Inum
                 /\ dinode'[dir[e][n]] = dinode[dir[e][n]] /\ dir'[dir[e][n]] = dir[dir[e][n]]
      <3>1. e # i
        BY <1>7, <2>3 DEF Empty, Names
      <3>2. dir'[e] = dir[e] /\ dir[e][n] \in Inum
        BY <1>7, <2>3, <3>1 DEF CacheInv, Typed, Names
      <3> QED BY <1>7, <2>2, <3>1, <3>2
    <2>4. \A j \in Inum : dinode'[j].type # "T_DIR" => dir'[j] = Empty
      BY <1>7, <2>1 DEF DirsRight
    <2>5. \A j \in Inum : dinode'[j].type = "none" => dinode'[j].nlink = 0
      BY <1>7, <2>1 DEF DirsRight
    <2>6. dinode'[ROOTINO].type = "T_DIR" /\ dir'[ROOTINO][".."] = ROOTINO
      BY <1>3, <1>7, <2>1, SlotFacts DEF DirsRight
    <2>7. ASSUME NEW e \in Inum, NEW n \in Name, dir'[e][n] # None,
                 dinode'[dir'[e][n]].type = "T_DIR"
          PROVE  /\ dir'[e][n] # ROOTINO /\ dir'[dir'[e][n]][".."] = e
                 /\ \A m \in Name : dir'[e][m] = dir'[e][n] => m = n
      <3>1. PICK x : x = dir[e][n]
        OBVIOUS
      <3>2. /\ dir'[e] = dir[e] /\ x \in Inum /\ x # None
            /\ dinode'[x] = dinode[x] /\ dir'[x] = dir[x] /\ dir'[e][n] = x
        BY <2>3, <2>7, <3>1
      <3>3. /\ x # ROOTINO /\ dir[x][".."] = e
            /\ \A m \in Name : dir[e][m] = x => m = n
        BY <2>1, <2>7, <3>1, <3>2 DEF DirsRight
      <3> QED BY <3>2, <3>3
    <2> QED BY <2>4, <2>5, <2>6, <2>7 DEF DirsRight
  <1>14. LinksRight'
    <2>1. ASSUME NEW j \in Inum
          PROVE  /\ dinode'[j].nlink >= Entries(j)' + Pending(j)'
                 /\ j \notin lost' => dinode'[j].nlink = Entries(j)' + Pending(j)'
      <3>1. dinode'[j].nlink = dinode[j].nlink
        BY <1>3, <1>7
      <3>2. Pending(j)' = Pending(j)
        BY <1>9, PendingSame
      <3>3. /\ Entries(j)' \in Nat /\ Entries(j) \in Nat /\ Entries(j)' <= Entries(j)
            /\ (\A n \in Name : dir[i][n] # j) => Entries(j)' = Entries(j)
        BY <1>3, <1>6, TruncCount
      <3>4. /\ dinode[j].nlink \in Int /\ Pending(j) \in Nat
            /\ dinode[j].nlink >= Entries(j) + Pending(j)
            /\ j \notin lost => dinode[j].nlink = Entries(j) + Pending(j)
        BY LinkFacts
      <3>5. j \notin lost' => j \notin lost /\ \A n \in Name : dir[i][n] # j
        BY <1>6
      <3> QED BY <3>1, <3>2, <3>3, <3>4, <3>5
    <2> QED BY <2>1 DEF LinksRight
  <1>15. UnnamedCached'
    <2>1. ASSUME NEW j \in Inum, dinode'[j].type # "none", dinode'[j].nlink = 0
          PROVE  dinode[j].type # "none" /\ dinode[j].nlink = 0
      BY <1>7, <2>1
    <2> QED BY <1>5, <1>6, <2>1 DEF TreeInv, UnnamedCached
  <1>16. AssertionsHold'
    BY <1>2, <1>6 DEF AssertionsHold
  <1> QED BY <1>12, <1>13, <1>14, <1>15, <1>16 DEF TreeInv

\* iput gives the freed inode's slot up.
LEMMA TreeFreed ==
  ASSUME CacheInv, TreeInv, NEW p \in Proc, IputDone(p), NEW s \in Slot, s = Head(puts[p])
  PROVE  TreeInv'
  <1>1. freeing[p] = "done" /\ panic = "none" /\ puts[p] # << >>
    BY DEF IputDone, CacheInv, Placed, PutsShort
  <1>2. /\ UNCHANGED << dinode, dir, lost, panic, pc, call, rest, ip, dp, held, cwd, fd >>
        /\ puts'[p] = Tail(puts[p]) /\ freeing'[p] = "no"
        /\ \A q \in Proc : q # p => puts'[q] = puts[q] /\ freeing'[q] = freeing[q]
    BY DEF IputDone, Dropped, disk, files, locals, ghosts, CacheInv, Typed
  <1>3. Others(p)
    BY <1>2 DEF Others
  <1>4. /\ \A t \in Slot : t # s => icache'[t] = icache[t]
        /\ icache'[s].inum = icache[s].inum
    BY DEF IputDone, CacheInv, Typed, Record
  <1>5. CacheInv'
    BY IputDoneKeeps
  <1>6. SameNumbers
    BY <1>2, <1>4 DEF SameNumbers, SamePlaces, InumOf
  <1>7. Put1(p, s) /\ \A t : Put1(p, t) <=> t = s
    BY <1>1, FirstFacts
  <1>8. /\ \A r \in Proc : ip[r] = s => pc[r] = "inew"
        /\ dinode[InumOf(s)].type # "none" => \E r \in Proc : ip[r] = s /\ pc[r] = "inew"
    BY <1>1, <1>7 DEF TreeInv, FreeRight
  <1>9. Frees(p, s) /\ DoneWith(p, s) /\ Holds(p, s)
    BY <1>1, <1>7 DEF Frees, DoneWith, Holds
  <1>10. ~Keeps(p, s) /\ ~Put2(p, s)
    BY <1>9 DEF CacheInv, FreedAlone
  \* p has not made the inode, if somebody has.
  <1>11. ASSUME NEW q \in Proc, q # p, ip[q] = s, pc[q] \in Making PROVE ~Has(p, s)'
    <2>1. (Put1(p, s)' <=> Put2(p, s)) /\ ~Put2(p, s)'
      BY <1>1, <1>2, DroppedFacts
    <2>2. ip[p] # s
      <3>1. ASSUME ip[p] = s PROVE FALSE
        <4>1. pc[p] = "inew"
          BY <1>8, <3>1
        <4>2. Has(q, ip[p])
          BY <1>11, <3>1 DEF Has
        <4>3. DoneWith(q, s)
          BY <1>11, <3>1, <4>1, <4>2 DEF TreeInv, NewRight, Making
        <4>4. Holds(q, s)
          BY <4>3 DEF DoneWith, Holds, Frees
        <4> QED BY <1>9, <1>11, <4>4 DEF CacheInv, LocksRight
      <3> QED BY <3>1
    <2> QED BY <1>2, <1>10, <2>1, <2>2 DEF Has, Keeps
  <1>12. ASSUME NEW q \in Proc PROVE NewRight(q)'
    <2>1. CASE pc'[q] \in Making
      <3>1. PICK t, u : t = ip[q] /\ u = dp[q]
        OBVIOUS
      <3>2. /\ t \in Slot /\ u \in Slot /\ pc[q] \in Making
            /\ InumOf(t)' = InumOf(t) /\ InumOf(u)' = InumOf(u)
        BY <1>2, <1>6, <2>1, <3>1, MakingFacts DEF SameNumbers, SamePlaces
      <3>3. NewRight(q)
        BY DEF TreeInv
      <3>4. ASSUME NEW r \in Proc, r # q, Has(r, t)' PROVE DoneWith(r, t)' /\ pc'[q] = "inew"
        <4>1. CASE r = p
          <5>1. Has(p, t)
            <6>1. (Put1(p, t)' <=> Put2(p, t)) /\ ~Put2(p, t)'
              BY <1>1, <1>2, DroppedFacts
            <6> QED BY <1>2, <3>4, <4>1, <6>1 DEF Has
          <5>2. DoneWith(p, t)
            BY <3>1, <3>2, <3>3, <3>4, <4>1, <5>1 DEF NewRight
          <5>3. t = s
            BY <1>7, <5>2 DEF DoneWith
          <5> QED BY <1>11, <3>1, <3>2, <3>4, <4>1, <5>3
        <4>2. CASE r # p
          <5>1. Has(r, t)
            BY <1>3, <3>4, <4>2, HasStays
          <5>2. DoneWith(r, t) /\ pc[q] = "inew"
            BY <3>1, <3>2, <3>3, <3>4, <5>1 DEF NewRight
          <5> QED BY <1>2, <1>3, <4>2, <5>2, OthersStay
        <4> QED BY <4>1, <4>2
      <3>5. \A r \in Proc : r # q /\ Has(r, ip[q])' => DoneWith(r, ip[q])' /\ pc'[q] = "inew"
        BY <1>2, <3>1, <3>4 DEF Has, DoneWith, Put1, Put2
      <3> QED BY <1>2, <3>1, <3>2, <3>3, <3>5 DEF NewRight, InumOf
    <2>2. CASE pc'[q] \notin Making
      BY <2>2 DEF NewRight
    <2> QED BY <2>1, <2>2
  <1>13. ASSUME NEW q \in Proc PROVE FreeRight(q)'
    <2>1. CASE q = p
      BY <1>2, <2>1 DEF FreeRight
    <2>2. CASE q # p
      <3>1. FreeRight(q)
        BY DEF TreeInv
      <3>2. \A t \in Slot : InumOf(t)' = InumOf(t) /\ (Put1(q, t)' <=> Put1(q, t))
        BY <1>3, <1>6, <2>2, OthersStay DEF SameNumbers, SamePlaces
      <3> QED BY <1>2, <2>2, <3>1, <3>2 DEF FreeRight
    <2> QED BY <2>1, <2>2
  <1>14. UnnamedCached'
    <2> SUFFICES ASSUME NEW i \in Inum, dinode[i].type # "none", dinode[i].nlink = 0
                 PROVE  \E t \in Slot : /\ icache'[t].ref > 0 /\ icache'[t].inum = i
                                        /\ \/ icache'[t].valid
                                           \/ \E q \in Proc : pc[q] = "inew" /\ ip[q] = t
      BY <1>2 DEF UnnamedCached
    <2>1. PICK t \in Slot : /\ icache[t].ref > 0 /\ icache[t].inum = i
                            /\ icache[t].valid \/ \E q \in Proc : pc[q] = "inew" /\ ip[q] = t
      BY DEF TreeInv, UnnamedCached
    <2>2. CASE t # s
      <3>1. icache'[t] = icache[t]
        BY <1>4, <2>2
      <3> QED BY <2>1, <3>1
    <2>3. CASE t = s
      <3>1. PICK r \in Proc : ip[r] = s /\ pc[r] = "inew"
        BY <1>8, <2>1, <2>3 DEF InumOf
      <3>2. Has(r, s)'
        BY <1>2, <3>1 DEF Has
      <3>3. icache'[s].ref > 0
        BY <1>3, <1>5, <3>2, TakenThen DEF CacheInv
      <3> QED BY <1>4, <2>1, <2>3, <3>1, <3>3
    <2> QED BY <2>2, <2>3
  <1> QED BY <1>6, <1>12, <1>13, <1>14, SameFacts, SameLinks DEF TreeInv

(***************************************************************************)
(* Every step.                                                             *)
(***************************************************************************)
LEMMA TreeSame ==
  ASSUME CacheInv, TreeInv,
         UNCHANGED << disk, icache, files, pc, locals, puts, freeing, lost >>, AssertionsHold'
  PROVE  TreeInv'
  <1>1. /\ UNCHANGED << dinode, dir, icache, pc, call, rest, ip, dp, held, puts, freeing, lost >>
        /\ UNCHANGED << cwd, fd >>
    BY DEF disk, files, locals
  <1>2. SamePlaces
    BY <1>1 DEF SamePlaces, InumOf
  <1>3. ASSUME NEW q \in Proc
        PROVE  Steps(q)' /\ TypesRight(q)' /\ EntryRight(q)' /\ NewRight(q)' /\ FreeRight(q)'
    <2>1. Steps(q) /\ TypesRight(q) /\ EntryRight(q) /\ NewRight(q) /\ FreeRight(q)
      BY DEF TreeInv
    <2>2. Steps(q)' /\ TypesRight(q)'
      BY <1>1, <2>1 DEF Steps, TypesRight, InumOf
    <2>3. EntryRight(q)'
      BY <1>1, <2>1 DEF EntryRight, InumOf, LastName
    <2>4. NewRight(q)'
      BY <1>1, <2>1 DEF NewRight, InumOf, Has, DoneWith, Put1, Put2
    <2>5. FreeRight(q)'
      BY <1>1, <2>1 DEF FreeRight, InumOf, Put1
    <2> QED BY <2>2, <2>3, <2>4, <2>5
  <1>4. DirsRight' /\ UnnamedCached'
    BY <1>1 DEF TreeInv, DirsRight, UnnamedCached
  <1>5. LinksRight'
    <2>1. ASSUME NEW i \in Inum PROVE Entries(i)' = Entries(i) /\ Pending(i)' = Pending(i)
      BY <1>1, <1>2, EntriesSame, PendingSame DEF Named
    <2> QED BY <1>1, <2>1 DEF TreeInv, LinksRight
  <1> QED BY <1>3, <1>4, <1>5 DEF TreeInv

LEMMA TreePanics == ASSUME CacheInv, TreeInv, Panic("no_inodes") PROVE TreeInv'
  BY TreeSame DEF Panic, AssertionsHold

\* ilock: an inode that a name led to is there when it is locked.
LEMMA TypeThere ==
  ASSUME CacheInv, TreeInv, NEW p \in Proc, freeing[p] = "no", NEW s \in Slot, s = ip[p],
         Lockable(s)
  PROVE  Use(s)[s].type # "none" /\ Lock(s)[s].type # "none" /\ Has(p, s)
  <1>1. Has(p, s) /\ icache[s].ref > 0 /\ icache[s].inum \in Inum
    BY Known, Taken DEF Has, CacheInv
  <1>2. \A q \in Proc : ~DoneWith(q, s)
    BY NotFreed DEF Lockable
  <1>3. dinode[icache[s].inum].type # "none"
    BY SlotFacts DEF TreeInv, TypesRight, InumOf
  <1>4. Loaded(s).type # "none"
    <2>1. CASE icache[s].valid
      <3>1. Match(s)
        BY <1>1, <1>2, <2>1 DEF CacheInv, Copied
      <3>2. Loaded(s) = icache[s]
        BY <1>1, <2>1, LoadedFacts DEF CacheInv
      <3> QED BY <3>1, <3>2 DEF Match
    <2>2. CASE ~icache[s].valid
      BY <1>1, <1>3, <2>2, LoadedFacts DEF CacheInv
    <2> QED BY <2>1, <2>2
  <1> QED BY <1>1, <1>4, UseFacts, LockFacts DEF CacheInv

LEMMA TreeWalk == ASSUME CacheInv, TreeInv, NEW p \in Proc, Walk(p) PROVE TreeInv'
  <1>1. PICK s : s = ip[p]
    OBVIOUS
  <1>2. /\ Ready(p, "walk") /\ Lockable(s) /\ s \in Slot /\ Has(p, s)
        /\ Head(rest[p]) \in Name /\ Use(s)[s].type # "none"
    <2>1. Ready(p, "walk") /\ Lockable(s)
      BY <1>1 DEF Walk
    <2>2. s \in Slot
      BY <1>1, <2>1, AtSlots DEF Ready, HasIp, Waiting
    <2>3. Has(p, s) /\ Use(s)[s].type # "none"
      <3>1. freeing[p] = "no"
        BY <2>1, ReadyFacts
      <3> QED BY <1>1, <2>1, <2>2, <3>1, TypeThere
    <2>4. rest[p] # << >> /\ rest[p] \in Seq(Name)
      BY <2>1 DEF Ready, CacheInv, Placed, InPlace, TreeInv, Steps
    <2> QED BY <2>1, <2>2, <2>3, <2>4
  <1> DEFINE next == dir[icache[s].inum][Head(rest[p])]
             stops == AsParent(p) /\ Len(rest[p]) = 1
             fails == Use(s)[s].type # "T_DIR"
  <1>3. CASE Panic("no_inodes")
    BY <1>3, TreePanics
  <1>4. CASE /\ icache' = Use(s) /\ Put(p, << s >>) /\ Fail(p)
             /\ UNCHANGED << disk, files, freeing, ghosts >>
    BY <1>1, <1>2, <1>4, TreeWalkFails
  <1>5. CASE /\ ~fails /\ stops
             /\ icache' = Use(s) /\ Goto(p, "parent")
             /\ ip' = [ip EXCEPT ![p] = NoSlot] /\ dp' = [dp EXCEPT ![p] = s]
             /\ UNCHANGED << disk, files, call, rest, held, puts, freeing, ghosts >>
    BY <1>1, <1>2, <1>5, TreeWalkStops
  <1>6. CASE /\ ~fails /\ ~stops /\ next # None /\ IgetSlot(Use(s), next) # NoSlot
             /\ icache' = iget(Use(s), next)
             /\ ip' = [ip EXCEPT ![p] = IgetSlot(Use(s), next)]
             /\ rest' = [rest EXCEPT ![p] = Tail(@)]
             /\ Put(p, << s >>)
             /\ Goto(p, IF Len(rest[p]) = 1 THEN "found" ELSE "walk")
             /\ UNCHANGED << disk, files, call, dp, held, freeing, ghosts >>
    <2>1. next \in Inum /\ Pointed(next) /\ (AsParent(p) => Len(rest[p]) # 1)
      BY <1>2, <1>6, NameIn
    <2> HIDE DEF next
    <2> QED BY <1>1, <1>2, <1>6, <2>1, TreeWalkGoes
  <1>7. \/ Panic("no_inodes")
        \/ /\ icache' = Use(s) /\ Put(p, << s >>) /\ Fail(p)
           /\ UNCHANGED << disk, files, freeing, ghosts >>
        \/ /\ ~fails /\ stops
           /\ icache' = Use(s) /\ Goto(p, "parent")
           /\ ip' = [ip EXCEPT ![p] = NoSlot] /\ dp' = [dp EXCEPT ![p] = s]
           /\ UNCHANGED << disk, files, call, rest, held, puts, freeing, ghosts >>
        \/ /\ ~fails /\ ~stops /\ next # None /\ IgetSlot(Use(s), next) # NoSlot
           /\ icache' = iget(Use(s), next)
           /\ ip' = [ip EXCEPT ![p] = IgetSlot(Use(s), next)]
           /\ rest' = [rest EXCEPT ![p] = Tail(@)]
           /\ Put(p, << s >>)
           /\ Goto(p, IF Len(rest[p]) = 1 THEN "found" ELSE "walk")
           /\ UNCHANGED << disk, files, call, dp, held, freeing, ghosts >>
    BY <1>1, <1>2 DEF Walk
  <1> QED BY <1>3, <1>4, <1>5, <1>6, <1>7

LEMMA TreeFound == ASSUME CacheInv, TreeInv, NEW p \in Proc, Found(p) PROVE TreeInv'
  <1>1. PICK s : s = ip[p]
    OBVIOUS
  <1>2. Ready(p, "found") /\ Lockable(s) /\ s \in Slot /\ Use(s)[s].type # "none"
    <2>1. Ready(p, "found") /\ Lockable(s)
      BY <1>1 DEF Found
    <2>2. s \in Slot /\ freeing[p] = "no"
      BY <1>1, <2>1, AtSlots, ReadyFacts DEF Ready, HasIp, Waiting
    <2> QED BY <1>1, <2>1, <2>2, TypeThere
  <1>3. CASE /\ icache' = Use(s) /\ Return(p)
             /\ UNCHANGED << disk, freeing, ghosts >>
             /\ \/ Opens(p, s)
                \/ Put(p, << s >>) /\ UNCHANGED files
                \/ cwd' = [cwd EXCEPT ![p] = s] /\ Put(p, << cwd[p] >>) /\ UNCHANGED fd
    BY <1>1, <1>2, <1>3, TreeEndsWithIp
  <1>4. CASE /\ Use(s)[s].type \notin {"none", "T_DIR"} /\ call[p].op = "link"
             /\ Start(p, call[p].new, AddLink(Use(s), s, 1)) /\ iupdate(AddLink(Use(s), s, 1), s)
             /\ held' = [held EXCEPT ![p] = s]
             /\ UNCHANGED << dir, files, call, dp, puts, freeing, ghosts >>
    BY <1>1, <1>2, <1>4, TreeFoundLinks
  <1>5. \/ /\ icache' = Use(s) /\ Return(p)
           /\ UNCHANGED << disk, freeing, ghosts >>
           /\ \/ Opens(p, s)
              \/ Put(p, << s >>) /\ UNCHANGED files
              \/ cwd' = [cwd EXCEPT ![p] = s] /\ Put(p, << cwd[p] >>) /\ UNCHANGED fd
        \/ /\ Use(s)[s].type \notin {"none", "T_DIR"} /\ call[p].op = "link"
           /\ Start(p, call[p].new, AddLink(Use(s), s, 1)) /\ iupdate(AddLink(Use(s), s, 1), s)
           /\ held' = [held EXCEPT ![p] = s]
           /\ UNCHANGED << dir, files, call, dp, puts, freeing, ghosts >>
    BY <1>1, <1>2 DEF Found
  <1> QED BY <1>3, <1>4, <1>5

LEMMA TreeLinkEnter == ASSUME CacheInv, TreeInv, NEW p \in Proc, LinkEnter(p) PROVE TreeInv'
  <1>1. PICK s : s = dp[p]
    OBVIOUS
  <1>2. PICK h : h = held[p]
    OBVIOUS
  <1>3. /\ Ready(p, "parent") /\ call[p].op = "link" /\ Lockable(s) /\ icache' = Use(s)
        /\ UNCHANGED << dinode, files, freeing, ghosts >>
    BY <1>1 DEF LinkEnter
  <1>4. s \in Slot /\ h \in Slot /\ Has(p, s) /\ Has(p, h)
    BY <1>1, <1>2, <1>3, AtSlots DEF Ready, HasDp, Has
  <1>5. PICK d, j : d = InumOf(s) /\ j = InumOf(h)
    OBVIOUS
  <1>6. d \in Inum /\ j \in Inum /\ Use(s)[s].inum = d /\ Use(s)[h].inum = j
    <2>1. d \in Inum /\ j \in Inum
      BY <1>4, <1>5, Known DEF InumOf
    <2> QED BY <1>4, <1>5, <2>1, LoadedFacts, UseFacts DEF CacheInv, InumOf
  <1>7. CASE Put(p, << s >>) /\ Fail(p) /\ UNCHANGED dir
    BY <1>1, <1>3, <1>4, <1>7, TreeLinkFails DEF disk
  <1>8. CASE /\ Entry(p) = None /\ EnterName(d, LastName(p), j)
             /\ Put(p, << s, held[p] >>) /\ Return(p)
    <2>1. dir[d][LastName(p)] = None
      BY <1>1, <1>5, <1>8 DEF Entry, Dir, InumOf
    <2> QED BY <1>1, <1>2, <1>3, <1>4, <1>5, <1>6, <1>8, <2>1, TreeLinkEnters
  <1> QED BY <1>1, <1>2, <1>6, <1>7, <1>8 DEF LinkEnter

LEMMA TreeBad == ASSUME CacheInv, TreeInv, NEW p \in Proc, LinkBad(p) PROVE TreeInv'
  <1>1. PICK s : s = held[p]
    OBVIOUS
  <1>2. s \in Slot
    BY <1>1, AtSlots DEF LinkBad, Ready
  <1>3. /\ Ready(p, "bad") /\ Lockable(s)
        /\ icache' = AddLink(icache, s, TakesBack) /\ iupdate(AddLink(icache, s, TakesBack), s)
        /\ Put(p, << s >>) /\ Return(p)
        /\ UNCHANGED << dir, files, freeing, ghosts >>
    BY <1>1 DEF LinkBad
  <1> QED BY <1>1, <1>2, <1>3, TreeLinkBad

LEMMA TreeCreateLookup ==
  ASSUME CacheInv, TreeInv, NEW p \in Proc, CreateLookup(p) PROVE TreeInv'
  <1>1. PICK s : s = dp[p]
    OBVIOUS
  <1>2. PICK i : i = Entry(p)
    OBVIOUS
  <1>3. Ready(p, "parent") /\ Creates(p) /\ Lockable(s)
    BY <1>1 DEF CreateLookup
  <1>4. /\ s \in Slot /\ i \in Inum \cup {None} /\ call[p].op # "link"
        /\ i # None => Pointed(i)
    <2>1. pc[p] = "parent"
      BY <1>3 DEF Ready
    <2>2. i # None => Pointed(i)
      BY <1>2, <2>1, ParentFacts DEF Entry, Dir, InumOf, Pointed
    <2> QED BY <1>1, <1>2, <1>3, <2>1, <2>2, EntryIs DEF Creates
  <1>5. CASE Panic("no_inodes")
    BY <1>5, TreePanics
  <1>6. CASE /\ i # None /\ IgetSlot(Use(s), i) # NoSlot /\ icache' = iget(Use(s), i)
             /\ ip' = [ip EXCEPT ![p] = IgetSlot(Use(s), i)]
             /\ PutDp(p) /\ Goto(p, "exists")
             /\ UNCHANGED << disk, files, call, rest, held, freeing, ghosts >>
    BY <1>1, <1>3, <1>4, <1>6, TreeCreateFinds
  <1>7. CASE /\ i = None /\ icache' = Lock(s) /\ Goto(p, "ialloc")
             /\ UNCHANGED << disk, files, locals, puts, freeing, ghosts >>
    BY <1>1, <1>2, <1>3, <1>4, <1>7, TreeCreateLocks
  <1> QED BY <1>1, <1>2, <1>5, <1>6, <1>7 DEF CreateLookup

LEMMA TreeCreateExists ==
  ASSUME CacheInv, TreeInv, NEW p \in Proc, CreateExists(p) PROVE TreeInv'
  <1>1. PICK s : s = ip[p]
    OBVIOUS
  <1>2. Ready(p, "exists") /\ Lockable(s) /\ s \in Slot /\ Use(s)[s].type # "none"
    <2>1. Ready(p, "exists") /\ Lockable(s)
      BY <1>1 DEF CreateExists
    <2>2. s \in Slot /\ freeing[p] = "no"
      BY <1>1, <2>1, AtSlots, ReadyFacts DEF Ready, HasIp, Waiting
    <2> QED BY <1>1, <2>1, <2>2, TypeThere
  <1>3. /\ icache' = Use(s) /\ Return(p)
        /\ UNCHANGED << disk, freeing, ghosts >>
        /\ \/ Opens(p, s)
           \/ Put(p, << s >>) /\ UNCHANGED files
    BY <1>1, <1>2 DEF CreateExists
  <1> QED BY <1>1, <1>2, <1>3, TreeEndsWithIp

LEMMA TreeAllocates == ASSUME CacheInv, TreeInv, NEW p \in Proc, ialloc(p) PROVE TreeInv'
  <1> DEFINE free == {i \in Inum : dinode[i].type = "none"}
  <1>1. PICK i : i = Min(free)
    OBVIOUS
  <1>2. PICK ty : ty = IF call[p].op = "mkdir" THEN "T_DIR" ELSE "T_FILE"
    OBVIOUS
  <1>3. CASE Panic("no_inodes")
    BY <1>3, TreePanics
  <1>4. CASE /\ free # {} /\ IgetSlot(icache, i) # NoSlot
             /\ dinode' = [dinode EXCEPT ![i] = [type |-> ty, nlink |-> 0]]
             /\ icache' = iget(icache, i)
             /\ ip' = [ip EXCEPT ![p] = IgetSlot(icache, i)]
             /\ Goto(p, "inew")
             /\ UNCHANGED << dir, files, call, rest, dp, held, puts, freeing, ghosts >>
    <2>1. free \in SUBSET Nat
      BY SlotFacts
    <2>2. i \in free
      BY <1>1, <1>4, <2>1, MinInSet
    <2>3. i \in Inum /\ dinode[i].type = "none" /\ Ready(p, "ialloc")
      BY <2>2 DEF ialloc
    <2> HIDE DEF free
    <2> QED BY <1>2, <1>4, <2>3, TreeIalloc
  <1> QED BY <1>1, <1>2, <1>3, <1>4 DEF ialloc

LEMMA TreeInode == ASSUME CacheInv, TreeInv, NEW p \in Proc, CreateInode(p) PROVE TreeInv'
  <1>1. PICK s : s = ip[p]
    OBVIOUS
  <1>2. PICK c : c = SetLink(Lock(s), s)
    OBVIOUS
  <1>3. Ready(p, "inew") /\ Lockable(s) /\ s \in Slot /\ c[s].type # "none"
    <2>1. Ready(p, "inew") /\ Lockable(s)
      BY <1>1 DEF CreateInode
    <2>2. s \in Slot /\ freeing[p] = "no"
      BY <1>1, <2>1, AtSlots, ReadyFacts DEF Ready, HasIp, Waiting
    <2>3. Lock(s)[s].type # "none" /\ Has(p, s)
      BY <1>1, <2>1, <2>2, TypeThere
    <2>4. Lock(s) \in Caches
      BY <2>2, <2>3, Known, LockFacts DEF CacheInv
    <2> QED BY <1>2, <2>1, <2>2, <2>3, <2>4, SetLinkFacts
  <1>4. /\ icache' = c /\ iupdate(c, s)
        /\ Goto(p, IF call[p].op = "mkdir" THEN "dots" ELSE "enter")
        /\ UNCHANGED << dir, files, locals, puts, freeing, ghosts >>
    BY <1>1, <1>2, <1>3 DEF CreateInode, SetLink
  <1> QED BY <1>1, <1>2, <1>3, <1>4, TreeCreateInode

LEMMA TreeCreateDots ==
  ASSUME CacheInv, TreeInv, NEW p \in Proc,
         CreateCountsDotdot(p) \/ CreateDotdot(p) \/ CreateEnter(p)
  PROVE  TreeInv'
  <1>1. PICK s : s = dp[p]
    OBVIOUS
  <1>2. PICK k, d : k = InumOf(ip[p]) /\ d = InumOf(dp[p])
    OBVIOUS
  <1>3. pc[p] \in {"dots", "dotdot", "enter"}
    BY DEF CreateCountsDotdot, CreateDotdot, CreateEnter, Ready
  <1>4. s \in Slot /\ k \in Inum /\ d \in Inum /\ d = InumOf(s)
    <2>1. ip[p] \in Slot /\ Has(p, ip[p])
      BY <1>3, AtSlots DEF HasIp, IpLocked, Has
    <2> QED BY <1>1, <1>2, <1>3, <2>1, Known, EntryIs DEF InumOf
  <1>5. CASE CreateCountsDotdot(p)
    <2>1. PICK c : c = AddLink(icache, s, Dotdot)
      OBVIOUS
    <2>2. /\ Ready(p, "dots") /\ icache' = c /\ iupdate(c, s) /\ Goto(p, "dotdot")
          /\ UNCHANGED << dir, files, locals, puts, freeing, ghosts >>
      BY <1>1, <1>5, <2>1 DEF CreateCountsDotdot
    <2> QED BY <1>1, <1>4, <2>1, <2>2, TreeDots
  <1>6. CASE CreateDotdot(p)
    <2>1. /\ Ready(p, "dotdot") /\ EnterName(k, "..", d) /\ Goto(p, "enter")
          /\ UNCHANGED << dinode, icache, files, locals, puts, freeing, ghosts >>
      BY <1>2, <1>6 DEF CreateDotdot, InumOf
    <2> QED BY <1>2, <1>4, <2>1, TreeDotdot
  <1>7. CASE CreateEnter(p)
    <2>1. /\ Ready(p, "enter") /\ EnterName(d, LastName(p), k) /\ icache' = Unlock(s)
          /\ PutDp(p) /\ Goto(p, "made")
          /\ UNCHANGED << dinode, files, call, rest, ip, held, freeing, ghosts >>
      BY <1>1, <1>2, <1>7 DEF CreateEnter, InumOf
    <2> QED BY <1>1, <1>2, <1>4, <2>1, TreeEnter
  <1> QED BY <1>5, <1>6, <1>7

LEMMA TreeCreateDone ==
  ASSUME CacheInv, TreeInv, NEW p \in Proc, CreateDone(p) PROVE TreeInv'
  <1>1. PICK s : s = ip[p]
    OBVIOUS
  <1>2. /\ Ready(p, "made") /\ icache' = Unlock(s) /\ Return(p)
        /\ Opens(p, s) \/ (Put(p, << s >>) /\ UNCHANGED files)
        /\ UNCHANGED << disk, freeing, ghosts >>
    BY <1>1 DEF CreateDone
  <1>3. s \in Slot
    BY <1>1, <1>2, AtSlots DEF Ready, HasIp, IpLocked
  <1> QED BY <1>1, <1>2, <1>3, TreeMade

LEMMA TreeUnlinkLookup ==
  ASSUME CacheInv, TreeInv, NEW p \in Proc, UnlinkLookup(p) PROVE TreeInv'
  <1>1. PICK s : s = dp[p]
    OBVIOUS
  <1>2. PICK i : i = Entry(p)
    OBVIOUS
  <1>3. Ready(p, "parent") /\ call[p].op = "unlink" /\ Lockable(s)
    BY <1>1 DEF UnlinkLookup
  <1>4. /\ s \in Slot /\ i \in Inum \cup {None} /\ call[p].op # "link"
        /\ i # None => Pointed(i)
    <2>1. pc[p] = "parent"
      BY <1>3 DEF Ready
    <2>2. i # None => Pointed(i)
      BY <1>2, <2>1, ParentFacts DEF Entry, Dir, InumOf, Pointed
    <2> QED BY <1>1, <1>2, <1>3, <2>1, <2>2, EntryIs
  <1>5. CASE Panic("no_inodes")
    BY <1>5, TreePanics
  <1>6. CASE /\ icache' = Use(s) /\ Put(p, << s >>) /\ Return(p)
             /\ UNCHANGED << disk, files, freeing, ghosts >>
    BY <1>1, <1>3, <1>4, <1>6, TreeUnlinkMisses
  <1>7. CASE /\ i # None /\ IgetSlot(Lock(s), i) # NoSlot /\ icache' = iget(Lock(s), i)
             /\ ip' = [ip EXCEPT ![p] = IgetSlot(Lock(s), i)]
             /\ Goto(p, "victim")
             /\ UNCHANGED << disk, files, call, rest, dp, held, puts, freeing, ghosts >>
    BY <1>1, <1>2, <1>3, <1>4, <1>7, TreeUnlinkFinds
  <1> QED BY <1>1, <1>2, <1>5, <1>6, <1>7 DEF UnlinkLookup

\* unlink: the inode that it takes a name of has a link.
LEMMA TreeUnlinkErase ==
  ASSUME CacheInv, TreeInv, NEW p \in Proc, UnlinkErase(p) PROVE TreeInv'
  <1>1. PICK s : s = ip[p]
    OBVIOUS
  <1>2. PICK d : d = InumOf(dp[p])
    OBVIOUS
  <1>3. Ready(p, "victim") /\ Lockable(s)
    BY <1>1 DEF UnlinkErase
  <1>4. s \in Slot /\ d \in Inum /\ freeing[p] = "no" /\ pc[p] = "victim"
    BY <1>1, <1>2, <1>3, AtSlots, EntryIs, ReadyFacts DEF Ready, HasIp, Waiting, InumOf
  <1>5. Has(p, s) /\ Lock(s)[s].type # "none" /\ Use(s)[s].type # "none"
    BY <1>1, <1>3, <1>4, TypeThere
  <1>6. ~(Lock(s)[s].nlink < 1)
    <2>1. PICK v : v = InumOf(s)
      OBVIOUS
    <2>2. v \in Inum /\ Pointed(v)
      BY <1>1, <1>4, <2>1, VictimFacts
    <2>3. dinode[v].nlink >= 1 /\ dinode[v].nlink \in Int
      BY <2>2, PointedFacts, LinkFacts
    <2>4. dinode[v].nlink = Lock(s)[s].nlink
      BY <1>3, <1>4, <1>5, <2>1, LockTo DEF Lockable, InumOf
    <2> QED BY <2>3, <2>4
  <1>7. CASE /\ icache' = Use(s) /\ Put(p, << s >>) /\ Goto(p, "not_empty")
             /\ ip' = [ip EXCEPT ![p] = NoSlot]
             /\ UNCHANGED << disk, files, call, rest, dp, held, freeing, ghosts >>
    BY <1>1, <1>3, <1>4, <1>5, <1>7, TreeUnlinkRefuses
  <1>8. CASE /\ Lock(s)[s].type = "T_DIR" /\ EnterName(d, LastName(p), None)
             /\ icache' = Lock(s) /\ Goto(p, "undot") /\ UNCHANGED << dp, puts >>
             /\ UNCHANGED << dinode, files, call, rest, ip, held, freeing, ghosts >>
    BY <1>1, <1>2, <1>3, <1>4, <1>8, TreeUnlinkUndots
  <1>9. CASE /\ Lock(s)[s].type # "T_DIR" /\ EnterName(d, LastName(p), None)
             /\ icache' = Unlocked(Lock(s), dp[p]) /\ PutDp(p) /\ Goto(p, "erased")
             /\ UNCHANGED << dinode, files, call, rest, ip, held, freeing, ghosts >>
    BY <1>1, <1>2, <1>3, <1>4, <1>5, <1>9, TreeUnlinkErases
  <1>10. \/ /\ icache' = Use(s) /\ Put(p, << s >>) /\ Goto(p, "not_empty")
            /\ ip' = [ip EXCEPT ![p] = NoSlot]
            /\ UNCHANGED << disk, files, call, rest, dp, held, freeing, ghosts >>
         \/ /\ Lock(s)[s].type = "T_DIR" /\ EnterName(d, LastName(p), None)
            /\ icache' = Lock(s) /\ Goto(p, "undot") /\ UNCHANGED << dp, puts >>
            /\ UNCHANGED << dinode, files, call, rest, ip, held, freeing, ghosts >>
         \/ /\ Lock(s)[s].type # "T_DIR" /\ EnterName(d, LastName(p), None)
            /\ icache' = Unlocked(Lock(s), dp[p]) /\ PutDp(p) /\ Goto(p, "erased")
            /\ UNCHANGED << dinode, files, call, rest, ip, held, freeing, ghosts >>
    BY <1>1, <1>2, <1>5, <1>6 DEF UnlinkErase, Unlocked, InumOf
  <1> QED BY <1>7, <1>8, <1>9, <1>10

LEMMA TreeUnlinkEnd ==
  ASSUME CacheInv, TreeInv, NEW p \in Proc,
         UnlinkNotEmpty(p) \/ UnlinkCountsDotdot(p) \/ UnlinkDone(p)
  PROVE  TreeInv'
  <1>1. CASE UnlinkNotEmpty(p)
    <2>1. PICK s : s = dp[p]
      OBVIOUS
    <2>2. /\ Ready(p, "not_empty") /\ icache' = Unlock(s) /\ Put(p, << s >>) /\ Return(p)
          /\ UNCHANGED << disk, files, freeing, ghosts >>
      BY <1>1, <2>1 DEF UnlinkNotEmpty, AfterNotEmpty
    <2>3. s \in Slot
      BY <2>1, <2>2, AtSlots DEF Ready, HasDp, DpLocked
    <2> QED BY <2>1, <2>2, <2>3, TreeNotEmpty
  <1>2. CASE UnlinkCountsDotdot(p)
    <2>1. PICK s : s = dp[p]
      OBVIOUS
    <2>2. PICK c : c = AddLink(Unlock(s), s, -1)
      OBVIOUS
    <2>3. /\ Ready(p, "undot") /\ icache' = c /\ iupdate(c, s) /\ PutDp(p) /\ Goto(p, "erased")
          /\ UNCHANGED << dir, files, call, rest, ip, held, freeing, ghosts >>
      BY <1>2, <2>1, <2>2 DEF UnlinkCountsDotdot
    <2>4. s \in Slot
      BY <2>1, <2>3, AtSlots DEF Ready, HasDp, DpLocked
    <2> QED BY <2>1, <2>2, <2>3, <2>4, TreeUndot
  <1>3. CASE UnlinkDone(p)
    <2>1. PICK s : s = ip[p]
      OBVIOUS
    <2>2. PICK c : c = AddLink(Unlock(s), s, -1)
      OBVIOUS
    <2>3. /\ Ready(p, "erased") /\ icache' = c /\ iupdate(c, s) /\ Put(p, << s >>) /\ Return(p)
          /\ UNCHANGED << dir, files, freeing, ghosts >>
      BY <1>3, <2>1, <2>2 DEF UnlinkDone
    <2>4. s \in Slot
      BY <2>1, <2>3, AtSlots DEF Ready, HasIp, IpLocked
    <2> QED BY <2>1, <2>2, <2>3, <2>4, TreeUnlinkDone
  <1> QED BY <1>1, <1>2, <1>3

\* iput: nobody has locked an inode that is referred to only here.
LEMMA TreePuts == ASSUME CacheInv, TreeInv, NEW p \in Proc, iput(p) PROVE TreeInv'
  <1>1. PICK s : s = Head(puts[p])
    OBVIOUS
  <1>2. puts[p] # << >> /\ freeing[p] = "no" /\ s \in Slot
    <2>1. puts[p] # << >> /\ freeing[p] = "no"
      BY DEF iput
    <2> QED BY <1>1, <2>1, FirstFacts
  <1>3. FreesInode(icache[s]) => ~icache[s].busy
    BY <1>1, <1>2, LastReference DEF FreesInode
  <1>4. CASE /\ FreesInode(icache[s])
             /\ icache' = [icache EXCEPT ![s].busy = TRUE]
             /\ freeing' = [freeing EXCEPT ![p] = "itrunc"]
             /\ UNCHANGED << disk, files, pc, locals, puts, ghosts >>
    BY <1>1, <1>2, <1>4, TreeLocks
  <1>5. CASE /\ ~FreesInode(icache[s])
             /\ icache' = [icache EXCEPT ![s].ref = @ - 1] /\ Dropped(p)
             /\ UNCHANGED << disk, files, pc, locals, freeing, ghosts >>
    BY <1>1, <1>2, <1>5, TreeDrops
  <1> QED BY <1>1, <1>3, <1>4, <1>5 DEF iput

LEMMA TreeProgram ==
  ASSUME CacheInv, TreeInv, NoDotdot, NEW p \in Proc, Program(p) PROVE TreeInv'
  <1>1. CASE Close(p)
    BY <1>1, TreeClose
  <1>2. ASSUME NEW k \in Calls, Begin(p, k) PROVE TreeInv'
    <2>1. /\ Ready(p, "user") /\ call' = [call EXCEPT ![p] = k] /\ Start(p, k.path, icache)
          /\ UNCHANGED << disk, files, dp, held, puts, freeing, ghosts >>
      BY <1>2 DEF Begin
    <2> QED BY <2>1, TreeBegin
  <1> QED BY <1>1, <1>2 DEF Program

LEMMA TreeInvKept == ASSUME CacheInv, TreeInv, NoDotdot, [Next]_vars PROVE TreeInv'
  <1>1. CASE UNCHANGED vars
    <2>1. AssertionsHold'
      BY <1>1 DEF vars, ghosts, TreeInv, AssertionsHold
    <2> QED BY <1>1, <2>1, TreeSame DEF vars, ghosts
  <1>2. ASSUME NEW p \in Proc, IputDone(p) PROVE TreeInv'
    <2>1. puts[p] # << >>
      BY <1>2 DEF IputDone, CacheInv, Placed, PutsShort
    <2> QED BY <1>2, <2>1, FirstFacts, TreeFreed
  <1>3. ASSUME NEW p \in Proc, InCall(p) PROVE TreeInv'
    BY <1>2, <1>3, TreePuts, TreeTruncs, TreeWalk, TreeFound, TreeLinkEnter, TreeBad,
       TreeCreateLookup, TreeCreateExists, TreeAllocates, TreeInode, TreeCreateDots,
       TreeCreateDone, TreeUnlinkLookup, TreeUnlinkErase, TreeUnlinkEnd DEF InCall
  <1> QED BY <1>1, <1>3, TreeProgram DEF Next

(***************************************************************************)
(* The first state, and what the invariant says.                           *)
(***************************************************************************)
InitDisk ==
  /\ \A i \in Inum : /\ dinode[i].type = IF i = ROOTINO THEN "T_DIR" ELSE "none"
                     /\ dinode[i].nlink = IF i = ROOTINO THEN 1 ELSE 0
  /\ \A i \in Inum : i # ROOTINO => dir[i] = Empty
  /\ dir[ROOTINO][".."] = ROOTINO
  /\ \A d \in Inum, n \in Name : dir[d][n] = None

InitCalls ==
  \A q \in Proc : /\ pc[q] = "user" /\ rest[q] = << >> /\ ip[q] = NoSlot /\ dp[q] = NoSlot
                  /\ held[q] = NoSlot /\ puts[q] = << >> /\ freeing[q] = "no"

LEMMA InitIs == ASSUME Init PROVE InitDisk /\ InitCalls /\ panic = "none"
  <1>1. ROOTINO \in Inum /\ ".." \notin Name
    BY SlotFacts, InodesAssumption
  <1>2. /\ Empty[".."] = None
        /\ \A n \in Name : Empty[n] = None
        /\ [Empty EXCEPT ![".."] = ROOTINO][".."] = ROOTINO
        /\ \A n \in Name : [Empty EXCEPT ![".."] = ROOTINO][n] = None
    BY <1>1 DEF Empty
  <1>3. \A i \in Inum : dinode[i] = IF i = ROOTINO THEN [type |-> "T_DIR", nlink |-> 1] ELSE Free
    BY DEF Init
  <1>4. \A i \in Inum : dir[i] = IF i = ROOTINO THEN [Empty EXCEPT ![".."] = ROOTINO] ELSE Empty
    BY DEF Init
  <1>5. \A i \in Inum : /\ dinode[i].type = IF i = ROOTINO THEN "T_DIR" ELSE "none"
                        /\ dinode[i].nlink = IF i = ROOTINO THEN 1 ELSE 0
    BY <1>3 DEF Free
  <1>6. /\ \A i \in Inum : i # ROOTINO => dir[i] = Empty
        /\ dir[ROOTINO][".."] = ROOTINO
        /\ \A d \in Inum, n \in Name : dir[d][n] = None
    BY <1>1, <1>2, <1>4
  <1>7. InitDisk
    BY <1>5, <1>6 DEF InitDisk
  <1>8. InitCalls /\ panic = "none"
    BY DEF Init, InitCalls
  <1> QED BY <1>7, <1>8

LEMMA InitTreeInv == ASSUME Init PROVE TreeInv
  <1>1. InitDisk /\ InitCalls /\ panic = "none"
    BY InitIs
  <1>2. ROOTINO \in Inum /\ None \notin Inum /\ ROOTINO # None
    BY SlotFacts
  <1>3. ASSUME NEW q \in Proc
        PROVE  Steps(q) /\ TypesRight(q) /\ EntryRight(q) /\ NewRight(q) /\ FreeRight(q)
    <2>1. /\ pc[q] = "user" /\ rest[q] = << >> /\ ip[q] = NoSlot /\ dp[q] = NoSlot
          /\ held[q] = NoSlot /\ puts[q] = << >> /\ freeing[q] = "no"
      BY <1>1 DEF InitCalls
    <2>2. Steps(q)
      BY <2>1 DEF Steps
    <2>3. TypesRight(q) /\ EntryRight(q) /\ NewRight(q)
      BY <2>1 DEF TypesRight, EntryRight, NewRight, Making
    <2>4. FreeRight(q)
      BY <2>1 DEF FreeRight
    <2> QED BY <2>2, <2>3, <2>4
  <1>4. DirsRight
    <2>1. \A i \in Inum : dinode[i].type # "T_DIR" => dir[i] = Empty
      BY <1>1 DEF InitDisk
    <2>2. \A i \in Inum : dinode[i].type = "none" => dinode[i].nlink = 0
      BY <1>1 DEF InitDisk
    <2>3. dinode[ROOTINO].type = "T_DIR" /\ dir[ROOTINO][".."] = ROOTINO
      BY <1>1, <1>2 DEF InitDisk
    <2>4. \A d \in Inum, n \in Name : dir[d][n] = None
      BY <1>1 DEF InitDisk
    <2> QED BY <2>1, <2>2, <2>3, <2>4 DEF DirsRight
  <1>5. LinksRight
    <2>1. ASSUME NEW i \in Inum PROVE dinode[i].nlink = Entries(i) + Pending(i)
      <3>1. \A d \in Inum, n \in Name : dir[d][n] # i
        BY <1>1, <1>2 DEF InitDisk
      <3>2. \A d \in Inum : Named(d) <=> d = ROOTINO
        BY <1>1, <1>2 DEF InitDisk, Named
      <3>3. NamesOf(i) = {}
        BY <3>1 DEF NamesOf
      <3>4. DotdotsOf(i) = IF i = ROOTINO THEN {ROOTINO} ELSE {}
        BY <1>1, <1>2, <3>2 DEF DotdotsOf, InitDisk
      <3>5. Entries(i) = IF i = ROOTINO THEN 1 ELSE 0
        <4>1. Cardinality(NamesOf(i)) = 0
          BY <3>3, FS_EmptySet
        <4>2. i = ROOTINO => Cardinality(DotdotsOf(i)) = 1
          BY <3>4, FS_Singleton
        <4>3. i # ROOTINO => Cardinality(DotdotsOf(i)) = 0
          BY <3>4, FS_EmptySet
        <4>4. Entries(i) = Cardinality(NamesOf(i)) + Cardinality(DotdotsOf(i))
          BY EntriesSum
        <4> QED BY <4>1, <4>2, <4>3, <4>4
      <3>6. PendHeld(i) = {} /\ PendIp(i) = {} /\ PendDp(i) = {}
        BY <1>1 DEF InitCalls, PendHeld, PendIp, PendDp
      <3>7. Pending(i) = 0
        BY <3>6, FS_EmptySet DEF Pending
      <3>8. dinode[i].nlink = IF i = ROOTINO THEN 1 ELSE 0
        BY <1>1 DEF InitDisk
      <3> QED BY <3>5, <3>7, <3>8
    <2>2. ASSUME NEW i \in Inum PROVE dinode[i].nlink \in Int
      BY <1>1 DEF InitDisk
    <2> QED BY <2>1, <2>2 DEF LinksRight
  <1>6. UnnamedCached
    <2>1. \A i \in Inum : dinode[i].type # "none" => dinode[i].nlink # 0
      BY <1>1 DEF InitDisk
    <2> QED BY <2>1 DEF UnnamedCached
  <1>7. AssertionsHold
    BY <1>1 DEF AssertionsHold
  <1> QED BY <1>3, <1>4, <1>5, <1>6, <1>7 DEF TreeInv

\* Between two calls nobody has a link that it has still to name.
LEMMA IdleIsSettled ==
  ASSUME CacheInv, Idle, NEW i
  PROVE  Pending(i) = 0 /\ \A q \in Proc : pc[q] # "inew"
  <1>1. \A q \in Proc : pc[q] = "user" /\ held[q] = NoSlot
    BY DEF Idle, CacheInv, Placed, InPlace
  <1>2. PendHeld(i) = {} /\ PendIp(i) = {} /\ PendDp(i) = {}
    BY <1>1 DEF PendHeld, PendIp, PendDp
  <1>3. Pending(i) = 0
    BY <1>2, FS_EmptySet DEF Pending
  <1> QED BY <1>1, <1>3

\* A link to an inode that has no name is a "..", and that of a directory in it.
LEMMA UnnamedKeepsChild ==
  ASSUME TreeInv, NEW i \in Inum, Entries(i) # 0, ~Named(i)
  PROVE  KeepsChild(i)
  <1>1. /\ Entries(i) = Cardinality(NamesOf(i)) + Cardinality(DotdotsOf(i))
        /\ Cardinality(NamesOf(i)) \in Nat /\ Cardinality(DotdotsOf(i)) \in Nat
    BY EntriesSum
  <1>2. Cardinality(NamesOf(i)) = 0
    <2>1. NamesOf(i) = {}
      BY DEF NamesOf, Named
    <2> QED BY <2>1, FS_EmptySet
  <1>3. DotdotsOf(i) # {}
    BY <1>1, <1>2, FS_EmptySet
  <1>4. PICK d \in Inum : Named(d) /\ dir[d][".."] = i
    BY <1>3 DEF DotdotsOf
  <1>5. DirsRight /\ i # ROOTINO /\ i # None
    BY SlotFacts DEF TreeInv, Named
  <1>6. d # ROOTINO
    BY <1>4, <1>5 DEF DirsRight
  <1>7. PICK e \in Inum, n \in Name : dir[e][n] = d
    BY <1>4, <1>6 DEF Named
  <1>8. dinode[d].type = "T_DIR"
    <2>1. Empty[".."] = None
      BY DEF Empty
    <2> QED BY <1>4, <1>5, <2>1 DEF DirsRight
  <1>9. d # None
    BY SlotFacts
  <1>10. dir[d][".."] = e
    BY <1>5, <1>7, <1>8, <1>9 DEF DirsRight
  <1> QED BY <1>4, <1>7, <1>9, <1>10 DEF KeepsChild

LEMMA LinksAreNamesHolds == ASSUME CacheInv, TreeInv PROVE LinksAreNames
  <1>1. ASSUME NEW i \in Inum
        PROVE  /\ dinode[i].nlink >= Entries(i)
               /\ Entries(i) > 0 => dinode[i].type # "none"
    <2>1. /\ Entries(i) \in Nat /\ Pending(i) \in Nat /\ dinode[i].nlink \in Int
          /\ dinode[i].nlink >= Entries(i) + Pending(i)
      BY LinkFacts
    <2>2. dinode[i].type = "none" => dinode[i].nlink = 0
      BY DEF TreeInv, DirsRight
    <2> QED BY <2>1, <2>2
  <1>2. ASSUME Idle, NEW i \in Inum \ lost, dinode[i].type # "none"
        PROVE  dinode[i].nlink = Entries(i) /\ (Named(i) \/ Cached(i) \/ KeepsChild(i))
    <2>1. dinode[i].nlink = Entries(i) + Pending(i)
      BY <1>2 DEF TreeInv, LinksRight
    <2>2. Pending(i) = 0
      BY <1>2, IdleIsSettled
    <2>3. Entries(i) \in Nat
      BY EntriesFacts
    <2>4. dinode[i].nlink = 0 => Cached(i)
      BY <1>2 DEF TreeInv, UnnamedCached, Cached
    <2>5. Entries(i) # 0 => Named(i) \/ KeepsChild(i)
      BY UnnamedKeepsChild
    <2> QED BY <2>1, <2>2, <2>3, <2>4, <2>5
  <1> QED BY <1>1, <1>2 DEF LinksAreNames, DiskIsSafe

\* For any finite number of processes and names and any number of slots and inodes, as
\* long as no path has a "..": what calls have found, counted and locked is still so, all
\* directories are a tree, and the links of an inode are its names and those that a call
\* is about to enter or has just erased (fs.c, sysfile.c).
THEOREM TreeInvHolds == ASSUME NoDotdot PROVE Spec => []TreeInv
  <1>1. Init => CacheInv /\ TreeInv
    BY InitCacheInv, InitTreeInv
  <1>2. CacheInv /\ TreeInv /\ [Next]_vars => (CacheInv /\ TreeInv)'
    BY CacheInvKept, TreeInvKept
  <1> QED BY <1>1, <1>2, PTL DEF Spec

\* The kernel stops only when it has run out of inodes: iput never finds its last reference
\* BUSY, ilock never an inode without a type, unlink never one without a link, as long as
\* no path has a ".." (the panics of fs.c and sysfile.c).
THEOREM AssertionsStayTrue == ASSUME NoDotdot PROVE Spec => []AssertionsHold
  <1>1. TreeInv => AssertionsHold
    BY DEF TreeInv
  <1> QED BY <1>1, TreeInvHolds, PTL

\* Whenever the machine stops, a name leads to an inode in use that has a link for it; and
\* when all calls have returned, links are counted exactly and an inode without a name is
\* in use by somebody or a removed directory that a child's ".." still refers to, but for
\* the files that went with a removed directory (create, sys_link, sys_unlink, iput).
THEOREM LinksStayNames == ASSUME NoDotdot PROVE Spec => []LinksAreNames
  <1>1. CacheInv /\ TreeInv => LinksAreNames
    BY LinksAreNamesHolds
  <1> QED BY <1>1, CacheInvHolds, TreeInvHolds, PTL
=============================================================================
