------------------------------- MODULE Inodes -------------------------------
(***************************************************************************)
(* kernel/fs.c and kernel/sysfile.c: inodes, the cache of inodes in use,   *)
(* directories, path names, and the system calls that change the tree.     *)
(*                                                                         *)
(* icache.lock makes iget, idup, iunlock and iput (but for itrunc) one     *)
(* step each; I_BUSY, taken by ilock and given back by iunlock, protects   *)
(* the inode and the contents of a directory for longer.  A step here is   *)
(* what a process does between two of these, or up to the next write to    *)
(* the disk.  There is no log: a crash leaves dinode and dir as they are.  *)
(***************************************************************************)
EXTENDS Integers, Sequences, FiniteSets, SequencesExt

CONSTANTS Proc,      \* processes
          Name,      \* path elements, besides ".."
          NINODES,   \* inodes on the disk, the first is the root directory
          NINODE,    \* slots of the cache
          Calls,     \* bound: the calls that programs make, with their paths
          NoSlot

ASSUME InodesAssumption ==
  /\ IsFiniteSet(Proc) /\ IsFiniteSet(Name)
  /\ NINODES \in Nat \ {0} /\ NINODE \in Nat \ {0}
  /\ NoSlot \notin 1 .. NINODE
  /\ ".." \notin Name
  /\ \A c \in Calls :
       /\ c.op \in {"open", "create", "mkdir", "link", "unlink", "chdir"}
       /\ c.path \in Seq(Name \cup {".."}) \ {<< >>}
       /\ c.op = "link" => c.new \in Seq(Name) \ {<< >>}

Inum == 1 .. NINODES
Slot == 1 .. NINODE
ROOTINO == 1

VARIABLES
  dinode,  \* the inodes on the disk: type and nlink
  dir,     \* the contents of directories: the inode of each name, or 0
  icache,  \* struct inode: inum, ref, I_BUSY, I_VALID, type, nlink
  cwd, fd, \* each process's current directory, and its open file
  pc, call,
  rest,    \* the path that namex has still to walk
  ip, dp,  \* the inode that a call has arrived at, and its parent
  held,    \* the inode that link holds while it walks the second path
  puts,    \* the inodes that a process will iput before it goes on
  freeing, \* is it inside the itrunc of the first of them, or behind it?
  panic,   \* has the kernel stopped?
  lost     \* history: inodes whose names went with a removed directory

disk   == << dinode, dir >>
locals == << call, rest, ip, dp, held >>
files  == << cwd, fd >>
ghosts == << panic, lost >>
vars == << disk, icache, files, pc, locals, puts, freeing, ghosts >>

None == 0
Empty == [n \in Name \cup {".."} |-> None]
Free == [type |-> "none", nlink |-> 0]
NoCall == [op |-> "none", path |-> << >>, new |-> << >>]
Unused == [inum |-> None, ref |-> 0, busy |-> FALSE, valid |-> FALSE,
           type |-> "none", nlink |-> 0]

\* mkfs makes the root directory; every process starts there.
Init ==
  /\ dinode = [i \in Inum |-> IF i = ROOTINO THEN [type |-> "T_DIR", nlink |-> 1]
                                             ELSE Free]
  /\ dir = [i \in Inum |-> IF i = ROOTINO THEN [Empty EXCEPT ![".."] = ROOTINO]
                                          ELSE Empty]
  /\ icache = [s \in Slot |-> IF s = 1 THEN [Unused EXCEPT !.inum = ROOTINO,
                                                           !.ref = Cardinality(Proc)]
                                       ELSE Unused]
  /\ cwd = [p \in Proc |-> 1] /\ fd = [p \in Proc |-> NoSlot]
  /\ pc = [p \in Proc |-> "user"] /\ call = [p \in Proc |-> NoCall]
  /\ rest = [p \in Proc |-> << >>]
  /\ ip = [p \in Proc |-> NoSlot] /\ dp = [p \in Proc |-> NoSlot]
  /\ held = [p \in Proc |-> NoSlot]
  /\ puts = [p \in Proc |-> << >>] /\ freeing = [p \in Proc |-> "no"]
  /\ panic = "none" /\ lost = {}

---------------------------------------------------------------------------
(* The cache. *)

\* iget: the slot of inode i, or an empty one; there may be none.
IgetSlot(c, i) ==
  LET mine  == {s \in Slot : c[s].ref > 0 /\ c[s].inum = i}
      empty == {s \in Slot : c[s].ref = 0}
  IN IF mine # {} THEN CHOOSE s \in mine : TRUE
     ELSE IF empty # {} THEN Min(empty) ELSE NoSlot

iget(c, i) ==
  LET s == IgetSlot(c, i) IN
  IF c[s].ref > 0 THEN [c EXCEPT ![s].ref = @ + 1]
  ELSE [c EXCEPT ![s] = [Unused EXCEPT !.inum = i, !.ref = 1]]

\* ilock waits for this.
Lockable(s) == ~icache[s].busy

\* What ilock makes of slot s: it reads the inode unless it is VALID.
Loaded(s) ==
  IF icache[s].valid THEN icache[s]
  ELSE [icache[s] EXCEPT !.valid = TRUE,
          !.type = dinode[icache[s].inum].type, !.nlink = dinode[icache[s].inum].nlink]

Lock(s)   == [icache EXCEPT ![s] = [Loaded(s) EXCEPT !.busy = TRUE]]
Unlock(s) == [icache EXCEPT ![s].busy = FALSE]
Use(s)    == [icache EXCEPT ![s] = Loaded(s)]         \* ilock ... iunlock

\* iupdate: the inode in slot s of cache c goes to the disk.
iupdate(c, s) ==
  dinode' = [dinode EXCEPT ![c[s].inum] = [type |-> c[s].type, nlink |-> c[s].nlink]]

AddLink(c, s, n) == [c EXCEPT ![s].nlink = @ + n]

---------------------------------------------------------------------------
(* The steps of a process in a call. *)

Ready(p, l) == panic = "none" /\ puts[p] = << >> /\ pc[p] = l

Goto(p, l)   == pc' = [pc EXCEPT ![p] = l]
Put(p, s)    == puts' = [puts EXCEPT ![p] = s]
Panic(why)   == /\ panic' = why
                /\ UNCHANGED << disk, icache, files, pc, locals, puts, freeing, lost >>
PutDp(p)     == Put(p, << dp[p] >>) /\ dp' = [dp EXCEPT ![p] = NoSlot]
Forget(p)    == /\ rest' = [rest EXCEPT ![p] = << >>]
                /\ ip' = [ip EXCEPT ![p] = NoSlot]
                /\ dp' = [dp EXCEPT ![p] = NoSlot]
Return(p)    == /\ Goto(p, "user") /\ Forget(p)
                /\ call' = [call EXCEPT ![p] = NoCall]
                /\ held' = [held EXCEPT ![p] = NoSlot]

Dir(s) == dir[icache[s].inum]
LastName(p) == Last(rest[p])
Entry(p) == Dir(dp[p])[LastName(p)]

\* iput(s) for the first of puts.  The last reference to an inode without
\* names frees the inode: the slot is BUSY meanwhile, icache.lock is not held.
FreesInode_InUse(c) == c.valid /\ c.nlink = 0    \* mutated: whoever refers to it
FreesInode(c) == c.ref = 1 /\ c.valid /\ c.nlink = 0

Dropped(p) == puts' = [puts EXCEPT ![p] = Tail(@)]

iput(p) ==
  /\ panic = "none" /\ puts[p] # << >> /\ freeing[p] = "no"
  /\ LET s == Head(puts[p]) IN
     IF FreesInode(icache[s])
     THEN IF icache[s].busy THEN Panic("iput_busy")
          ELSE /\ icache' = [icache EXCEPT ![s].busy = TRUE]
               /\ freeing' = [freeing EXCEPT ![p] = "itrunc"]
               /\ UNCHANGED << disk, files, pc, locals, puts, ghosts >>
     ELSE /\ icache' = [icache EXCEPT ![s].ref = @ - 1]
          /\ Dropped(p)
          /\ UNCHANGED << disk, files, pc, locals, freeing, ghosts >>

\* itrunc, type = 0 and iupdate.
IputTrunc(p) ==
  /\ panic = "none" /\ freeing[p] = "itrunc"
  /\ LET s == Head(puts[p])
         c == [icache EXCEPT ![s].type = "none"] IN
     /\ dir' = [dir EXCEPT ![c[s].inum] = Empty]
     /\ lost' = lost \cup {i \in Inum : \E n \in Name : dir[c[s].inum][n] = i}
     /\ icache' = c /\ iupdate(c, s)
  /\ freeing' = [freeing EXCEPT ![p] = "done"]
  /\ UNCHANGED << files, pc, locals, puts, panic >>

KeepsValid_Yes(c) == c.valid                  \* mutated: only BUSY is cleared
KeepsValid(c) == FALSE

IputDone(p) ==
  /\ panic = "none" /\ freeing[p] = "done"
  /\ LET s == Head(puts[p]) IN
     icache' = [icache EXCEPT ![s] = [icache[s] EXCEPT !.busy = FALSE, !.ref = @ - 1,
                                                       !.valid = KeepsValid(icache[s])]]
  /\ freeing' = [freeing EXCEPT ![p] = "no"]
  /\ Dropped(p)
  /\ UNCHANGED << disk, files, pc, locals, ghosts >>

---------------------------------------------------------------------------
(* namex *)

\* namex starts at the current directory (idup).
Start(p, path, c) ==
  /\ icache' = [c EXCEPT ![cwd[p]].ref = @ + 1]
  /\ ip' = [ip EXCEPT ![p] = cwd[p]]
  /\ rest' = [rest EXCEPT ![p] = path]
  /\ Goto(p, "walk")

\* (Bound: no more calls when an inode has been lost.)
Begin(p, c) ==
  /\ Ready(p, "user") /\ lost = {}
  /\ call' = [call EXCEPT ![p] = c]
  /\ Start(p, c.path, icache)
  /\ UNCHANGED << disk, files, dp, held, puts, freeing, ghosts >>

\* sys_close, fileclose
Close(p) ==
  /\ Ready(p, "user") /\ fd[p] # NoSlot
  /\ Put(p, << fd[p] >>)
  /\ fd' = [fd EXCEPT ![p] = NoSlot]
  /\ UNCHANGED << disk, icache, cwd, pc, locals, freeing, ghosts >>

\* The call is after the parent of its path: nameiparent.
AsParent(p) == call[p].op \in {"create", "mkdir", "unlink"} \/ held[p] # NoSlot

\* A call that fails while link holds its first inode must undo its nlink++.
Fail(p) == IF held[p] # NoSlot
           THEN /\ Goto(p, "bad") /\ Forget(p) /\ UNCHANGED << call, held >>
           ELSE Return(p)

\* One round of namex's loop, the iunlock included.
Walk(p) ==
  LET s == ip[p]  c == Use(s)  name == Head(rest[p])
      next == dir[icache[s].inum][name]
      fails == c[s].type # "T_DIR"
      stops == AsParent(p) /\ Len(rest[p]) = 1
  IN
  /\ Ready(p, "walk") /\ Lockable(s)
  /\ \/ /\ c[s].type = "none" /\ Panic("ilock_no_type")
     \/ /\ c[s].type # "none" /\ (fails \/ (~stops /\ next = None))
        /\ icache' = c /\ Put(p, << s >>) /\ Fail(p)
        /\ UNCHANGED << disk, files, freeing, ghosts >>
     \/ /\ ~fails /\ stops
        /\ icache' = c /\ Goto(p, "parent")
        /\ ip' = [ip EXCEPT ![p] = NoSlot] /\ dp' = [dp EXCEPT ![p] = s]
        /\ UNCHANGED << disk, files, call, rest, held, puts, freeing, ghosts >>
     \/ /\ ~fails /\ ~stops /\ next # None
        /\ IF IgetSlot(c, next) = NoSlot THEN Panic("no_inodes")
           ELSE /\ icache' = iget(c, next)
                /\ ip' = [ip EXCEPT ![p] = IgetSlot(c, next)]
                /\ rest' = [rest EXCEPT ![p] = Tail(@)]
                /\ Put(p, << s >>)
                /\ Goto(p, IF Len(rest[p]) = 1 THEN "found" ELSE "walk")
                /\ UNCHANGED << disk, files, call, dp, held, freeing, ghosts >>

---------------------------------------------------------------------------
(* open without O_CREATE, chdir, and the first half of link: namei has found *)
(* the inode, which is locked, looked at, and unlocked.                      *)

\* filealloc and fdalloc; fails when the process has a file open (bound).
Opens(p, s) == IF fd[p] = NoSlot
               THEN fd' = [fd EXCEPT ![p] = s] /\ UNCHANGED << cwd, puts >>
               ELSE Put(p, << s >>) /\ UNCHANGED files

Found(p) ==
  LET s == ip[p]  c == Use(s)  isdir == c[s].type = "T_DIR" IN
  /\ Ready(p, "found") /\ Lockable(s)
  /\ IF c[s].type = "none" THEN Panic("ilock_no_type")
     ELSE
     \/ /\ call[p].op = "open"
        /\ icache' = c
        /\ \/ Opens(p, s)
           \/ isdir /\ Put(p, << s >>) /\ UNCHANGED files   \* not O_RDONLY
        /\ Return(p) /\ UNCHANGED << disk, freeing, ghosts >>
     \/ /\ call[p].op = "chdir" /\ isdir
        /\ icache' = c
        /\ cwd' = [cwd EXCEPT ![p] = s] /\ Put(p, << cwd[p] >>)
        /\ Return(p) /\ UNCHANGED << disk, fd, freeing, ghosts >>
     \/ /\ call[p].op = IF isdir THEN "link" ELSE "chdir"
        /\ icache' = c
        /\ Put(p, << s >>)
        /\ Return(p) /\ UNCHANGED << disk, files, freeing, ghosts >>
     \/ /\ call[p].op = "link" /\ ~isdir
        /\ LET d == AddLink(c, s, 1) IN Start(p, call[p].new, d) /\ iupdate(d, s)
        /\ held' = [held EXCEPT ![p] = s]
        /\ UNCHANGED << dir, files, call, dp, puts, freeing, ghosts >>

---------------------------------------------------------------------------
(* The second half of link. *)

\* dirlink.  (The entry that it finds is referenced only inside the step.)
EnterName(d, name, i) == dir' = [dir EXCEPT ![d][name] = i]

LinkEnter(p) ==
  LET s == dp[p]  c == Use(s) IN
  /\ Ready(p, "parent") /\ call[p].op = "link" /\ Lockable(s)
  /\ icache' = c
  /\ IF Entry(p) # None
     THEN Put(p, << s >>) /\ Fail(p) /\ UNCHANGED dir
     ELSE /\ EnterName(c[s].inum, LastName(p), c[held[p]].inum)
          /\ Put(p, << s, held[p] >>) /\ Return(p)
  /\ UNCHANGED << dinode, files, freeing, ghosts >>

TakesBack_Not == 0                         \* mutated: `bad' forgets nlink--
TakesBack == -1

LinkBad(p) ==
  LET s == held[p]  c == AddLink(icache, s, TakesBack) IN
  /\ Ready(p, "bad") /\ Lockable(s)
  /\ icache' = c /\ iupdate(c, s)
  /\ Put(p, << s >>) /\ Return(p)
  /\ UNCHANGED << dir, files, freeing, ghosts >>

---------------------------------------------------------------------------
(* create: open with O_CREATE, and mkdir.                                   *)

Creates(p) == call[p].op \in {"create", "mkdir"}

\* The parent is locked; the name is there, or not.
CreateLookup(p) ==
  LET s == dp[p]  c == Use(s) IN
  /\ Ready(p, "parent") /\ Creates(p) /\ Lockable(s)
  /\ \/ /\ Entry(p) # None
        /\ IF IgetSlot(c, Entry(p)) = NoSlot THEN Panic("no_inodes")
           ELSE /\ icache' = iget(c, Entry(p))
                /\ ip' = [ip EXCEPT ![p] = IgetSlot(c, Entry(p))]
                /\ PutDp(p) /\ Goto(p, "exists")
                /\ UNCHANGED << disk, files, call, rest, held, freeing, ghosts >>
     \/ /\ Entry(p) = None
        /\ icache' = Lock(s) /\ Goto(p, "ialloc")
        /\ UNCHANGED << disk, files, locals, puts, freeing, ghosts >>

CreateExists(p) ==
  LET s == ip[p]  c == Use(s) IN
  /\ Ready(p, "exists") /\ Lockable(s)
  /\ IF c[s].type = "none" THEN Panic("ilock_no_type")
     ELSE /\ icache' = c
          /\ IF call[p].op = "create" /\ c[s].type = "T_FILE"
             THEN Opens(p, s) ELSE Put(p, << s >>) /\ UNCHANGED files
          /\ Return(p)
          /\ UNCHANGED << disk, freeing, ghosts >>

\* ialloc: the first free inode, whatever slots of the cache are called so.
ialloc(p) ==
  LET free == {i \in Inum : dinode[i].type = "none"}  i == Min(free) IN
  /\ Ready(p, "ialloc")
  /\ IF free = {} \/ IgetSlot(icache, i) = NoSlot THEN Panic("no_inodes")
     ELSE /\ dinode' = [dinode EXCEPT ![i] =
               [type |-> IF call[p].op = "mkdir" THEN "T_DIR" ELSE "T_FILE", nlink |-> 0]]
          /\ icache' = iget(icache, i)
          /\ ip' = [ip EXCEPT ![p] = IgetSlot(icache, i)]
          /\ Goto(p, "inew")
          /\ UNCHANGED << dir, files, call, rest, dp, held, puts, freeing, ghosts >>

CreateInode(p) ==
  LET s == ip[p]  c == [Lock(s) EXCEPT ![s].nlink = 1] IN
  /\ Ready(p, "inew") /\ Lockable(s)
  /\ IF c[s].type = "none" THEN Panic("ilock_no_type")
     ELSE /\ icache' = c /\ iupdate(c, s)
          /\ Goto(p, IF call[p].op = "mkdir" THEN "dots" ELSE "enter")
          /\ UNCHANGED << dir, files, locals, puts, freeing, ghosts >>

Dotdot_Not == 0                            \* mutated: ".." is not counted
Dotdot == 1

CreateCountsDotdot(p) ==
  LET c == AddLink(icache, dp[p], Dotdot) IN
  /\ Ready(p, "dots")
  /\ icache' = c /\ iupdate(c, dp[p])
  /\ Goto(p, "dotdot")
  /\ UNCHANGED << dir, files, locals, puts, freeing, ghosts >>

CreateDotdot(p) ==
  /\ Ready(p, "dotdot")
  /\ EnterName(icache[ip[p]].inum, "..", icache[dp[p]].inum)
  /\ Goto(p, "enter")
  /\ UNCHANGED << dinode, icache, files, locals, puts, freeing, ghosts >>

CreateEnter(p) ==
  /\ Ready(p, "enter")
  /\ EnterName(icache[dp[p]].inum, LastName(p), icache[ip[p]].inum)
  /\ icache' = Unlock(dp[p]) /\ PutDp(p) /\ Goto(p, "made")
  /\ UNCHANGED << dinode, files, call, rest, ip, held, freeing, ghosts >>

CreateDone(p) ==
  /\ Ready(p, "made")
  /\ icache' = Unlock(ip[p])
  /\ IF call[p].op = "create" THEN Opens(p, ip[p])
                              ELSE Put(p, << ip[p] >>) /\ UNCHANGED files
  /\ Return(p)
  /\ UNCHANGED << disk, freeing, ghosts >>

---------------------------------------------------------------------------
(* unlink *)

\* The parent is locked, and stays locked while the inode's lock is waited for.
UnlinkLookup(p) ==
  LET s == dp[p]  c == Lock(s) IN
  /\ Ready(p, "parent") /\ call[p].op = "unlink" /\ Lockable(s)
  /\ IF LastName(p) = ".." \/ Entry(p) = None
     THEN /\ icache' = Use(s) /\ Put(p, << s >>) /\ Return(p)
          /\ UNCHANGED << disk, files, freeing, ghosts >>
     ELSE IF IgetSlot(c, Entry(p)) = NoSlot THEN Panic("no_inodes")
     ELSE /\ icache' = iget(c, Entry(p))
          /\ ip' = [ip EXCEPT ![p] = IgetSlot(c, Entry(p))]
          /\ Goto(p, "victim")
          /\ UNCHANGED << disk, files, call, rest, dp, held, puts, freeing, ghosts >>

IsDirEmpty(d) == \A n \in Name : d[n] = None

\* The inode is locked as well; its entry is erased on the disk.
UnlinkErase(p) ==
  LET s == ip[p]  c == Lock(s)  isdir == c[s].type = "T_DIR" IN
  /\ Ready(p, "victim") /\ Lockable(s)
  /\ IF c[s].type = "none" \/ c[s].nlink < 1
     THEN Panic(IF c[s].type = "none" THEN "ilock_no_type" ELSE "unlink_nlink")
     ELSE IF isdir /\ ~IsDirEmpty(Dir(s))
     THEN /\ icache' = Use(s) /\ Put(p, << s >>) /\ Goto(p, "not_empty")
          /\ ip' = [ip EXCEPT ![p] = NoSlot]
          /\ UNCHANGED << disk, files, call, rest, dp, held, freeing, ghosts >>
     ELSE /\ EnterName(icache[dp[p]].inum, LastName(p), None)
          /\ \/ /\ isdir
                /\ icache' = c /\ Goto(p, "undot") /\ UNCHANGED << dp, puts >>
             \/ /\ ~isdir
                /\ icache' = [c EXCEPT ![dp[p]].busy = FALSE]
                /\ PutDp(p) /\ Goto(p, "erased")
          /\ UNCHANGED << dinode, files, call, rest, ip, held, freeing, ghosts >>

AfterNotEmpty_Locked(s) == icache            \* mutated: iput for iunlockput
AfterNotEmpty(s) == Unlock(s)

UnlinkNotEmpty(p) ==
  /\ Ready(p, "not_empty")
  /\ icache' = AfterNotEmpty(dp[p]) /\ Put(p, << dp[p] >>) /\ Return(p)
  /\ UNCHANGED << disk, files, freeing, ghosts >>

\* A directory's ".." goes with it.
UnlinkCountsDotdot(p) ==
  LET s == dp[p]  c == AddLink(Unlock(s), s, -1) IN
  /\ Ready(p, "undot")
  /\ icache' = c /\ iupdate(c, s)
  /\ PutDp(p) /\ Goto(p, "erased")
  /\ UNCHANGED << dir, files, call, rest, ip, held, freeing, ghosts >>

UnlinkDone(p) ==
  LET s == ip[p]  c == AddLink(Unlock(s), s, -1) IN
  /\ Ready(p, "erased")
  /\ icache' = c /\ iupdate(c, s)
  /\ Put(p, << s >>) /\ Return(p)
  /\ UNCHANGED << dir, files, freeing, ghosts >>

---------------------------------------------------------------------------
InCall(p) ==
  \/ iput(p) \/ IputTrunc(p) \/ IputDone(p)
  \/ Walk(p) \/ Found(p) \/ LinkEnter(p) \/ LinkBad(p)
  \/ CreateLookup(p) \/ CreateExists(p) \/ ialloc(p) \/ CreateInode(p)
  \/ CreateCountsDotdot(p) \/ CreateDotdot(p) \/ CreateEnter(p) \/ CreateDone(p)
  \/ UnlinkLookup(p) \/ UnlinkErase(p) \/ UnlinkNotEmpty(p)
  \/ UnlinkCountsDotdot(p) \/ UnlinkDone(p)

Program(p) ==
  \/ Close(p)
  \/ \E c \in Calls : Begin(p, c)

Next == \E p \in Proc : InCall(p) \/ Program(p)

Spec == Init /\ [][Next]_vars

---------------------------------------------------------------------------
(* Properties. *)

TypeOK ==
  /\ dinode \in [Inum -> [type : {"none", "T_DIR", "T_FILE"}, nlink : Int]]
  /\ dir \in [Inum -> [Name \cup {".."} -> Inum \cup {None}]]
  /\ DOMAIN icache = Slot
  /\ \A s \in Slot : icache[s].inum \in Inum \cup {None} /\ icache[s].ref \in Nat
  /\ cwd \in [Proc -> Slot] /\ fd \in [Proc -> Slot \cup {NoSlot}]
  /\ call \in [Proc -> Calls \cup {NoCall}]
  /\ \A f \in {ip, dp, held} : f \in [Proc -> Slot \cup {NoSlot}]
  /\ \A p \in Proc : puts[p] \in Seq(Slot) /\ Len(puts[p]) <= 2
  /\ freeing \in [Proc -> {"no", "itrunc", "done"}]
  /\ lost \subseteq Inum

Is(b) == IF b THEN 1 ELSE 0

\* The references that processes have to slot s.
Users(f, s) == Cardinality({p \in Proc : f[p] = s})
Puts(k, s)  == Cardinality({p \in Proc : k \in DOMAIN puts[p] /\ puts[p][k] = s})
References(s) == Users(cwd, s) + Users(fd, s) + Users(ip, s) + Users(dp, s)
                   + Users(held, s) + Puts(1, s) + Puts(2, s)

\* The slots that p has locked.
Locks(p) ==
  (IF /\ pc[p] \in {"ialloc", "inew", "dots", "dotdot", "enter", "victim", "undot",
                    "not_empty"}
   THEN {dp[p]} ELSE {})
  \cup (IF pc[p] \in {"dots", "dotdot", "enter", "made", "undot", "erased"}
        THEN {ip[p]} ELSE {})
  \cup (IF freeing[p] # "no" THEN {Head(puts[p])} ELSE {})

\* The cache is in order between any two steps of system calls: no inode has
\* two slots in use, each counts the references to it and has one process that
\* holds it BUSY, and a VALID one is what is on the disk - also when an inode
\* is freed while ialloc gives its number out again (iget, iput, ialloc).
CacheInOrder ==
  /\ TypeOK
  /\ \A s, t \in Slot : icache[s].ref > 0 /\ icache[t].ref > 0
                          /\ icache[s].inum = icache[t].inum => s = t
  /\ \A s \in Slot :
       /\ icache[s].ref = References(s)
       /\ Is(icache[s].busy) = Cardinality({p \in Proc : s \in Locks(p)})
       /\ icache[s].ref > 0 /\ icache[s].valid /\ panic = "none" =>
            LET d == dinode[icache[s].inum] IN
              \/ d.type = icache[s].type /\ d.nlink = icache[s].nlink
              \/ \E p \in Proc : freeing[p] = "done" /\ Head(puts[p]) = s

\* The kernel's own assertions never fail; it stops only when it has run out
\* of inodes (the panics of fs.c and sysfile.c).
AssertionsHold == panic \in {"none", "no_inodes"}

Named(i) == i = ROOTINO \/ \E d \in Inum : \E n \in Name : dir[d][n] = i
Entries(i) ==
  Cardinality({e \in Inum \X Name : dir[e[1]][e[2]] = i})
    + Cardinality({d \in Inum : Named(d) /\ dir[d][".."] = i})

DiskIsSafe ==
  \A i \in Inum : dinode[i].nlink >= Entries(i)
                  /\ (Entries(i) > 0 => dinode[i].type # "none")

Idle == \A p \in Proc : pc[p] = "user" /\ puts[p] = << >>
Cached(i) == \E s \in Slot : icache[s].ref > 0 /\ icache[s].inum = i

\* A directory in the directory i, whose ".." is a link to i.
KeepsChild(i) == \E n \in Name : dir[i][n] # None /\ dir[dir[i][n]][".."] = i

\* Whenever the machine stops: what a directory names is an inode in use, with
\* at least as many links as names (link and create count first and name then;
\* unlink and iput go the other way).  When all calls have returned, links are
\* counted exactly, and an inode without a name is in use by somebody - but for
\* what goes into a directory that has been removed meanwhile: create and link
\* do not look.  A file there is lost as soon as the directory is freed, and
\* with a directory in it the removed directory itself is never freed, as the
\* child's ".." keeps a link to it.
LinksAreNames ==
  /\ DiskIsSafe
  /\ panic = "none" /\ Idle =>
       \A i \in Inum \ lost : dinode[i].type # "none" =>
         /\ dinode[i].nlink = Entries(i)
         /\ Named(i) \/ Cached(i) \/ KeepsChild(i)

\* The calls never wait for each other in a circle, nor for an inode that a
\* call has left locked (ilock: parents first; every return unlocks).
SomeCallGoesOn == panic # "none" \/ Idle \/ \E p \in Proc : ENABLED InCall(p)
==============================================================================
