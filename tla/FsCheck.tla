------------------------------ MODULE FsCheck ------------------------------
(***************************************************************************)
(* p5: mkfs.c, which copies a tree of directories and files into a file    *)
(* system image, and fscheck.c, which reads an image and reports the first *)
(* error that it finds.  Between the two the image is damaged.             *)
(*                                                                         *)
(* A block is read as what it is needed for: data[b] has the entries of a  *)
(* block of a directory, and ptrs[b] the words of an indirect block.       *)
(* Inodes count from 0, the blocks for data from DataStart.                *)
(***************************************************************************)
EXTENDS Integers, Sequences, FiniteSets, SequencesExt

CONSTANTS NInodes,    \* sb->ninodes
          DataStart,  \* b_start of fscheck, the first freeblock of mkfs
          Size,       \* sb->size
          NDirect, NIndirect, DPB,
          MaxDamage   \* bound: fields that are damaged

VARIABLES inode,   \* type, nlink and addrs of each inode
          ptrs,    \* indirect blocks
          data,    \* blocks of directory entries
          bitmap,  \* blocks marked in use
          next,    \* mkfs: freeinode and freeblock
          open,    \* mkfs: the directories that add_dir works on, innermost last
          damage   \* fields damaged so far; -1 while mkfs runs

fsvars == << inode, ptrs, data, bitmap, next, open, damage >>

Inode     == 0 .. NInodes - 1
DataBlock == DataStart .. Size - 1
Root      == 1
None      == [inum |-> 0, name |-> "none"]
Entry(i, n)  == [inum |-> i, name |-> n]
FreeInode == [type |-> "free", nlink |-> 0, addrs |-> [j \in 1 .. NDirect + 1 |-> 0]]
Fresh(t)  == [FreeInode EXCEPT !.type = t, !.nlink = 1]
Image     == [inode |-> inode, ptrs |-> ptrs, data |-> data, bitmap |-> bitmap]

---------------------------------------------------------------------------
(* mkfs.  A disk under construction is a record d of its parts. *)

Disk == [inode |-> inode, ptrs |-> ptrs, data |-> data, next |-> next]
SetDisk(d) ==
  inode' = d.inode /\ ptrs' = d.ptrs /\ data' = d.data /\ next' = d.next

FsInit ==
  /\ inode = [i \in Inode |-> IF i = Root THEN Fresh("dir") ELSE FreeInode]
  /\ ptrs = [b \in DataBlock |-> [j \in 1 .. NIndirect |-> 0]]
  /\ data = [b \in DataBlock |-> [n \in 1 .. DPB |-> None]]
  /\ bitmap = {} /\ next = [inode |-> Root + 1, block |-> DataStart]
  /\ open = << >> /\ damage = -1

\* The blocks of an inode's contents in their order.
Contents(d, i) ==
  LET a == d.inode[i].addrs
      all == [j \in 1 .. NDirect + NIndirect |->
                IF j <= NDirect THEN a[j]
                ELSE IF a[NDirect + 1] \in DataBlock THEN d.ptrs[a[NDirect + 1]][j - NDirect]
                ELSE 0]
  IN  SelectSeq(all, LAMBDA b : b # 0)

\* iappend, when what is appended begins a block; the indirect block is taken
\* before the first block that it names.
AddBlock(d, i) ==
  LET j == Len(Contents(d, i)) + 1
      a == d.inode[i].addrs
      b == d.next.block
  IN  IF j <= NDirect
      THEN [d EXCEPT !.inode[i].addrs[j] = b, !.next.block = b + 1]
      ELSE IF a[NDirect + 1] = 0
      THEN [d EXCEPT !.inode[i].addrs[NDirect + 1] = b,
                     !.ptrs[b][j - NDirect] = b + 1, !.next.block = b + 2]
      ELSE [d EXCEPT !.ptrs[a[NDirect + 1]][j - NDirect] = b, !.next.block = b + 1]

\* A block of a directory is full when it has DPB entries, the last one set.
AddEntry(d, i, e) ==
  LET c  == Contents(d, i)
      d2 == IF c = << >> \/ d.data[Last(c)][DPB] # None THEN AddBlock(d, i) ELSE d
      b  == Last(Contents(d2, i))
      n  == CHOOSE n \in 1 .. DPB :
              d2.data[b][n] = None /\ \A m \in 1 .. n - 1 : d2.data[b][m] # None
  IN  [d2 EXCEPT !.data[b][n] = e]

\* ialloc looks for no end of the inodes, iappend for none of the blocks.
Ialloc(d, t) ==
  [d EXCEPT !.inode[d.next.inode] = Fresh(t), !.next.inode = d.next.inode + 1]

\* The bound stands for their absence: no file here takes more than 5 blocks.
HasRoom == next.inode < NInodes /\ next.block + 5 <= Size

Dots(d, i, parent) ==
  AddEntry(AddEntry(d, i, Entry(i, ".")), i, Entry(parent, ".."))

AddRoot ==
  /\ damage = -1 /\ open = << >> /\ inode[Root].addrs[1] = 0
  /\ SetDisk(Dots(Disk, Root, Root))
  /\ open' = << [inum |-> Root, name |-> "/"] >>
  /\ UNCHANGED << bitmap, damage >>

\* Names of the host's files that begin with a dot are copied too.
AddFile(name, blocks) ==
  /\ open # << >> /\ HasRoom
  /\ LET i == next.inode
         d == FoldLeft(LAMBDA x, k : AddBlock(x, i), Ialloc(Disk, "file"),
                       [k \in 1 .. blocks |-> k])
     IN  SetDisk(AddEntry(d, Last(open).inum, Entry(i, name)))
  /\ UNCHANGED << bitmap, open, damage >>

EnterDir(name) ==
  /\ open # << >> /\ HasRoom
  /\ SetDisk(Dots(Ialloc(Disk, "dir"), next.inode, Last(open).inum))
  /\ open' = Append(open, [inum |-> next.inode, name |-> name])
  /\ UNCHANGED << bitmap, damage >>

\* add_dir returns; its caller makes the entry, or marks the bitmap.
LeaveDir ==
  /\ open # << >> /\ open' = Front(open) /\ next.block + 2 <= Size
  /\ IF Len(open) > 1
     THEN /\ SetDisk(AddEntry(Disk, Last(Front(open)).inum,
                              Entry(Last(open).inum, Last(open).name)))
          /\ UNCHANGED << bitmap, damage >>
     ELSE /\ bitmap' = DataStart .. next.block - 1 /\ damage' = 0
          /\ UNCHANGED << inode, ptrs, data, next >>

---------------------------------------------------------------------------
(* Damage: any field of the inodes, and of the blocks that they use. *)

DirBlocks   == UNION {Range(Contents(Image, i)) : i \in {k \in Inode : inode[k].type = "dir"}}
IndirBlocks == {inode[i].addrs[NDirect + 1] : i \in Inode} \ {0}

Addr == {0} \cup DataBlock \cup {DataStart - 1, Size}

DamageInode(i) ==
  /\ \/ \E t \in {"free", "file", "dir", "bad"} : inode' = [inode EXCEPT ![i].type = t]
     \/ \E n \in 0 .. 2 : inode' = [inode EXCEPT ![i].nlink = n]
     \/ \E j \in 1 .. NDirect + 1, b \in Addr : inode' = [inode EXCEPT ![i].addrs[j] = b]
  /\ UNCHANGED << ptrs, data, bitmap >>

DamagePointer(b) ==
  /\ \E j \in 1 .. NIndirect, c \in Addr : ptrs' = [ptrs EXCEPT ![b][j] = c]
  /\ UNCHANGED << inode, data, bitmap >>

DamageEntry(b) ==
  /\ \E n \in 1 .. DPB :
       \/ \E i \in 0 .. NInodes : data' = [data EXCEPT ![b][n].inum = i]
       \/ \E s \in {".", "..", "x", "..x"} : data' = [data EXCEPT ![b][n].name = s]
  /\ UNCHANGED << inode, ptrs, bitmap >>

DamageBit(b) ==
  /\ bitmap' = IF b \in bitmap THEN bitmap \ {b} ELSE bitmap \cup {b}
  /\ UNCHANGED << inode, ptrs, data >>

Damage ==
  /\ damage \in 0 .. MaxDamage - 1 /\ damage' = damage + 1
  /\ \/ \E i \in Inode \ {0} : DamageInode(i)
     \/ \E b \in IndirBlocks \cap DataBlock : DamagePointer(b)
     \/ \E b \in DirBlocks \cap DataBlock : DamageEntry(b)
     \/ \E b \in DataBlock : DamageBit(b)
  /\ UNCHANGED << next, open >>

FsNext ==
  \/ AddRoot \/ LeaveDir \/ Damage
  \/ \E name \in {"x", ".x"} : EnterDir(name) \/ \E k \in 0 .. 2 : AddFile(name, k)

---------------------------------------------------------------------------
(* fscheck.  Each check gives "ok" or its error; "wild" stands for a read or *)
(* write outside of what the model holds: other blocks, or other arrays.     *)

FirstError(checks) ==
  LET bad == SelectSeq(checks, LAMBDA c : c # "ok")
  IN  IF bad = << >> THEN "ok" ELSE Head(bad)

AddrsOf(m, i) == m.inode[i].addrs
Used(m, i) == m.inode[i].type # "free"
IsDir(m, i) == m.inode[i].type = "dir"

\* The addresses in the order in which they are checked: addrs with the
\* indirect block, and then what it names.
NonZero(s) == SelectSeq(s, LAMBDA b : b # 0)
Named(m, i) ==
  LET b == AddrsOf(m, i)[NDirect + 1]
  IN  IF b \in DataBlock THEN NonZero(m.ptrs[b]) ELSE << >>
Checked(m, i) == IF Used(m, i) THEN NonZero(AddrsOf(m, i)) \o Named(m, i) ELSE << >>

Seen_ByInode(m, i) == {}                         \* mutated: u_blocks cleared
Seen(m, i) == UNION {Range(Checked(m, k)) : k \in 0 .. i - 1}

AddressError(m, i) ==
  LET c == Checked(m, i)
  IN  FirstError([k \in 1 .. Len(c) |->
        IF c[k] \notin DataBlock THEN "bad address"
        ELSE IF c[k] \notin m.bitmap THEN "marked free"
        ELSE IF c[k] \in Seen(m, i) \cup {c[j] : j \in 1 .. k - 1} THEN "used twice"
        ELSE "ok"])

\* Block 0, where addrs[0] = 0 leads to, has zeros; what other blocks hold that
\* are not for data is not in the model.
EntriesAt(m, b) == IF b \in DataBlock THEN m.data[b] ELSE [n \in 1 .. DPB |-> None]
FirstBlock(m, i) == EntriesAt(m, AddrsOf(m, i)[1])
Readable(m, i) == AddrsOf(m, i)[1] \in DataBlock \cup {0}

\* strncmp compares the first letter only, or the first two.
Dotted(e)  == e.name \in {".", "..", ".x", "..x"}
TwoDots(e) == e.name \in {"..", "..x"}

FormatError(m, i) ==
  IF ~IsDir(m, i) THEN "ok"
  ELSE IF Dotted(FirstBlock(m, i)[1]) /\ TwoDots(FirstBlock(m, i)[2]) THEN "ok"
  ELSE "bad format"

RootError(m, i) ==
  IF i # Root THEN "ok"
  ELSE IF ~Readable(m, i) THEN "wild"
  ELSE IF /\ AddrsOf(m, i)[1] # 0
          /\ FirstBlock(m, i)[1].inum = Root /\ FirstBlock(m, i)[2].inum = Root
  THEN "ok" ELSE "no root"

\* The blocks that are searched for entries: addrs with the indirect block
\* itself, whose first word is the number of its first entry; and what the
\* indirect block names.
Words(m, b) == [n \in 1 .. DPB |-> IF n = 1 THEN Entry(m.ptrs[b][1], "none") ELSE None]
Searched(m, i, via) ==
  LET a == AddrsOf(m, i) IN
    [j \in 1 .. NDirect |-> EntriesAt(m, a[j])]
      \o (IF a[NDirect + 1] \in DataBlock THEN << Words(m, a[NDirect + 1]) >> ELSE << >>)
      \o (IF a[NDirect + 1] # 0
          THEN [j \in 1 .. Len(Named(m, via)) |-> EntriesAt(m, Named(m, via)[j])]
          ELSE << >>)

\* uind_dir: the entries for n that do not begin with a dot.  The test that
\* would skip numbers out of range is never true.
Counts(m, i, n) ==
  LET s == Searched(m, i, i)
  IN  Cardinality({<< j, k >> \in (1 .. Len(s)) \X (1 .. DPB) :
                     s[j][k].inum = n /\ ~Dotted(s[j][k])})

CountError(m, i) ==
  IF IsDir(m, i) /\ (\E n \in NInodes .. Size : Counts(m, i, n) > 0) THEN "wild" ELSE "ok"

\* The parent's addresses may not have been checked; its indirect block is
\* looked for in the directory that is being checked, dinp.
ParentError(m, i) ==
  LET self   == FirstBlock(m, i)[1].inum
      parent == FirstBlock(m, i)[2].inum
  IN  IF ~IsDir(m, i) \/ i = Root THEN "ok"
      ELSE IF parent \notin Inode THEN "wild"
      ELSE IF \E j \in 1 .. NDirect + 1 : AddrsOf(m, parent)[j] \notin DataBlock \cup {0}
      THEN "wild"
      ELSE IF \E j \in 1 .. Len(Searched(m, parent, i)), k \in 1 .. DPB :
                LET e == Searched(m, parent, i)[j][k]
                IN  e.inum = self /\ ~Dotted(e)
      THEN "ok" ELSE "bad parent"

InodeError(m, i) ==
  FirstError(<< IF m.inode[i].type = "bad" THEN "bad inode" ELSE "ok",
                AddressError(m, i), FormatError(m, i), RootError(m, i),
                CountError(m, i), ParentError(m, i) >>)

\* uind_dir and uind_table at the end.
References(m, n) ==
  FoldSet(LAMBDA i, sum : sum + Counts(m, i, n), 0, {i \in Inode : IsDir(m, i)})

Verdict(m) ==
  LET perInode == FirstError([i \in 1 .. NInodes |-> InodeError(m, i - 1)])
      If(wrong, error) == IF wrong THEN error ELSE "ok"
      rest == 2 .. NInodes - 1
  IN  IF perInode # "ok" THEN perInode
      ELSE FirstError(<<
        If(\E b \in m.bitmap : b \notin Seen(m, NInodes), "marked used"),
        If(\E n \in rest : Used(m, n) /\ References(m, n) = 0, "not found"),
        If(\E n \in rest : ~Used(m, n) /\ References(m, n) # 0, "referred but free"),
        If(\E n \in Inode : m.inode[n].type = "file" /\ m.inode[n].nlink # References(m, n),
           "bad count"),
        If(\E n \in Inode \ {Root} : IsDir(m, n) /\ References(m, n) # 1, "dir twice") >>)

---------------------------------------------------------------------------
(* Properties. *)

\* The names of a directory, . and .. aside, as pairs of place and entry; and
\* the references to an inode from all directories.
Names(m, i) ==
  LET c == Contents(m, i)
  IN  {<< j, k >> \in (1 .. Len(c)) \X (1 .. DPB) :
         /\ c[j] \in DataBlock
         /\ LET e == m.data[c[j]][k] IN e.inum # 0 /\ e.name \notin {".", ".."}}
NameAt(m, i, x) == m.data[Contents(m, i)[x[1]]][x[2]]

Dirs(m) == {i \in Inode : IsDir(m, i)}
Refs(m, n) ==
  UNION {{<< i, x >> : x \in {y \in Names(m, i) : NameAt(m, i, y).inum = n}} : i \in Dirs(m)}

Errors == {"bad inode", "bad address", "marked free", "marked used", "used twice",
           "bad format", "no root", "bad parent", "not found", "referred but free",
           "bad count", "dir twice"}

\* What the message e says is the case somewhere in the image.
IsSo(m, e) ==
  LET used == {i \in Inode : Used(m, i)}
      Addresses(i) == Range(Checked(m, i))
      all      == UNION {Addresses(i) : i \in used}
      first(i) == FirstBlock(m, i)
      subdirs  == Dirs(m) \ {Root}
  IN  \/ e = "bad inode" /\ \E i \in used : m.inode[i].type = "bad"
      \/ e = "bad address" /\ ~(all \subseteq DataBlock)
      \/ e = "marked free" /\ ~(all \cap DataBlock \subseteq m.bitmap)
      \/ e = "marked used" /\ ~(m.bitmap \subseteq all)
      \/ e = "used twice" /\ \/ \E i \in used : Cardinality(Addresses(i)) < Len(Checked(m, i))
                             \/ \E i, k \in used : i # k /\ Addresses(i) \cap Addresses(k) # {}
      \/ e = "bad format" /\ \E i \in Dirs(m) :
           first(i)[1] # Entry(i, ".") \/ first(i)[2].name # ".."
      \/ e = "no root" /\
           ~(IsDir(m, Root) /\ first(Root)[1].inum = Root /\ first(Root)[2].inum = Root)
      \/ e = "bad parent" /\ \E i \in subdirs : \A x \in Refs(m, i) : x[1] # first(i)[2].inum
      \/ e = "not found" /\ \E i \in used \ {Root} : Refs(m, i) = {}
      \/ e = "referred but free" /\ \E i \in Dirs(m) : \E x \in Names(m, i) :
           NameAt(m, i, x).inum \notin used
      \/ e = "bad count" /\ \E i \in used :
           m.inode[i].type = "file" /\ m.inode[i].nlink # Cardinality(Refs(m, i))
      \/ e = "dir twice" /\ \E i \in subdirs : Cardinality(Refs(m, i)) # 1

Sound(m) == \A e \in Errors : ~IsSo(m, e)

\* Where fscheck is not to be relied on.  It takes every name that begins with
\* a dot for . or .., and so does not count it; does not look at the number in
\* the entry ., at the types of the root and of a parent; and reads the words
\* of a directory's indirect block as entries, too.
Hidden(m)    == \E i \in Dirs(m) : \E x \in Names(m, i) : NameAt(m, i, x).name \in {".x", "..x"}
OddDot(m)    == \E i \in Dirs(m) : FirstBlock(m, i)[1] # Entry(i, ".")
OddParent(m) == \E i \in Dirs(m) : FirstBlock(m, i)[2].inum \notin Dirs(m)
LargeDir(m)  == \E i \in Dirs(m) : AddrsOf(m, i)[NDirect + 1] # 0

Missed(m) == Hidden(m) \/ OddDot(m) \/ OddParent(m) \/ ~IsDir(m, Root)
Misled(m) == Hidden(m) \/ OddDot(m) \/ LargeDir(m)

\* What mkfs makes is sound; and, those cases aside, fscheck accepts an image
\* only when nothing that its messages speak of is the case, what it reports of
\* another is the case, and it does not go astray in a sound one.
VerdictIsRight ==
  damage >= 0 =>
    LET m == Image
        v == Verdict(m)
    IN  /\ damage = 0 => Sound(m)
        /\ \/ v = "ok" /\ (Sound(m) \/ Missed(m))
           \/ v = "wild" /\ (~Sound(m) \/ Misled(m))
           \/ v \in Errors /\ (IsSo(m, v) \/ Misled(m))
===========================================================================
