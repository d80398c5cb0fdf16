----------------------------- MODULE CheckedFile ----------------------------
(***************************************************************************)
(* p5/xv6/kernel/fs.c: one inode, and the file that it is, which is of the *)
(* kind whose blocks carry a checksum (T_CHECKED) or a plain T_FILE; the   *)
(* machine may stop (crash) and the disk change a byte of the file or of   *)
(* its indirect block (corruption).                                        *)
(*                                                                         *)
(* A pointer to a block is a word whose top byte is the checksum of the    *)
(* block: here a pair of block number and checksum.  The pointers are in   *)
(* the inode - its copy in memory (ip) is written to disk by iupdate only  *)
(* - and in the indirect block.  bwrite goes to the disk at once, and one  *)
(* block is written entirely or not at all: a step has at most one bwrite. *)
(*                                                                         *)
(* A byte has one bit, so that the xor of a block is its parity.  The file *)
(* is locked (ilock) by whoever uses it: writei, itrunc and what readi     *)
(* would return never overlap.                                             *)
(***************************************************************************)
EXTENDS Integers, FiniteSets, Sequences, FiniteSetsExt

CONSTANTS NDIRECT, NINDIRECT, BSIZE,
          NBlocks,     \* blocks of the disk that hold file data
          MaxSize,     \* bound: bytes of the file
          MaxWrite,    \* bound: bytes in one call of write
          Reopens,     \* the types of files that programs close and open again
          Unlinks,     \* the types of files that programs unlink
          CrashesAt,   \* the stages of a call at which the machine may stop
          Corrupts     \* does the disk change bytes?

Type    == {"T_FILE", "T_CHECKED"}
Freeing == {"trunc", "unmark", "free"}  \* itrunc and what follows
Stages  == {"idle", "map", "link", "sum", "store", "end"} \cup Freeing

ASSUME FileAssumption ==
  /\ {NDIRECT, NINDIRECT, BSIZE, NBlocks, MaxSize, MaxWrite} \subseteq Nat \ {0}
  /\ MaxSize <= (NDIRECT + NINDIRECT) * BSIZE  \* MAXFILE * BSIZE
  /\ Reopens \subseteq Type /\ Unlinks \subseteq Type
  /\ CrashesAt \subseteq Stages /\ Corrupts \in BOOLEAN

Block == 1 .. NBlocks
Cell  == 0 .. BSIZE - 1
Byte  == {0, 1}
Null  == << 0, 0 >>                     \* the word 0
Word  == {Null} \cup Block \X Byte      \* block number and top byte

VARIABLES
  bitmap,     \* blocks that are marked in use
  bytes,      \* each block, read as bytes ...
  words,      \* ... and read as pointers
  dinode, ip, \* [addrs, size]: the inode on disk and in memory
  type,       \* of the file that the inode is
  exists,     \* nlink > 0
  op,         \* the call in progress
  written,    \* what the programs have written, by offset
  damaged,    \* the bytes << block, cell >> that the disk has changed
  signed,     \* the blocks that were written in part while damaged
  wild,       \* the words << block, index >> that the disk has changed
  astray,     \* has a program written or freed a block that a wild word names?
  crashed     \* has the machine ever stopped?

disk   == << bitmap, bytes, words, dinode >>
file   == << type, exists >>
traces == << written, damaged, signed, wild, astray, crashed >>
vars   == << disk, ip, file, op, traces >>

Idle  == [at |-> "idle"]
Empty == [addrs |-> [i \in 0 .. NDIRECT |-> Null], size |-> 0]
Zeros == [c \in Cell |-> 0]
NoWords == [i \in 0 .. NINDIRECT - 1 |-> Null]

Init ==
  /\ bitmap = {}
  /\ bytes = [b \in Block |-> Zeros] /\ words = [b \in Block |-> NoWords]
  /\ dinode = Empty /\ ip = Empty
  /\ type \in Type /\ exists = TRUE
  /\ op = Idle
  /\ written = [i \in 0 .. MaxSize - 1 |-> 0]
  /\ damaged = {} /\ signed = {} /\ crashed = FALSE
  /\ wild = {} /\ astray = FALSE

---------------------------------------------------------------------------
(* The block that holds block bn of the file, through the pointer word. *)

IsDirect(bn)  == bn < NDIRECT
Indirect(ino) == ino.addrs[NDIRECT][1]  \* the block of pointers, or 0

WordOf(ino, bn) ==
  IF IsDirect(bn) THEN ino.addrs[bn]
  ELSE IF Indirect(ino) = 0 THEN Null ELSE words[Indirect(ino)][bn - NDIRECT]

Masked(w) == << w[1], 0 >>              \* w & 0x00ffffff
Sum(content) == Cardinality({c \in Cell : content[c] = 1}) % 2

---------------------------------------------------------------------------
(* writei: a call writes n bytes, all with value v, block after block.     *)

\* (Bound: no more writes once a program has gone astray.)
WriteBegin(off, n, v) ==
  /\ exists /\ op = Idle /\ ~astray
  /\ off <= ip.size /\ off + n <= MaxSize
  /\ op' = [at |-> "map", off |-> off, left |-> n, v |-> v, b |-> 0]
  /\ UNCHANGED << disk, ip, file, traces >>

\* readi changes nothing, unless the disk has made a word of the indirect block
\* 0: then its bmap gives the file a new block, as for a write.
NoByte == -1

ReadBegin(i) ==
  /\ exists /\ op = Idle
  /\ i < ip.size /\ WordOf(ip, i \div BSIZE) = Null
  /\ op' = [at |-> "map", off |-> i, left |-> 1, v |-> NoByte, b |-> 0]
  /\ UNCHANGED << disk, ip, file, traces >>

Writes(stage) == op.at = stage
Bn == op.off \div BSIZE

\* The pointer of the current block is a word that the disk has changed.
Misled(bn) == ~IsDirect(bn) /\ << Indirect(ip), bn - NDIRECT >> \in wild

FreshBlocks == Block \ bitmap
Marked(b) == bitmap \cup {b}

\* The indirect block gets a pointer to block b in two writes of the disk: the
\* mark in the bitmap (balloc), then the pointer.
MarksNow_Last == op.at = "link"         \* mutated: the pointer first
MarksNow == op.at = "map"

Links(b) ==
  /\ ip' = ip
  /\ IF MarksNow
       THEN bitmap' = Marked(b) /\ words' = words
       ELSE /\ words' = [words EXCEPT ![Indirect(ip)][Bn - NDIRECT] = << b, 0 >>]
            /\ bitmap' = bitmap

\* bmap, up to the first block that it has to allocate: that takes steps of
\* their own, after which it looks again.  A new pointer in the inode is in
\* memory only.
Bmap ==
  /\ Writes("map")
  /\ \/ /\ WordOf(ip, Bn) # Null
        /\ op' = IF op.v = NoByte THEN Idle ELSE [op EXCEPT !.at = "sum"]
        /\ UNCHANGED << bitmap, words, ip >>
     \/ /\ WordOf(ip, Bn) = Null
        /\ FreshBlocks # {}              \* or panic("balloc: out of blocks")
        /\ LET b == Min(FreshBlocks) IN
             IF IsDirect(Bn) \/ Indirect(ip) = 0
               THEN /\ bitmap' = Marked(b) /\ words' = words
                    /\ ip' = [ip EXCEPT !.addrs[Min({Bn, NDIRECT})] = << b, 0 >>]
                    /\ op' = op
               ELSE Links(b) /\ op' = [op EXCEPT !.at = "link", !.b = b]
  /\ UNCHANGED << bytes, dinode, file, traces >>

LinkBlock ==
  /\ Writes("link")
  /\ Links(op.b) /\ op' = [op EXCEPT !.at = "map", !.b = 0]
  /\ UNCHANGED << bytes, dinode, file, traces >>

Target  == WordOf(ip, Bn)[1]
InBlock == {c \in Cell : c >= op.off % BSIZE /\ c - (op.off % BSIZE) < op.left}
NewBytes == [c \in Cell |-> IF c \in InBlock THEN op.v ELSE bytes[Target][c]]

NewSum_Old == Sum(bytes[Target])        \* mutated: before the memmove
NewSum == Sum(NewBytes)

\* The checksum goes into the pointer: in memory, or on disk.
SetSum ==
  /\ Writes("sum")
  /\ op' = [op EXCEPT !.at = "store"]
  /\ IF type # "T_CHECKED" THEN UNCHANGED << words, ip >>
     ELSE IF IsDirect(Bn)
       THEN /\ ip' = [ip EXCEPT !.addrs[Bn] = << @[1], NewSum >>]
            /\ words' = words
       ELSE /\ words' = [words EXCEPT ![Indirect(ip)][Bn - NDIRECT] =
                            << @[1], NewSum >>]
            /\ ip' = ip
  /\ UNCHANGED << bitmap, bytes, dinode, file, traces >>

\* bwrite of the block.
Store ==
  /\ Writes("store")
  /\ LET m == Cardinality(InBlock) IN
       /\ bytes' = [bytes EXCEPT ![Target] = NewBytes]
       /\ written' = [i \in DOMAIN written |->
                        IF i >= op.off /\ i < op.off + m THEN op.v ELSE written[i]]
       /\ damaged' = damaged \ ({Target} \X InBlock)
       /\ signed' = {d[1] : d \in {e \in damaged' : e[1] \in signed \cup {Target}}}
       /\ astray' = (astray \/ Misled(Bn))
       /\ op' = [op EXCEPT !.at = IF m = op.left THEN "end" ELSE "map",
                           !.off = @ + m, !.left = @ - m]
  /\ UNCHANGED << bitmap, words, dinode, ip, file, wild, crashed >>

UpdatesInode_Never == FALSE             \* mutated: iupdate forgotten
UpdatesInode == op.off > ip.size

WriteEnd ==
  /\ Writes("end")
  /\ op' = Idle
  /\ ip' = [ip EXCEPT !.size = Max({@, op.off})]
  /\ dinode' = IF UpdatesInode THEN ip' ELSE dinode
  /\ UNCHANGED << bitmap, bytes, words, file, traces >>

---------------------------------------------------------------------------
(* itrunc, when the last user of an unlinked file lets it go (iput). *)

IndirectWords(ino) == IF Indirect(ino) = 0 THEN {} ELSE
  {words[Indirect(ino)][i] : i \in 0 .. NINDIRECT - 1} \ {Null}
DirectWords(ino) == {ino.addrs[i] : i \in 0 .. NDIRECT - 1} \ {Null}

\* The blocks that itrunc frees: by their numbers, since nobody sees the order.
\* The masks stand in the wrong branch: the word of a checked file is not masked.
Argument(w) == IF type = "T_CHECKED" THEN w ELSE Masked(w)

ToFree_Direct(ino) == {Argument(w) : w \in DirectWords(ino)}
                                        \* mutated: the indirect blocks stay
ToFree(ino) == {Argument(w) : w \in DirectWords(ino) \cup IndirectWords(ino)}
               \cup ({ino.addrs[NDIRECT]} \ {Null})

\* The words of the file's indirect block that the disk has changed.
Changed(ino) == {i \in 0 .. NINDIRECT - 1 : << Indirect(ino), i >> \in wild}

Unlink ==
  /\ type \in Unlinks /\ exists /\ op = Idle
  /\ exists' = FALSE
  /\ op' = [at |-> "trunc", todo |-> ToFree(ip)]
  /\ astray' = (astray \/ Changed(ip) # {})
  /\ UNCHANGED << disk, ip, type, written, damaged, signed, wild, crashed >>

\* bfree: zero the block, then mark it free.  A block number beyond the disk is
\* where the model stops.
NextFree == Min({w[1] : w \in op.todo})
Zeroed(b) == [bytes EXCEPT ![b] = Zeros]

bfree ==
  /\ op.at = "trunc" /\ op.todo # {}
  /\ \A w \in op.todo : w[2] = 0
  /\ LET b == NextFree IN
       /\ bytes' = Zeroed(b) /\ words' = [words EXCEPT ![b] = NoWords]
       /\ damaged' = {d \in damaged : d[1] # b} /\ signed' = signed \ {b}
       /\ wild' = {w \in wild : w[1] # b}
  /\ op' = [op EXCEPT !.at = "unmark"]
  /\ UNCHANGED << bitmap, dinode, ip, file, written, astray, crashed >>

bfreeMark ==
  /\ op.at = "unmark"
  /\ NextFree \in bitmap                \* or panic("freeing free block")
  /\ bitmap' = bitmap \ {NextFree}
  /\ op' = [op EXCEPT !.at = "trunc", !.todo = @ \ {<< NextFree, 0 >>}]
  /\ UNCHANGED << bytes, words, dinode, ip, file, traces >>

\* iupdate at the end of itrunc.
TruncEnd ==
  /\ op.at = "trunc" /\ op.todo = {}
  /\ ip' = Empty /\ dinode' = Empty
  /\ op' = [op EXCEPT !.at = "free"]
  /\ UNCHANGED << bitmap, bytes, words, file, traces >>

\* type = 0 and iupdate: the inode is free and ialloc may make it a new file of
\* either type.
FreeInode ==
  /\ op.at = "free"
  /\ op' = Idle /\ exists' = TRUE /\ type' \in Type
  /\ written' = [i \in DOMAIN written |-> 0]
  /\ UNCHANGED << disk, ip, damaged, signed, wild, astray, crashed >>

---------------------------------------------------------------------------
(* What happens to the file. *)

\* The last reference is put: the inode is no longer cached, and the next
\* ilock reads it from the disk.
Reopen ==
  /\ type \in Reopens /\ exists /\ op = Idle
  /\ ip' = dinode
  /\ UNCHANGED << disk, file, op, traces >>

\* The machine stops and comes up again: what was in memory only is lost.
Crash ==
  /\ op.at \in CrashesAt
  /\ ip' = dinode /\ op' = Idle /\ crashed' = TRUE
  /\ UNCHANGED << disk, file, written, damaged, signed, wild, astray >>

\* The disk changes one byte of a checked file (bound: one at a time): of a
\* block that is read as bytes, or ...
Damages == Corrupts /\ type = "T_CHECKED" /\ op = Idle /\ damaged = {} /\ wild = {}

Corrupt(b, c) ==
  /\ Damages
  /\ b \in bitmap \ {Indirect(ip)}
  /\ bytes' = [bytes EXCEPT ![b][c] = 1 - @]
  /\ damaged' = damaged \cup {<< b, c >>}
  /\ UNCHANGED << bitmap, words, dinode, ip, file, op, written, signed, wild, astray, crashed >>

\* ... of a pointer in the indirect block: the checksum, or the block number.
\* (Bound: the pointer is 0 or names another of the blocks here.)
CorruptWord(i, w) ==
  /\ Damages
  /\ Indirect(ip) # 0 /\ i \in 0 .. NINDIRECT - 1
  /\ LET old == words[Indirect(ip)][i] IN w # old /\ (w[1] = old[1] \/ w[2] = old[2])
  /\ words' = [words EXCEPT ![Indirect(ip)][i] = w]
  /\ wild' = wild \cup {<< Indirect(ip), i >>}
  /\ UNCHANGED << bitmap, bytes, dinode, ip, file, op, written, damaged, signed, astray, crashed >>

Write == Bmap \/ LinkBlock \/ SetSum \/ Store \/ WriteEnd

Next ==
  \/ \E off \in 0 .. MaxSize - 1 : \E n \in 1 .. MaxWrite : \E v \in Byte :
       WriteBegin(off, n, v)
  \/ \E i \in 0 .. MaxSize - 1 : ReadBegin(i)
  \/ Write
  \/ Unlink \/ bfree \/ bfreeMark \/ TruncEnd \/ FreeInode
  \/ Reopen \/ Crash \/ \E b \in Block : \E c \in Cell : Corrupt(b, c)
  \/ \E i \in 0 .. NINDIRECT - 1 : \E w \in Word : CorruptWord(i, w)

Spec == Init /\ [][Next]_vars

---------------------------------------------------------------------------
(* What readi returns for byte i of the file: the byte, or Failed when the *)
(* block does not have the checksum that its pointer holds.                *)

Failed == -1
Reads(i) == LET w == WordOf(ip, i \div BSIZE) IN
  IF type = "T_CHECKED" /\ Sum(bytes[w[1]]) # w[2] THEN Failed ELSE bytes[w[1]][i % BSIZE]

Readable == IF exists /\ op = Idle THEN 0 .. ip.size - 1 ELSE {}

DamagedBlocks == {d[1] : d \in damaged}
BlockOf(i) == WordOf(ip, i \div BSIZE)[1]

---------------------------------------------------------------------------
(* Properties. *)

Inode == [addrs : [0 .. NDIRECT -> Word], size : 0 .. MaxSize]

TypeOK ==
  /\ bitmap \subseteq Block
  /\ bytes \in [Block -> [Cell -> Byte]]
  /\ words \in [Block -> [0 .. NINDIRECT - 1 -> Word]]
  /\ dinode \in Inode /\ ip \in Inode
  /\ type \in Type /\ exists \in BOOLEAN
  /\ op.at \in Stages
  /\ written \in [0 .. MaxSize - 1 -> Byte]
  /\ damaged \subseteq Block \X Cell /\ signed \subseteq Block
  /\ wild \subseteq Block \X (0 .. NINDIRECT - 1)
  /\ astray \in BOOLEAN /\ crashed \in BOOLEAN

ReadsWhatWasWritten ==
  \A i \in Readable : ~Misled(i \div BSIZE) /\ BlockOf(i) \notin DamagedBlocks
                        => Reads(i) \in {written[i], Failed}

FailsExactlyOnDamage ==
  type = "T_CHECKED" /\ ~crashed =>
    \A i \in Readable : ~Misled(i \div BSIZE) =>
      /\ Reads(i) = Failed => BlockOf(i) \in DamagedBlocks
      /\ BlockOf(i) \in DamagedBlocks \ signed => Reads(i) = Failed

\* A read gives what was last written at that place, unless it fails: no block
\* is another block's, and none has old bytes (bmap, balloc, bfree).  It fails
\* only if the disk has changed the block ("if unexpected checksum result /
\* corruption", TODOs), and always then - unless a program has written the
\* rest of the block since: writei signs the block as it finds it.  After a
\* crash a block and its checksum may be of different writes.
\*
\* The indirect block has no checksum itself.  A word of it that the disk has
\* changed sends reads and writes of that one block elsewhere (Misled); other
\* reads stay right until a program writes to, or frees, the block that such a
\* word names (astray), which may be any.
ReadsAreRight == ~astray => ReadsWhatWasWritten /\ FailsExactlyOnDamage

\* Blocks that the file refers to, in the order of the pointers, but for the
\* pointers that the disk has changed.
Held(ino) == LET own == {j \in 0 .. NDIRECT : ino.addrs[j][1] # 0} IN
  << own, IF Indirect(ino) = 0 THEN {}
          ELSE {j \in (0 .. NINDIRECT - 1) \ Changed(ino) :
                  words[Indirect(ino)][j][1] # 0} >>
HeldBlocks(ino) ==
  {ino.addrs[j][1] : j \in Held(ino)[1]}
    \cup {words[Indirect(ino)][j][1] : j \in Held(ino)[2]}
NoBlockTwice(ino) ==
  Cardinality(HeldBlocks(ino))
    = Cardinality(Held(ino)[1]) + Cardinality(Held(ino)[2])

HeldIsMarked ==
  op.at \notin Freeing => HeldBlocks(dinode) \subseteq bitmap /\ NoBlockTwice(dinode)

NoBlockLost ==
  ~crashed /\ Changed(ip) = {} /\ exists /\ op = Idle => bitmap = HeldBlocks(ip)

NothingInMemoryOnly == type = "T_FILE" /\ exists /\ op = Idle => dinode = ip

FreeIsZero == \A b \in Block \ bitmap : bytes[b] = Zeros /\ words[b] = NoWords

\* Whatever the inode on disk refers to is marked in use, and nothing twice,
\* also after a crash between any two writes of the disk in a call of write:
\* balloc never hands it out again.  Without a crash nothing else is marked.  A
\* free block holds zeros only: bmap takes an indirect block as it comes from
\* balloc, and so relies on bfree for its empty pointers.  Between two calls the
\* inode on disk is the one in memory (writei's iupdate), so that closing a
\* plain file and opening it again changes nothing.  Pointers that the disk has
\* changed are left out, as in ReadsAreRight.
DiskIsConsistent ==
  /\ TypeOK
  /\ ~astray => HeldIsMarked /\ NoBlockLost /\ FreeIsZero /\ NothingInMemoryOnly
=============================================================================
