----------------------------- MODULE FileProofs -----------------------------
(***************************************************************************)
(* Theorems about CheckedFile for any sizes of file, block and disk: reads *)
(* are right, and the disk is consistent, also after a crash.              *)
(*                                                                         *)
(* What makes them inductive: each block that the file refers to is        *)
(* referred to by one word only and is marked; without a crash no other    *)
(* block is; the inode on disk refers to some of the blocks of the one in  *)
(* memory, and to all that its size needs; a byte that was written is in   *)
(* its block, and the checksum in memory is that of the block, unless the  *)
(* disk has changed it or writei is between the two.  All this is said of  *)
(* the words that the disk has not changed (Sound), until a program        *)
(* follows another one (astray).                                           *)
(***************************************************************************)
EXTENDS CheckedFile, Numbers, FiniteSetTheorems, TLAPS

---------------------------------------------------------------------------
(* Words, inodes and calls. *)

Bns == 0 .. NDIRECT + NINDIRECT - 1

(* A word is 0 or the number of a block with a checksum.                   *)
LEMMA WordFacts ==
  ASSUME FileAssumption, NEW x \in Word
  PROVE  /\ x[1] \in Nat /\ x[2] \in Byte
         /\ x[1] = 0 <=> x = Null
         /\ x[1] # 0 => x[1] \in Block
         /\ \A s \in Byte : << x[1], s >>[1] = x[1] /\ << x[1], s >>[2] = s
  <1>1. NBlocks \in Nat
    BY DEF FileAssumption
  <1>2. CASE x = Null
    BY <1>1, <1>2 DEF Null, Byte
  <1>3. CASE x \in Block \X Byte
    <2>1. PICK b \in Block, s \in Byte : x = << b, s >>
      BY <1>3
    <2>2. b \in Nat /\ b # 0
      BY <1>1 DEF Block
    <2> QED BY <1>1, <2>1, <2>2 DEF Null
  <1> QED BY <1>2, <1>3 DEF Word

LEMMA NullFacts == Null \in Word /\ Null[1] = 0
  BY DEF Null, Word

LEMMA MakeWord ==
  ASSUME NEW b \in Block, NEW s \in Byte
  PROVE  << b, s >> \in Word /\ << b, s >>[1] = b /\ << b, s >>[2] = s
  BY DEF Word

(* Sizes.                                                                  *)
LEMMA FileSizes ==
  ASSUME FileAssumption
  PROVE  /\ NDIRECT \in Nat \ {0} /\ NINDIRECT \in Nat \ {0} /\ BSIZE \in Nat \ {0}
         /\ NBlocks \in Nat \ {0} /\ MaxSize \in Nat \ {0} /\ MaxWrite \in Nat \ {0}
         /\ \A i \in 0 .. MaxSize - 1 : i \div BSIZE \in Bns /\ i % BSIZE \in Cell
  <1>1. /\ NDIRECT \in Nat \ {0} /\ NINDIRECT \in Nat \ {0} /\ BSIZE \in Nat \ {0}
        /\ NBlocks \in Nat \ {0} /\ MaxSize \in Nat \ {0} /\ MaxWrite \in Nat \ {0}
        /\ MaxSize <= (NDIRECT + NINDIRECT) * BSIZE
    BY DEF FileAssumption
  <1>2. ASSUME NEW i \in 0 .. MaxSize - 1 PROVE i \div BSIZE \in Bns /\ i % BSIZE \in Cell
    <2> DEFINE q == i \div BSIZE
               s == i % BSIZE
               N == NDIRECT + NINDIRECT
    <2>1. s \in 0 .. BSIZE - 1 /\ q \in Int /\ i = BSIZE * q + s
      BY <1>1, Divide
    <2>2. N \in Int /\ i \in Nat /\ i < N * BSIZE /\ N * BSIZE = BSIZE * N
      BY <1>1
    <2> HIDE DEF q, s, N
    <2>3. BSIZE * q \in Int /\ BSIZE * N \in Int /\ BSIZE * q - BSIZE * N = BSIZE * (q - N)
          /\ q - N \in Int
      BY <1>1, <2>1, <2>2, Product, Distribute
    <2>4. q >= 0
      <3>1. ~ (q <= -1)
        <4> SUFFICES ASSUME q <= -1 PROVE FALSE
          OBVIOUS
        <4>1. BSIZE * q <= 0 - BSIZE
          BY <1>1, <2>1, Product
        <4> QED BY <1>1, <2>1, <2>2, <2>3, <4>1
      <3> QED BY <2>1, <3>1
    <2>5. q < N
      <3>1. ~ (q - N >= 0)
        <4> SUFFICES ASSUME q - N >= 0 PROVE FALSE
          OBVIOUS
        <4>1. BSIZE * (q - N) >= 0
          <5>1. q - N = 0 \/ q - N >= 1
            BY <2>3
          <5> QED BY <1>1, <2>3, <5>1, Product
        <4> QED BY <1>1, <2>1, <2>2, <2>3, <4>1
      <3> QED BY <2>1, <2>2, <3>1
    <2> QED BY <2>1, <2>2, <2>4, <2>5 DEF Bns, Cell, q, s, N
  <1> QED BY <1>1, <1>2

Writing == {"map", "link", "sum", "store", "end"}

WriteCall ==
  [at : Writing, off : 0 .. MaxSize, left : 0 .. MaxSize, v : Byte \cup {NoByte},
   b : Block \cup {0}]
TruncCall == [at : Freeing, todo : SUBSET (Block \X Byte)]

OpOK ==
  \/ op = Idle
  \/ /\ op \in WriteCall /\ op.off + op.left <= MaxSize
     /\ op.at = "end" <=> op.left = 0
     /\ op.at \notin {"map", "link"} => op.v \in Byte
     /\ op.at = "link" => op.b \in Block
  \/ /\ op \in TruncCall
     /\ op.at = "unmark" => op.todo # {}
     /\ op.at = "free" => op.todo = {}

\* The stages of a call, and what there is at each.
Staged ==
  /\ op.at \in {"sum", "store"} => WordOf(ip, Bn)[1] # 0
  /\ op.at = "store" /\ type = "T_CHECKED" => WordOf(ip, Bn)[2] = NewSum
  /\ op.at = "link" => ~ IsDirect(Bn) /\ Indirect(ip) # 0 /\ WordOf(ip, Bn) = Null
  /\ op.at \in Writing /\ op.v = NoByte => op.off + op.left <= ip.size
  /\ op.at = "free" => ip = Empty /\ dinode = Empty

Shape == TypeOK /\ OpOK /\ Staged /\ (exists <=> op.at \notin Freeing)

(* The words of a file and its block of words.                             *)
LEMMA WordsTyped ==
  ASSUME FileAssumption, TypeOK, NEW ino \in Inode
  PROVE  /\ Indirect(ino) \in Nat /\ (Indirect(ino) # 0 => Indirect(ino) \in Block)
         /\ \A bn \in Bns : WordOf(ino, bn) \in Word
         /\ \A bn \in Bns : ~ IsDirect(bn) => bn - NDIRECT \in 0 .. NINDIRECT - 1
         /\ \A bn \in Bns : IsDirect(bn) => bn \in 0 .. NDIRECT /\ bn # NDIRECT
  <1>1. NDIRECT \in Nat \ {0} /\ NINDIRECT \in Nat \ {0}
    BY FileSizes
  <1>2. ino.addrs \in [0 .. NDIRECT -> Word]
    BY DEF Inode
  <1>3. ino.addrs[NDIRECT] \in Word
    BY <1>1, <1>2
  <1>4. Indirect(ino) \in Nat /\ (Indirect(ino) # 0 => Indirect(ino) \in Block)
    BY <1>3, WordFacts DEF Indirect
  <1>5. ASSUME NEW bn \in Bns
        PROVE  /\ ~ IsDirect(bn) => bn - NDIRECT \in 0 .. NINDIRECT - 1
               /\ IsDirect(bn) => bn \in 0 .. NDIRECT /\ bn # NDIRECT
    BY <1>1 DEF Bns, IsDirect
  <1>6. ASSUME NEW bn \in Bns PROVE WordOf(ino, bn) \in Word
    <2>1. CASE IsDirect(bn)
      BY <1>2, <1>5, <2>1 DEF WordOf
    <2>2. CASE ~ IsDirect(bn) /\ Indirect(ino) = 0
      BY <2>2, NullFacts DEF WordOf
    <2>3. CASE ~ IsDirect(bn) /\ Indirect(ino) # 0
      <3>1. words[Indirect(ino)] \in [0 .. NINDIRECT - 1 -> Word]
        BY <1>4, <2>3 DEF TypeOK
      <3> QED BY <1>5, <2>3, <3>1 DEF WordOf
    <2> QED BY <2>1, <2>2, <2>3
  <1> QED BY <1>4, <1>5, <1>6

---------------------------------------------------------------------------
(* The invariant.  The file's blocks are its own, all of them and no       *)
(* others are marked (unless the machine has stopped), and the inode on    *)
(* disk has some of them, for the bytes that its size promises.            *)

\* The blocks of the file whose pointer is as the programs left it.
Sound(ino) == {bn \in Bns : IsDirect(bn) \/ << Indirect(ino), bn - NDIRECT >> \notin wild}

Own ==
  /\ Indirect(ip) # 0 => Indirect(ip) \in bitmap
  /\ \A bn \in Sound(ip) : WordOf(ip, bn)[1] # 0 =>
       /\ WordOf(ip, bn)[1] \in bitmap /\ WordOf(ip, bn)[1] # Indirect(ip)
       /\ \A bm \in Sound(ip) \ {bn} : WordOf(ip, bm)[1] # WordOf(ip, bn)[1]

NoMore ==
  ~ crashed /\ Changed(ip) = {} => \A b \in bitmap :
    \/ b = Indirect(ip)
    \/ op.at = "link" /\ b = op.b
    \/ \E bn \in Bns : b = WordOf(ip, bn)[1]

OnDisk ==
  /\ dinode.size = ip.size
  /\ Indirect(dinode) \in {0, Indirect(ip)}
  /\ \A bn \in Sound(ip) : WordOf(dinode, bn)[1] \in {0, WordOf(ip, bn)[1]}
  /\ \A i \in 0 .. MaxSize - 1 : i < dinode.size =>
       /\ IsDirect(i \div BSIZE) \/ Indirect(dinode) # 0
       /\ i \div BSIZE \in Sound(ip) => WordOf(dinode, i \div BSIZE)[1] # 0

\* What is in memory only will be written.
Pending ==
  type = "T_FILE" =>
    \/ dinode = ip
    \/ op.at \in Writing /\ op.off + op.left > ip.size

\* The bytes of the file that have been written.
Covered(i) == i < ip.size \/ (op.at \in Writing /\ i < op.off)

Data ==
  \A i \in 0 .. MaxSize - 1 : Covered(i) /\ i \div BSIZE \in Sound(ip) =>
    /\ WordOf(ip, i \div BSIZE)[1] # 0
    /\ \/ << WordOf(ip, i \div BSIZE)[1], i % BSIZE >> \in damaged
       \/ bytes[WordOf(ip, i \div BSIZE)[1]][i % BSIZE] = written[i]

\* The checksum in a word, wrong if the disk has changed the block.
SumOK(x) ==
  x[1] # 0 => (x[2] = Sum(bytes[x[1]]) <=> x[1] \notin DamagedBlocks \ signed)

Sums ==
  type = "T_CHECKED" /\ ~ crashed =>
    \A bn \in Sound(ip) : ~ (op.at = "store" /\ bn = Bn) => SumOK(WordOf(ip, bn))

\* A block that no word of the file names.
Alone(b) == b # Indirect(ip) /\ \A bn \in Sound(ip) : WordOf(ip, bn)[1] # b

\* A block that balloc has marked, as bfree left it, and that has no pointer yet.
Linking ==
  op.at = "link" => /\ op.b \in bitmap /\ Alone(op.b)
                    /\ bytes[op.b] = Zeros /\ op.b \notin DamagedBlocks

Damage ==
  /\ DamagedBlocks \subseteq bitmap /\ signed \subseteq DamagedBlocks
  /\ \A w \in wild : w[1] \in bitmap
  /\ FreeIsZero

InUse == Own /\ NoMore /\ OnDisk /\ Pending /\ Data /\ Sums /\ Linking

\* itrunc has still to free whatever is marked; the next block may be empty already.
Cleared(b) == /\ bytes[b] = Zeros /\ words[b] = NoWords
              /\ b \notin DamagedBlocks /\ \A w \in wild : w[1] # b

InTrunc ==
  /\ ~ crashed => bitmap \subseteq {x[1] : x \in op.todo}
  /\ op.at = "unmark" => Cleared(NextFree)

Whole ==
  /\ Damage
  /\ op.at \notin Freeing => InUse
  /\ op.at \in Freeing => InTrunc

FileInv == Shape /\ (~ astray => Whole)

(* The programs that are considered: nobody opens a checked file again,    *)
(* whose sums may be in memory only, and the machine does not stop while a *)
(* file is freed.                                                          *)
Considered == "T_CHECKED" \notin Reopens /\ CrashesAt \cap Freeing = {}

LEMMA FileInitInv == FileAssumption /\ Init => FileInv
  <1> SUFFICES ASSUME FileAssumption, Init PROVE FileInv
    OBVIOUS
  <1>1. /\ NDIRECT \in Nat \ {0} /\ NINDIRECT \in Nat \ {0} /\ BSIZE \in Nat \ {0}
        /\ NBlocks \in Nat \ {0} /\ MaxSize \in Nat \ {0}
    BY FileSizes
  <1>2. /\ bitmap = {} /\ dinode = Empty /\ ip = Empty /\ exists = TRUE
        /\ op = Idle /\ damaged = {} /\ signed = {} /\ crashed = FALSE
        /\ wild = {} /\ astray = FALSE
        /\ bytes = [b \in Block |-> Zeros] /\ words = [b \in Block |-> NoWords]
        /\ type \in Type /\ written = [i \in 0 .. MaxSize - 1 |-> 0]
    BY DEF Init
  <1>3. /\ Zeros \in [Cell -> Byte] /\ NoWords \in [0 .. NINDIRECT - 1 -> Word]
        /\ Empty \in Inode /\ Empty.size = 0 /\ \A i \in 0 .. NDIRECT : Empty.addrs[i] = Null
    BY <1>1, NullFacts DEF Zeros, NoWords, Empty, Inode, Byte
  <1>4. op.at = "idle" /\ op.at \notin Freeing /\ op.at \notin Writing
    BY <1>2 DEF Idle, Freeing, Writing
  <1>5. TypeOK /\ OpOK
    BY <1>1, <1>2, <1>3, <1>4 DEF TypeOK, OpOK, Byte, Stages
  <1>6. DamagedBlocks = {}
    BY <1>2 DEF DamagedBlocks
  <1>7. Damage
    BY <1>2, <1>6 DEF Damage, FreeIsZero
  <1>8. Indirect(ip) = 0 /\ \A bn \in Bns : WordOf(ip, bn) = Null
    <2>1. Indirect(ip) = 0
      BY <1>1, <1>2, <1>3, NullFacts DEF Indirect
    <2>2. ASSUME NEW bn \in Bns PROVE WordOf(ip, bn) = Null
      <3>1. IsDirect(bn) => bn \in 0 .. NDIRECT
        BY <1>1 DEF Bns, IsDirect
      <3> QED BY <1>2, <1>3, <2>1, <3>1 DEF WordOf
    <2> QED BY <2>1, <2>2
  <1>9. Own /\ NoMore /\ Staged /\ Linking
    BY <1>2, <1>4, <1>8, NullFacts DEF Own, NoMore, Staged, Linking, Sound
  <1>10. OnDisk
    <2>1. \A i \in 0 .. MaxSize - 1 : ~ (i < 0)
      BY <1>1
    <2> QED BY <1>2, <1>3, <2>1 DEF OnDisk
  <1>11. Pending
    BY <1>2 DEF Pending
  <1>12. Data
    <2>1. \A i \in 0 .. MaxSize - 1 : ~ Covered(i)
      BY <1>1, <1>2, <1>3, <1>4 DEF Covered
    <2> QED BY <2>1 DEF Data
  <1>13. Sums
    BY <1>8, NullFacts DEF Sums, SumOK, Sound
  <1> QED BY <1>2, <1>4, <1>5, <1>7, <1>9, <1>10, <1>11, <1>12, <1>13 DEF FileInv, Shape, Whole, InUse

---------------------------------------------------------------------------
(* Changes of a word. *)

LEMMA SameWords ==
  ASSUME ip' = ip, words' = words, dinode' = dinode
  PROVE  /\ \A bn \in Bns : WordOf(ip, bn)' = WordOf(ip, bn) /\ WordOf(dinode, bn)' = WordOf(dinode, bn)
         /\ Indirect(ip)' = Indirect(ip) /\ Indirect(dinode)' = Indirect(dinode)
  BY DEF WordOf, Indirect, IsDirect

LEMMA SameSound ==
  ASSUME Indirect(ip)' = Indirect(ip), wild' = wild
  PROVE  Sound(ip)' = Sound(ip) /\ Changed(ip)' = Changed(ip)
  BY DEF Sound, Changed, IsDirect

LEMMA SoundIsBns ==
  ASSUME FileAssumption, NEW ino
  PROVE  Sound(ino) \subseteq Bns /\ (Changed(ino) = {} => Sound(ino) = Bns)
  <1>1. NDIRECT \in Nat /\ NINDIRECT \in Nat
    BY FileSizes
  <1>2. ASSUME NEW bn \in Bns, ~ IsDirect(bn) PROVE bn - NDIRECT \in 0 .. NINDIRECT - 1
    BY <1>1, <1>2 DEF Bns, IsDirect
  <1> QED BY <1>2 DEF Sound, Changed

LEMMA SoundNotMisled ==
  ASSUME NEW bn \in Bns PROVE bn \in Sound(ip) <=> ~ Misled(bn)
  BY DEF Sound, Misled

Puts(k, x) ==
  \/ IsDirect(k) /\ ip' = [ip EXCEPT !.addrs[k] = x] /\ words' = words
  \/ /\ ~ IsDirect(k) /\ Indirect(ip) # 0 /\ ip' = ip
     /\ words' = [words EXCEPT ![Indirect(ip)][k - NDIRECT] = x]

LEMMA PutWord ==
  ASSUME FileAssumption, TypeOK, dinode' = dinode,
         NEW k \in Bns, NEW x \in Word, Puts(k, x)
  PROVE  /\ ip' \in Inode /\ words' \in [Block -> [0 .. NINDIRECT - 1 -> Word]]
         /\ ip'.size = ip.size
         /\ Indirect(ip)' = Indirect(ip) /\ Indirect(dinode)' = Indirect(dinode)
         /\ \A bn \in Bns : WordOf(ip, bn)' = IF bn = k THEN x ELSE WordOf(ip, bn)
         /\ Indirect(dinode) \in {0, Indirect(ip)} =>
              \A bn \in Bns : \/ WordOf(dinode, bn)' = WordOf(dinode, bn)
                              \/ bn = k /\ WordOf(dinode, bn)' = x
         /\ \A b \in Block : b # Indirect(ip) => words'[b] = words[b]
  <1>1. NDIRECT \in Nat \ {0} /\ NINDIRECT \in Nat \ {0}
    BY FileSizes
  <1>2. ip \in Inode /\ dinode \in Inode /\ words \in [Block -> [0 .. NINDIRECT - 1 -> Word]]
    BY DEF TypeOK
  <1>3. /\ Indirect(ip) \in Nat /\ (Indirect(ip) # 0 => Indirect(ip) \in Block)
        /\ \A bn \in Bns : ~ IsDirect(bn) => bn - NDIRECT \in 0 .. NINDIRECT - 1
        /\ \A bn \in Bns : IsDirect(bn) => bn \in 0 .. NDIRECT /\ bn # NDIRECT
    BY <1>2, WordsTyped
  <1>4. \A bn \in Bns : IsDirect(bn)' = IsDirect(bn)
    BY DEF IsDirect
  <1>5. CASE IsDirect(k) /\ ip' = [ip EXCEPT !.addrs[k] = x] /\ words' = words
    <2>1. k \in 0 .. NDIRECT /\ k # NDIRECT
      BY <1>3, <1>5
    <2>2. ip.addrs \in [0 .. NDIRECT -> Word] /\ ip.size \in 0 .. MaxSize
      BY <1>2 DEF Inode
    <2>3. ip'.addrs = [ip.addrs EXCEPT ![k] = x] /\ ip'.size = ip.size
      BY <1>2, <1>5 DEF Inode
    <2>4. ip' = [ip EXCEPT !.addrs = [ip.addrs EXCEPT ![k] = x]]
      BY <1>2, <1>5 DEF Inode
    <2> DEFINE ad == [ip.addrs EXCEPT ![k] = x]
    <2>5. /\ ad \in [0 .. NDIRECT -> Word] /\ ad[k] = x
          /\ \A j \in 0 .. NDIRECT : j # k => ad[j] = ip.addrs[j]
      BY <2>1, <2>2
    <2> HIDE DEF ad
    <2>6. ip' \in Inode /\ ip'.addrs = ad
      BY <1>2, <2>3, <2>4, <2>5 DEF Inode, ad
    <2>7. Indirect(ip)' = Indirect(ip) /\ Indirect(dinode)' = Indirect(dinode)
      <3>1. NDIRECT \in 0 .. NDIRECT
        BY <1>1
      <3> QED BY <2>1, <2>5, <2>6, <3>1 DEF Indirect
    <2>8. \A bn \in Bns : WordOf(ip, bn)' = IF bn = k THEN x ELSE WordOf(ip, bn)
      <3> TAKE bn \in Bns
      <3>1. CASE IsDirect(bn)
        <4>1. WordOf(ip, bn)' = ad[bn] /\ WordOf(ip, bn) = ip.addrs[bn] /\ bn \in 0 .. NDIRECT
          BY <1>3, <1>4, <2>6, <3>1 DEF WordOf
        <4> QED BY <2>5, <4>1
      <3>2. CASE ~ IsDirect(bn)
        <4>1. bn # k
          BY <1>5, <3>2
        <4>2. WordOf(ip, bn)' = WordOf(ip, bn)
          BY <1>4, <1>5, <2>7, <3>2 DEF WordOf
        <4> QED BY <4>1, <4>2
      <3> QED BY <3>1, <3>2
    <2>9. \A bn \in Bns : WordOf(dinode, bn)' = WordOf(dinode, bn)
      BY <1>4, <1>5, <2>7 DEF WordOf
    <2> QED BY <1>2, <1>5, <2>3, <2>6, <2>7, <2>8, <2>9
  <1>6. CASE /\ ~ IsDirect(k) /\ Indirect(ip) # 0 /\ ip' = ip
             /\ words' = [words EXCEPT ![Indirect(ip)][k - NDIRECT] = x]
    <2> DEFINE I == Indirect(ip)
               wd == [words[I] EXCEPT ![k - NDIRECT] = x]
    <2>1. I \in Block /\ k - NDIRECT \in 0 .. NINDIRECT - 1
      BY <1>3, <1>6
    <2>2. words[I] \in [0 .. NINDIRECT - 1 -> Word]
      BY <1>2, <2>1
    <2>3. /\ wd \in [0 .. NINDIRECT - 1 -> Word] /\ wd[k - NDIRECT] = x
          /\ \A j \in 0 .. NINDIRECT - 1 : j # k - NDIRECT => wd[j] = words[I][j]
      BY <2>1, <2>2
    <2>4. words' = [words EXCEPT ![I] = wd]
      BY <1>6
    <2> HIDE DEF wd
    <2>5. /\ words' \in [Block -> [0 .. NINDIRECT - 1 -> Word]] /\ words'[I] = wd
          /\ \A b \in Block : b # I => words'[b] = words[b]
      BY <1>2, <2>1, <2>3, <2>4
    <2>6. Indirect(ip)' = I /\ Indirect(dinode)' = Indirect(dinode)
      BY <1>6 DEF Indirect
    <2>7. \A bn \in Bns : WordOf(ip, bn)' = IF bn = k THEN x ELSE WordOf(ip, bn)
      <3> TAKE bn \in Bns
      <3>1. CASE IsDirect(bn)
        BY <1>4, <1>6, <3>1 DEF WordOf
      <3>2. CASE ~ IsDirect(bn)
        <4>1. /\ WordOf(ip, bn)' = wd[bn - NDIRECT] /\ WordOf(ip, bn) = words[I][bn - NDIRECT]
              /\ bn - NDIRECT \in 0 .. NINDIRECT - 1
          BY <1>3, <1>4, <1>6, <2>5, <2>6, <3>2 DEF WordOf
        <4>2. bn # k => bn - NDIRECT # k - NDIRECT
          BY <1>1 DEF Bns
        <4> QED BY <2>3, <4>1, <4>2
      <3> QED BY <3>1, <3>2
    <2>8. ASSUME Indirect(dinode) \in {0, Indirect(ip)}, NEW bn \in Bns
          PROVE  \/ WordOf(dinode, bn)' = WordOf(dinode, bn)
                 \/ bn = k /\ WordOf(dinode, bn)' = x
      <3>1. CASE IsDirect(bn) \/ Indirect(dinode) = 0
        BY <1>4, <2>6, <3>1 DEF WordOf
      <3>2. CASE ~ IsDirect(bn) /\ Indirect(dinode) # 0
        <4>0. Indirect(dinode) = I
          BY <2>8, <3>2
        <4>1. /\ WordOf(dinode, bn)' = wd[bn - NDIRECT] /\ WordOf(dinode, bn) = words[I][bn - NDIRECT]
              /\ bn - NDIRECT \in 0 .. NINDIRECT - 1
          BY <1>3, <1>4, <2>5, <2>6, <3>2, <4>0 DEF WordOf
        <4>2. bn # k => bn - NDIRECT # k - NDIRECT
          BY <1>1 DEF Bns
        <4> QED BY <2>3, <4>1, <4>2
      <3> QED BY <3>1, <3>2
    <2> QED BY <1>2, <1>6, <2>5, <2>6, <2>7, <2>8
  <1> QED BY <1>5, <1>6 DEF Puts

---------------------------------------------------------------------------
(* The calls. *)

LEMMA CallTyped ==
  ASSUME FileAssumption, OpOK, op.at \in Writing
  PROVE  /\ op \in WriteCall /\ op.off \in 0 .. MaxSize /\ op.left \in 0 .. MaxSize
         /\ op.v \in Byte \cup {NoByte} /\ op.b \in Block \cup {0} /\ op.off + op.left <= MaxSize
         /\ op.at = "end" <=> op.left = 0
         /\ op.at # "end" => op.off \in 0 .. MaxSize - 1 /\ Bn \in Bns /\ op.off % BSIZE \in Cell
         /\ op.at \notin {"map", "link"} => op.v \in Byte
         /\ op.at = "link" => op.b \in Block
         /\ op.at \notin Freeing /\ op.at # "idle"
  <1>1. op # Idle /\ op \notin TruncCall
    BY DEF Idle, TruncCall, Writing, Freeing
  <1>2. /\ op \in WriteCall /\ op.off + op.left <= MaxSize
        /\ op.at = "end" <=> op.left = 0
        /\ op.at \notin {"map", "link"} => op.v \in Byte
        /\ op.at = "link" => op.b \in Block
    BY <1>1 DEF OpOK
  <1>3. /\ op.off \in 0 .. MaxSize /\ op.left \in 0 .. MaxSize /\ op.v \in Byte \cup {NoByte}
        /\ op.b \in Block \cup {0}
    BY <1>2 DEF WriteCall
  <1>4. MaxSize \in Nat
    BY FileSizes
  <1>5. op.at # "end" => op.off \in 0 .. MaxSize - 1
    BY <1>2, <1>3, <1>4
  <1> QED BY <1>2, <1>3, <1>5, FileSizes DEF Bn, Writing, Freeing

LEMMA CallMoves ==
  ASSUME FileAssumption, OpOK, op.at \in Writing \ {"end"}, NEW a \in Writing \ {"end"},
         NEW b \in Block \cup {0}, a \notin {"map", "link"} => op.v \in Byte, a = "link" => b \in Block,
         \/ op' = [op EXCEPT !.at = a] /\ b = op.b
         \/ op' = [op EXCEPT !.at = a, !.b = b]
  PROVE  /\ OpOK' /\ op'.at = a /\ op'.off = op.off /\ op'.left = op.left /\ op'.v = op.v /\ op'.b = b
         /\ Bn' = Bn /\ InBlock' = InBlock
  <1>1. /\ op \in WriteCall /\ op.off + op.left <= MaxSize
        /\ op.at = "end" <=> op.left = 0
    BY CallTyped
  <1>2. /\ op' \in WriteCall /\ op'.at = a /\ op'.off = op.off /\ op'.left = op.left
        /\ op'.v = op.v /\ op'.b = b
    BY <1>1 DEF WriteCall, Writing
  <1> QED BY <1>1, <1>2 DEF OpOK, Bn, InBlock

LEMMA FreeTyped ==
  ASSUME OpOK, op.at \in Freeing
  PROVE  /\ op \in TruncCall /\ op.todo \subseteq Block \X Byte
         /\ op.at = "unmark" => op.todo # {}
         /\ op.at = "free" => op.todo = {}
         /\ op.at \notin Writing /\ op.at # "idle"
  BY DEF OpOK, Idle, WriteCall, Writing, Freeing, TruncCall

LEMMA NextIsTodo ==
  ASSUME FileAssumption, OpOK, op.at \in Freeing, op.todo # {}
  PROVE  NextFree \in Block /\ NextFree \in {x[1] : x \in op.todo}
  <1>1. op.todo \subseteq Block \X Byte
    BY FreeTyped
  <1>2. {x[1] : x \in op.todo} \in SUBSET Nat
    BY <1>1, FileSizes DEF Block
  <1>3. {x[1] : x \in op.todo} # {}
    OBVIOUS
  <1>4. NextFree \in {x[1] : x \in op.todo}
    BY <1>2, <1>3, MinInSet DEF NextFree
  <1> QED BY <1>1, <1>4

LEMMA SumOfZeros == ASSUME FileAssumption PROVE Sum(Zeros) = 0
  <1>1. {c \in Cell : Zeros[c] = 1} = {}
    BY DEF Zeros
  <1>2. Cardinality({c \in Cell : Zeros[c] = 1}) = 0
    BY <1>1, FS_EmptySet
  <1> QED BY <1>2 DEF Sum

LEMMA Parity ==
  ASSUME FileAssumption, NEW content PROVE Sum(content) \in Byte
  <1> DEFINE T == {c \in Cell : content[c] = 1}
  <1>1. BSIZE \in Nat
    BY FileSizes
  <1>2. IsFiniteSet(Cell)
    BY <1>1, FS_Interval DEF Cell
  <1>3. IsFiniteSet(T)
    BY <1>2, FS_Subset
  <1>4. Cardinality(T) \in Nat
    BY <1>3, FS_CardinalityType
  <1> QED BY <1>4 DEF Sum, Byte

LEMMA FreshBlock ==
  ASSUME FileAssumption, FreshBlocks # {}
  PROVE  Min(FreshBlocks) \in Block \ bitmap
  <1>1. FreshBlocks \in SUBSET Nat
    BY FileSizes DEF FreshBlocks, Block
  <1>2. Min(FreshBlocks) \in FreshBlocks
    BY <1>1, MinInSet
  <1> QED BY <1>2 DEF FreshBlocks

(* The bytes that a stage of writei writes, as cells of the block and as   *)
(* bytes of the file.                                                      *)
LEMMA Places ==
  ASSUME FileAssumption, OpOK, op.at = "store"
  PROVE  /\ Cardinality(InBlock) \in 1 .. op.left
         /\ \A i \in 0 .. MaxSize - 1 :
               (i >= op.off /\ i < op.off + Cardinality(InBlock))
                 <=> (i \div BSIZE = Bn /\ i % BSIZE \in InBlock)
  <1> DEFINE B == BSIZE
             o == op.off % BSIZE
             q == op.off \div BSIZE
             off == op.off
             left == op.left
             m == Cardinality(InBlock)
             hi == IF o + left - 1 <= B - 1 THEN o + left - 1 ELSE B - 1
  <1>1. B \in Nat \ {0} /\ MaxSize \in Nat
    BY FileSizes
  <1>2. /\ off \in 0 .. MaxSize - 1 /\ left \in Nat \ {0} /\ o \in Cell
    <2>1. op.at \in Writing /\ op.at # "end"
      BY DEF Writing
    <2> QED BY <1>1, <2>1, CallTyped
  <1>3. o \in 0 .. B - 1 /\ q \in Int /\ off = B * q + o
    <2>1. op.off \in Int /\ BSIZE \in Nat \ {0}
      BY <1>1, <1>2
    <2> QED BY <2>1, Divide
  <1>4. Bn = q
    BY DEF Bn
  <1>5. InBlock = {c \in 0 .. B - 1 : c >= o /\ c - o < left}
    BY DEF InBlock, Cell
  <1> HIDE DEF B, o, q, off, left, m
  <1>6. hi \in Int /\ hi >= o /\ hi <= B - 1 /\ hi - o + 1 <= left
    BY <1>1, <1>2, <1>3
  <1>7. InBlock = o .. hi
    BY <1>1, <1>2, <1>3, <1>5
  <1>8. \A c \in 0 .. B - 1 : c - o < left /\ c >= o <=> c >= o /\ c <= hi
    BY <1>1, <1>2, <1>3
  <1> HIDE DEF hi
  <1>9. m = hi - o + 1
    BY <1>3, <1>6, <1>7, FS_Interval DEF m
  <1>10. m \in 1 .. left /\ o + m <= B
    BY <1>1, <1>2, <1>3, <1>6, <1>9
  <1>11. ASSUME NEW i \in 0 .. MaxSize - 1
         PROVE  (i >= off /\ i < off + m) <=> (i \div BSIZE = q /\ i % BSIZE \in InBlock)
    <2> DEFINE j == i \div BSIZE
               s == i % BSIZE
    <2>0. i \in Int /\ BSIZE \in Nat \ {0} /\ B = BSIZE
      BY <1>1 DEF B
    <2>1. s \in 0 .. B - 1 /\ j \in Int /\ i = B * j + s
      <3>1. s \in 0 .. BSIZE - 1 /\ j \in Int /\ i = BSIZE * j + s
        BY <2>0, Divide
      <3> QED BY <2>0, <3>1
    <2> HIDE DEF j, s
    <2>2. B * j \in Int /\ B * q \in Int /\ i \in Int
      BY <1>1, <1>3, <2>1, Product
    <2>3. CASE j = q
      <3> DEFINE p == B * q
      <3>1. p \in Int /\ i = p + s /\ off = p + o
        BY <1>3, <2>1, <2>2, <2>3
      <3> HIDE DEF p
      <3>2. (i >= off /\ i < off + m) <=> s \in o .. hi
        BY <1>3, <1>6, <1>9, <2>1, <3>1, <1>1
      <3>3. (i >= off /\ i < off + m) <=> (j = q /\ s \in InBlock)
        BY <1>7, <2>3, <3>2
      <3> QED BY <3>3 DEF j, s
    <2>4. CASE j # q
      <3>1. ~ (i >= off /\ i < off + m)
        <4> SUFFICES ASSUME i >= off, i < off + m PROVE FALSE
          OBVIOUS
        <4> DEFINE t == i - B * q
        <4>1. t \in Int /\ B * j + s = B * q + t
          BY <2>1, <2>2
        <4>2. t \in 0 .. B - 1
          BY <1>1, <1>3, <1>10, <2>2, <1>2
        <4> HIDE DEF t
        <4>3. s - t < B /\ t - s < B /\ s \in Int
          BY <1>1, <2>1, <4>2
        <4>4. j = q
          BY <1>1, <1>3, <2>1, <4>1, <4>3, Apart
        <4> QED BY <2>4, <4>4
      <3> QED BY <2>4, <3>1 DEF j
    <2> QED BY <2>3, <2>4
  <1> QED BY <1>4, <1>10, <1>11 DEF m, off, left

---------------------------------------------------------------------------
(* Steps that change nothing of the file and of the disk. *)

LEMMA SameDamage ==
  ASSUME Damage, UNCHANGED << bitmap, bytes, words, damaged, signed, wild >>
  PROVE  Damage' /\ DamagedBlocks' = DamagedBlocks
  BY DEF Damage, DamagedBlocks, FreeIsZero

LEMMA SameSums ==
  ASSUME UNCHANGED << bytes, damaged, signed >>, NEW ino, NEW bn, ino' = ino,
         WordOf(ino, bn)' = WordOf(ino, bn), SumOK(WordOf(ino, bn))
  PROVE  SumOK(WordOf(ino, bn))'
  BY DEF SumOK, Sum, DamagedBlocks

LEMMA OnlyCall ==
  ASSUME FileAssumption, Damage, InUse, op.at \notin {"link", "store"}, op'.at # "link",
         UNCHANGED << bitmap, bytes, words, dinode, ip, type, written, damaged, signed, wild, crashed >>,
         \A i \in 0 .. MaxSize - 1 : Covered(i)' => Covered(i)
  PROVE  Damage' /\ Own' /\ NoMore' /\ OnDisk' /\ Data' /\ Sums' /\ Linking'
  <1>1. /\ \A bn \in Bns : WordOf(ip, bn)' = WordOf(ip, bn) /\ WordOf(dinode, bn)' = WordOf(dinode, bn)
        /\ Indirect(ip)' = Indirect(ip) /\ Indirect(dinode)' = Indirect(dinode)
    BY SameWords
  <1>2. Sound(ip)' = Sound(ip) /\ Changed(ip)' = Changed(ip)
    BY <1>1, SameSound
  <1>3. /\ Sound(ip) \subseteq Bns
        /\ \A i \in 0 .. MaxSize - 1 : i \div BSIZE \in Bns
    BY SoundIsBns, FileSizes
  <1>4. Damage'
    BY SameDamage
  <1>5. Own'
    BY <1>1, <1>2, <1>3 DEF InUse, Own
  <1>6. NoMore'
    BY <1>1, <1>2, <1>3 DEF InUse, NoMore
  <1>7. OnDisk'
    BY <1>1, <1>2, <1>3 DEF InUse, OnDisk, IsDirect
  <1>8. Data'
    BY <1>1, <1>2, <1>3 DEF InUse, Data
  <1>9. Sums'
    <2> SUFFICES ASSUME type = "T_CHECKED", ~ crashed, NEW bn \in Sound(ip)
                 PROVE  SumOK(WordOf(ip, bn))'
      BY <1>1, <1>2, <1>3 DEF Sums
    <2>1. SumOK(WordOf(ip, bn))
      BY DEF InUse, Sums
    <2> QED BY <1>1, <1>3, <2>1, SameSums
  <1>10. Linking'
    BY DEF Linking
  <1> QED BY <1>4, <1>5, <1>6, <1>7, <1>8, <1>9, <1>10

LEMMA SameVars ==
  ASSUME FileAssumption, FileInv, UNCHANGED vars
  PROVE  FileInv'
  <1>1. UNCHANGED << bitmap, bytes, words, dinode, ip, type, exists, op, written, damaged, signed,
                     wild, astray, crashed >>
    BY DEF vars, disk, file, traces
  <1>2. /\ \A bn \in Bns : WordOf(ip, bn)' = WordOf(ip, bn) /\ WordOf(dinode, bn)' = WordOf(dinode, bn)
        /\ Indirect(ip)' = Indirect(ip) /\ Indirect(dinode)' = Indirect(dinode)
    BY <1>1, SameWords
  <1>3. Bn' = Bn /\ InBlock' = InBlock /\ DamagedBlocks' = DamagedBlocks
    BY <1>1 DEF Bn, InBlock, DamagedBlocks
  <1>4. WordOf(ip, Bn)' = WordOf(ip, Bn) /\ NewSum' = NewSum
    BY <1>1 DEF WordOf, Indirect, IsDirect, Bn, NewSum, Sum, NewBytes, InBlock, Target
  <1>5. Shape'
    <2>1. TypeOK' /\ OpOK'
      BY <1>1 DEF FileInv, Shape, TypeOK, OpOK
    <2>2. Staged'
      BY <1>1, <1>2, <1>3, <1>4 DEF FileInv, Shape, Staged, IsDirect
    <2> QED BY <1>1, <2>1, <2>2 DEF FileInv, Shape
  <1> SUFFICES ASSUME ~ astray PROVE Whole'
    BY <1>1, <1>5 DEF FileInv
  <1>6. Whole
    BY DEF FileInv
  <1>7. Damage'
    BY <1>1, <1>6, SameDamage DEF Whole
  <1>8. CASE op.at \in Freeing
    BY <1>1, <1>3, <1>6, <1>7, <1>8 DEF Whole, InTrunc, Cleared, NextFree
  <1>9. CASE op.at \notin Freeing
    <2>1. InUse
      BY <1>6, <1>9 DEF Whole
    <2>2. Sound(ip)' = Sound(ip) /\ Changed(ip)' = Changed(ip)
      BY <1>1, <1>2, SameSound
    <2>3. /\ Sound(ip) \subseteq Bns
          /\ \A i \in 0 .. MaxSize - 1 : i \div BSIZE \in Bns
      BY SoundIsBns, FileSizes
    <2>4. Own' /\ NoMore'
      BY <1>1, <1>2, <2>1, <2>2, <2>3 DEF InUse, Own, NoMore
    <2>5. OnDisk'
      BY <1>1, <1>2, <2>1, <2>2, <2>3 DEF InUse, OnDisk, IsDirect
    <2>6. Pending'
      BY <1>1, <2>1 DEF InUse, Pending
    <2>7. Data'
      <3>1. \A i \in 0 .. MaxSize - 1 : Covered(i)' => Covered(i)
        BY <1>1 DEF Covered
      <3> QED BY <1>1, <1>2, <2>1, <2>2, <2>3, <3>1 DEF InUse, Data
    <2>8. Sums'
      <3> SUFFICES ASSUME type = "T_CHECKED", ~ crashed, NEW bn \in Sound(ip),
                          ~ (op.at = "store" /\ bn = Bn)
                   PROVE  SumOK(WordOf(ip, bn))'
        BY <1>1, <1>2, <1>3, <2>2, <2>3 DEF Sums
      <3>1. SumOK(WordOf(ip, bn))
        BY <2>1 DEF InUse, Sums
      <3> QED BY <1>1, <1>2, <2>3, <3>1, SameSums
    <2>9. Linking'
      BY <1>1, <1>2, <1>3, <2>1, <2>2, <2>3 DEF InUse, Linking, Alone
    <2> QED BY <1>1, <1>7, <1>9, <2>4, <2>5, <2>6, <2>7, <2>8, <2>9 DEF Whole, InUse
  <1> QED BY <1>8, <1>9

---------------------------------------------------------------------------
(* A call begins. *)

LEMMA WriteBeginKeeps ==
  ASSUME FileAssumption, FileInv, NEW off \in 0 .. MaxSize - 1, NEW n \in 1 .. MaxWrite, NEW v \in Byte,
         WriteBegin(off, n, v)
  PROVE  FileInv'
  <1>1. /\ exists /\ op = Idle /\ off <= ip.size /\ off + n <= MaxSize
        /\ op' = [at |-> "map", off |-> off, left |-> n, v |-> v, b |-> 0]
        /\ UNCHANGED << bitmap, bytes, words, dinode, ip, type, exists, written, damaged, signed,
                        wild, astray, crashed >>
    BY DEF WriteBegin, disk, file, traces
  <1>2. MaxSize \in Nat /\ MaxWrite \in Nat /\ ip.size \in 0 .. MaxSize
    BY FileSizes DEF FileInv, Shape, TypeOK, Inode
  <1>3. op'.at = "map" /\ op'.off = off /\ op'.left = n /\ op'.v # NoByte /\ op' \in WriteCall
    BY <1>1, <1>2 DEF WriteCall, Writing, Byte, NoByte
  <1>4. Shape'
    <2>1. TypeOK'
      BY <1>1, <1>3 DEF FileInv, Shape, TypeOK, Stages
    <2>2. OpOK'
      BY <1>1, <1>2, <1>3 DEF OpOK
    <2>3. Staged'
      BY <1>1, <1>2, <1>3 DEF Staged
    <2> QED BY <1>1, <1>3, <2>1, <2>2, <2>3 DEF Shape, Freeing
  <1>5. op.at = "idle"
    BY <1>1 DEF Idle
  <1> SUFFICES ASSUME ~ astray PROVE Whole'
    BY <1>1, <1>4 DEF FileInv
  <1>6. Damage /\ InUse
    BY <1>5 DEF FileInv, Whole, Freeing
  <1>7. \A i \in 0 .. MaxSize - 1 : Covered(i)' => Covered(i)
    BY <1>1, <1>2, <1>3 DEF Covered
  <1>8. Pending'
    BY <1>1, <1>5, <1>6 DEF InUse, Pending, Writing
  <1>9. Damage' /\ Own' /\ NoMore' /\ OnDisk' /\ Data' /\ Sums' /\ Linking'
    BY <1>1, <1>3, <1>5, <1>6, <1>7, OnlyCall
  <1> QED BY <1>3, <1>8, <1>9 DEF Whole, InUse, Freeing

LEMMA ReadBeginKeeps ==
  ASSUME FileAssumption, FileInv, NEW i \in 0 .. MaxSize - 1, ReadBegin(i)
  PROVE  FileInv'
  <1>1. /\ exists /\ op = Idle /\ i < ip.size
        /\ op' = [at |-> "map", off |-> i, left |-> 1, v |-> NoByte, b |-> 0]
        /\ UNCHANGED << bitmap, bytes, words, dinode, ip, type, exists, written, damaged, signed,
                        wild, astray, crashed >>
    BY DEF ReadBegin, disk, file, traces
  <1>2. MaxSize \in Nat \ {0} /\ ip.size \in 0 .. MaxSize
    BY FileSizes DEF FileInv, Shape, TypeOK, Inode
  <1>3. op'.at = "map" /\ op'.off = i /\ op'.left = 1 /\ op' \in WriteCall
    BY <1>1, <1>2 DEF WriteCall, Writing
  <1>4. Shape'
    <2>1. TypeOK'
      BY <1>1, <1>3 DEF FileInv, Shape, TypeOK, Stages
    <2>2. OpOK'
      BY <1>1, <1>2, <1>3 DEF OpOK
    <2>3. Staged'
      BY <1>1, <1>2, <1>3 DEF Staged
    <2> QED BY <1>1, <1>3, <2>1, <2>2, <2>3 DEF Shape, Freeing
  <1>5. op.at = "idle"
    BY <1>1 DEF Idle
  <1> SUFFICES ASSUME ~ astray PROVE Whole'
    BY <1>1, <1>4 DEF FileInv
  <1>6. Damage /\ InUse
    BY <1>5 DEF FileInv, Whole, Freeing
  <1>7. \A j \in 0 .. MaxSize - 1 : Covered(j)' => Covered(j)
    BY <1>1, <1>2, <1>3 DEF Covered
  <1>8. Pending'
    BY <1>1, <1>5, <1>6 DEF InUse, Pending, Writing
  <1>9. Damage' /\ Own' /\ NoMore' /\ OnDisk' /\ Data' /\ Sums' /\ Linking'
    BY <1>1, <1>3, <1>5, <1>6, <1>7, OnlyCall
  <1> QED BY <1>3, <1>8, <1>9 DEF Whole, InUse, Freeing

---------------------------------------------------------------------------
(* A word gets a new block, that no other has, or another checksum. *)

LEMMA PutKeeps ==
  ASSUME FileAssumption, Shape, Damage, InUse, op.at \in Writing,
         op'.at \in Writing \ {"link"}, op'.off = op.off,
         NEW k \in Bns, NEW x \in Word, Puts(k, x), x[1] # 0,
         UNCHANGED << dinode, bytes, written, damaged, signed, wild, crashed >>,
         \/ op.at # "link" /\ x[1] = WordOf(ip, k)[1] /\ bitmap' = bitmap
         \/ op.at # "link" /\ WordOf(ip, k)[1] = 0 /\ x[1] \notin bitmap /\ bitmap' = bitmap \cup {x[1]}
         \/ op.at = "link" /\ WordOf(ip, k)[1] = 0 /\ x[1] = op.b /\ bitmap' = bitmap
  PROVE  Own' /\ NoMore' /\ OnDisk' /\ Data' /\ Linking' /\ Damage'
  <1>1. TypeOK /\ Own
    BY DEF Shape, InUse
  <1>2. Indirect(dinode) \in {0, Indirect(ip)}
    BY DEF InUse, OnDisk
  <1>3. /\ ip'.size = ip.size
        /\ Indirect(ip)' = Indirect(ip) /\ Indirect(dinode)' = Indirect(dinode)
        /\ \A bn \in Bns : WordOf(ip, bn)' = IF bn = k THEN x ELSE WordOf(ip, bn)
        /\ \A bn \in Bns : \/ WordOf(dinode, bn)' = WordOf(dinode, bn)
                           \/ bn = k /\ WordOf(dinode, bn)' = x
        /\ \A b \in Block : b # Indirect(ip) => words'[b] = words[b]
    BY <1>1, <1>2, PutWord
  <1>4. /\ Sound(ip)' = Sound(ip) /\ Changed(ip)' = Changed(ip) /\ Sound(ip) \subseteq Bns
        /\ \A i \in 0 .. MaxSize - 1 : i \div BSIZE \in Bns
    BY <1>3, SameSound, SoundIsBns, FileSizes
  <1>5. x[1] \in Block /\ bitmap \subseteq bitmap'
    BY WordFacts
  <1>6. \/ x[1] = WordOf(ip, k)[1]
        \/ WordOf(ip, k)[1] = 0 /\ Alone(x[1]) /\ x[1] \in bitmap'
    <2>1. CASE x[1] \notin bitmap /\ bitmap' = bitmap \cup {x[1]} /\ WordOf(ip, k)[1] = 0
      BY <1>1, <2>1 DEF Own, Alone
    <2>2. CASE op.at = "link" /\ x[1] = op.b /\ bitmap' = bitmap /\ WordOf(ip, k)[1] = 0
      BY <2>2 DEF InUse, Linking
    <2> QED BY <2>1, <2>2
  <1>7. Own'
    <2>1. Indirect(ip) # 0 => Indirect(ip) \in bitmap'
      BY <1>1, <1>5 DEF Own
    <2>2. ASSUME NEW bn \in Sound(ip), WordOf(ip, bn)'[1] # 0
          PROVE  /\ WordOf(ip, bn)'[1] \in bitmap' /\ WordOf(ip, bn)'[1] # Indirect(ip)
                 /\ \A bm \in Sound(ip) \ {bn} : WordOf(ip, bm)'[1] # WordOf(ip, bn)'[1]
      <3>1. CASE bn # k
        <4>1. WordOf(ip, bn)' = WordOf(ip, bn)
          BY <1>3, <1>4, <3>1
        <4>2. /\ WordOf(ip, bn)[1] \in bitmap /\ WordOf(ip, bn)[1] # Indirect(ip)
              /\ \A bm \in Sound(ip) \ {bn} : WordOf(ip, bm)[1] # WordOf(ip, bn)[1]
          BY <1>1, <2>2, <4>1 DEF Own
        <4>3. k \in Sound(ip) => x[1] # WordOf(ip, bn)[1]
          BY <1>6, <3>1, <4>2 DEF Alone
        <4> QED BY <1>3, <1>4, <1>5, <4>1, <4>2, <4>3
      <3>2. CASE bn = k
        <4>1. WordOf(ip, bn)' = x /\ \A bm \in Sound(ip) \ {bn} : WordOf(ip, bm)' = WordOf(ip, bm)
          BY <1>3, <1>4, <3>2
        <4>2. CASE x[1] = WordOf(ip, k)[1]
          <5>1. /\ WordOf(ip, k)[1] \in bitmap /\ WordOf(ip, k)[1] # Indirect(ip)
                /\ \A bm \in Sound(ip) \ {k} : WordOf(ip, bm)[1] # WordOf(ip, k)[1]
            BY <1>1, <3>2, <4>2 DEF Own
          <5> QED BY <1>5, <3>2, <4>1, <4>2, <5>1
        <4>3. CASE Alone(x[1]) /\ x[1] \in bitmap'
          BY <3>2, <4>1, <4>3 DEF Alone
        <4> QED BY <1>6, <4>2, <4>3
      <3> QED BY <3>1, <3>2
    <2> QED BY <1>3, <1>4, <2>1, <2>2 DEF Own
  <1>8. NoMore'
    <2> SUFFICES ASSUME ~ crashed, Changed(ip) = {}, NEW b \in bitmap'
                 PROVE  b = Indirect(ip) \/ \E bn \in Bns : b = WordOf(ip, bn)'[1]
      BY <1>3, <1>4 DEF NoMore
    <2>1. CASE b = x[1]
      BY <1>3, <2>1
    <2>2. CASE b \in bitmap /\ b # x[1]
      <3>1. b # 0
        BY <1>1, <2>2, FileSizes DEF TypeOK, Block
      <3>2. ~ (op.at = "link" /\ b = op.b)
        BY <2>2
      <3>3. CASE \E bn \in Bns : b = WordOf(ip, bn)[1]
        <4>1. PICK bn \in Bns : b = WordOf(ip, bn)[1]
          BY <3>3
        <4>2. bn # k
          BY <1>6, <2>2, <3>1, <4>1
        <4> QED BY <1>3, <4>1, <4>2
      <3> QED BY <2>2, <3>2, <3>3 DEF InUse, NoMore
    <2> QED BY <2>1, <2>2
  <1>9. OnDisk'
    <2>1. dinode'.size = ip'.size /\ Indirect(dinode)' \in {0, Indirect(ip)'} /\ dinode' = dinode
      BY <1>3 DEF InUse, OnDisk
    <2>2. ASSUME NEW bn \in Sound(ip) PROVE WordOf(dinode, bn)'[1] \in {0, WordOf(ip, bn)'[1]}
      <3>1. WordOf(dinode, bn)[1] \in {0, WordOf(ip, bn)[1]} /\ bn \in Bns
        BY <1>4 DEF InUse, OnDisk
      <3>2. CASE bn # k
        BY <1>3, <3>1, <3>2
      <3>3. CASE bn = k
        <4>1. WordOf(ip, bn)' = x
          BY <1>3, <3>3
        <4>2. WordOf(dinode, bn)' = x \/ WordOf(dinode, bn)' = WordOf(dinode, bn)
          BY <1>3, <3>1
        <4> QED BY <1>6, <3>1, <3>3, <4>1, <4>2
      <3> QED BY <3>2, <3>3
    <2>3. ASSUME NEW i \in 0 .. MaxSize - 1, i < dinode.size
          PROVE  /\ IsDirect(i \div BSIZE) \/ Indirect(dinode) # 0
                 /\ i \div BSIZE \in Sound(ip) => WordOf(dinode, i \div BSIZE)'[1] # 0
      <3>1. /\ IsDirect(i \div BSIZE) \/ Indirect(dinode) # 0
            /\ i \div BSIZE \in Sound(ip) => WordOf(dinode, i \div BSIZE)[1] # 0
        BY <2>3 DEF InUse, OnDisk
      <3> QED BY <1>3, <1>4, <3>1
    <2> QED BY <1>3, <1>4, <2>1, <2>2, <2>3 DEF OnDisk, IsDirect
  <1>10. Data'
    <2> SUFFICES ASSUME NEW i \in 0 .. MaxSize - 1, Covered(i)', i \div BSIZE \in Sound(ip)
                 PROVE  /\ WordOf(ip, i \div BSIZE)'[1] # 0
                        /\ \/ << WordOf(ip, i \div BSIZE)'[1], i % BSIZE >> \in damaged
                           \/ bytes[WordOf(ip, i \div BSIZE)'[1]][i % BSIZE] = written[i]
      BY <1>4 DEF Data
    <2>1. Covered(i) /\ i \div BSIZE \in Bns
      BY <1>3, <1>4 DEF Covered
    <2>2. /\ WordOf(ip, i \div BSIZE)[1] # 0
          /\ \/ << WordOf(ip, i \div BSIZE)[1], i % BSIZE >> \in damaged
             \/ bytes[WordOf(ip, i \div BSIZE)[1]][i % BSIZE] = written[i]
      BY <2>1 DEF InUse, Data
    <2>3. WordOf(ip, i \div BSIZE)'[1] = WordOf(ip, i \div BSIZE)[1]
      BY <1>3, <1>6, <2>1, <2>2
    <2> QED BY <2>2, <2>3
  <1>11. Damage'
    <2>1. FreeIsZero'
      <3> SUFFICES ASSUME NEW b \in Block \ bitmap' PROVE bytes[b] = Zeros /\ words'[b] = NoWords
        BY DEF FreeIsZero, Zeros, NoWords
      <3>1. b \notin bitmap /\ b # Indirect(ip)
        <4>1. b # 0 /\ b \notin bitmap
          BY <1>5, FileSizes DEF Block
        <4> QED BY <1>1, <4>1 DEF Own
      <3> QED BY <1>3, <3>1 DEF Damage, FreeIsZero
    <2>2. DamagedBlocks' = DamagedBlocks
      BY DEF DamagedBlocks
    <2> QED BY <1>5, <2>1, <2>2 DEF Damage
  <1>12. Linking'
    BY DEF Linking
  <1> QED BY <1>7, <1>8, <1>9, <1>10, <1>11, <1>12

(* The checksums when a block has got its first word.                      *)
LEMMA FreshKeepsSums ==
  ASSUME FileAssumption, Shape, InUse, op.at # "store",
         NEW k \in Bns, NEW b \in Block, Puts(k, << b, 0 >>), bytes[b] = Zeros, b \notin DamagedBlocks,
         UNCHANGED << dinode, bytes, type, damaged, signed, wild, crashed >>
  PROVE  Sums'
  <1> DEFINE x == << b, 0 >>
  <1>1. x \in Word /\ x[1] = b /\ x[2] = 0
    BY MakeWord DEF Byte
  <1>2. TypeOK
    BY DEF Shape
  <1> HIDE DEF x
  <1>3. /\ Indirect(ip)' = Indirect(ip)
        /\ \A bn \in Bns : WordOf(ip, bn)' = IF bn = k THEN x ELSE WordOf(ip, bn)
    BY <1>1, <1>2, PutWord DEF x
  <1>4. Sound(ip)' = Sound(ip) /\ Sound(ip) \subseteq Bns
    BY <1>3, SameSound, SoundIsBns
  <1> SUFFICES ASSUME type = "T_CHECKED", ~ crashed, NEW bn \in Sound(ip)
               PROVE  SumOK(WordOf(ip, bn))'
    BY <1>4 DEF Sums
  <1>5. DamagedBlocks' = DamagedBlocks
    BY DEF DamagedBlocks
  <1>6. CASE bn = k
    <2>1. x[2] = Sum(bytes[x[1]])
      BY <1>1, SumOfZeros
    <2>2. SumOK(x)'
      BY <1>1, <1>5, <2>1 DEF SumOK, Sum
    <2> QED BY <1>3, <1>4, <1>6, <2>2 DEF SumOK, Sum
  <1>7. CASE bn # k
    <2>1. SumOK(WordOf(ip, bn))
      BY DEF InUse, Sums
    <2> QED BY <1>3, <1>4, <1>5, <1>7, <2>1 DEF SumOK, Sum
  <1> QED BY <1>6, <1>7

LEMMA AddrTyped ==
  ASSUME FileAssumption, TypeOK, NEW j \in 0 .. NDIRECT, NEW x \in Word,
         ip' = [ip EXCEPT !.addrs[j] = x]
  PROVE  /\ ip' \in Inode /\ ip'.size = ip.size /\ ip'.addrs[j] = x
         /\ \A i \in 0 .. NDIRECT : i # j => ip'.addrs[i] = ip.addrs[i]
  <1> DEFINE ad == [ip.addrs EXCEPT ![j] = x]
  <1>1. ip \in Inode /\ ip.addrs \in [0 .. NDIRECT -> Word]
    BY DEF TypeOK, Inode
  <1>2. ip' = [ip EXCEPT !.addrs = ad]
    BY <1>1 DEF Inode
  <1>3. /\ ad \in [0 .. NDIRECT -> Word] /\ ad[j] = x
        /\ \A i \in 0 .. NDIRECT : i # j => ad[i] = ip.addrs[i]
    BY <1>1
  <1> HIDE DEF ad
  <1>4. ip' \in Inode /\ ip'.addrs = ad /\ ip'.size = ip.size
    BY <1>1, <1>2, <1>3 DEF Inode
  <1> QED BY <1>3, <1>4

(* The file's first block of words comes from bfree or from the beginning, *)
(* and has none.                                                           *)
LEMMA NewIndirect ==
  ASSUME FileAssumption, TypeOK, Damage, dinode' = dinode, words' = words, wild' = wild,
         Indirect(ip) = 0, NEW b \in Block \ bitmap,
         ip' = [ip EXCEPT !.addrs[NDIRECT] = << b, 0 >>]
  PROVE  /\ ip'.size = ip.size
         /\ \A bn \in Bns : WordOf(ip, bn)' = WordOf(ip, bn) /\ WordOf(dinode, bn)' = WordOf(dinode, bn)
         /\ Indirect(ip)' = b /\ Indirect(dinode)' = Indirect(dinode)
         /\ Sound(ip) = Bns /\ Sound(ip)' = Bns /\ Changed(ip) = {} /\ Changed(ip)' = {}
  <1> DEFINE x == << b, 0 >>
  <1>1. x \in Word /\ x[1] = b
    BY MakeWord DEF Byte
  <1>2. NDIRECT \in Nat \ {0} /\ NINDIRECT \in Nat \ {0} /\ b # 0 /\ NDIRECT \in 0 .. NDIRECT /\ 0 \notin Block
    BY FileSizes DEF Block
  <1>3. ip \in Inode
    BY DEF TypeOK
  <1> HIDE DEF x
  <1>4. /\ ip' \in Inode /\ ip'.size = ip.size /\ ip'.addrs[NDIRECT] = x
        /\ \A i \in 0 .. NDIRECT : i # NDIRECT => ip'.addrs[i] = ip.addrs[i]
    BY <1>1, <1>2, AddrTyped DEF x
  <1>5. Indirect(ip)' = b /\ Indirect(dinode)' = Indirect(dinode)
    BY <1>1, <1>4 DEF Indirect
  <1>6. /\ \A bn \in Bns : ~ IsDirect(bn) => bn - NDIRECT \in 0 .. NINDIRECT - 1
        /\ \A bn \in Bns : IsDirect(bn) => bn \in 0 .. NDIRECT /\ bn # NDIRECT
    BY <1>3, WordsTyped
  <1>7. words[b] = NoWords
    BY DEF Damage, FreeIsZero
  <1>8. \A bn \in Bns : IsDirect(bn)' = IsDirect(bn)
    BY DEF IsDirect
  <1>9. ASSUME NEW bn \in Bns PROVE WordOf(ip, bn)' = WordOf(ip, bn)
    <2>1. CASE IsDirect(bn)
      BY <1>4, <1>6, <1>8, <2>1 DEF WordOf
    <2>2. CASE ~ IsDirect(bn)
      <3>1. WordOf(ip, bn)' = words[b][bn - NDIRECT]
        BY <1>2, <1>5, <1>8, <2>2 DEF WordOf
      <3>2. words[b][bn - NDIRECT] = Null
        BY <1>6, <1>7, <2>2 DEF NoWords
      <3> QED BY <2>2, <3>1, <3>2 DEF WordOf
    <2> QED BY <2>1, <2>2
  <1>10. \A bn \in Bns : WordOf(dinode, bn)' = WordOf(dinode, bn)
    BY <1>5, <1>8 DEF WordOf
  <1>11. Changed(ip) = {} /\ Changed(ip)' = {}
    <2>1. ASSUME NEW i \in 0 .. NINDIRECT - 1 PROVE << 0, i >> \notin wild /\ << b, i >> \notin wild
      <3>1. << 0, i >> \notin wild
        BY <1>2 DEF TypeOK
      <3>2. << b, i >> \notin wild
        <4>1. << b, i >>[1] = b /\ b \notin bitmap
          OBVIOUS
        <4> QED BY <4>1 DEF Damage
      <3> QED BY <3>1, <3>2
    <2> QED BY <1>5, <2>1 DEF Changed
  <1>12. Sound(ip) = Bns /\ Sound(ip)' = Bns
    BY <1>5, <1>6, <1>8, <1>11 DEF Sound, Changed
  <1> QED BY <1>4, <1>5, <1>9, <1>10, <1>11, <1>12

---------------------------------------------------------------------------
(* bmap, in its four outcomes: the word is there, it is in the inode, it   *)
(* will be in the block of words, or it gets there.                        *)

LEMMA Mapping ==
  ASSUME FileAssumption, Shape, op.at \in {"map", "link", "sum", "store"}
  PROVE  /\ TypeOK /\ OpOK /\ Staged /\ exists
         /\ op.at \in Writing \ {"end"} /\ op.at \notin Freeing
         /\ Bn \in Bns /\ op.off \in 0 .. MaxSize - 1 /\ op.left \in Nat \ {0}
         /\ WordOf(ip, Bn) \in Word /\ WordOf(ip, Bn)[1] \in Nat
         /\ ip \in Inode /\ ip.size \in 0 .. MaxSize
         /\ (WordOf(ip, Bn)[1] = 0 <=> WordOf(ip, Bn) = Null)
         /\ op.v \in Byte \cup {NoByte}
  <1>1. op.at \in Writing \ {"end"} /\ op.at \notin Freeing
    BY DEF Writing, Freeing
  <1>2. TypeOK /\ OpOK /\ Staged /\ exists
    BY <1>1 DEF Shape
  <1>3. /\ Bn \in Bns /\ op.off \in 0 .. MaxSize - 1 /\ op.left \in 0 .. MaxSize /\ op.left # 0
        /\ op.v \in Byte \cup {NoByte}
    BY <1>1, <1>2, CallTyped
  <1>4. ip \in Inode /\ ip.size \in 0 .. MaxSize
    BY <1>2 DEF TypeOK, Inode
  <1>5. WordOf(ip, Bn) \in Word
    BY <1>2, <1>3, <1>4, WordsTyped
  <1>6. MaxSize \in Nat
    BY FileSizes
  <1> QED BY <1>1, <1>2, <1>3, <1>4, <1>5, <1>6, WordFacts

LEMMA BmapFound ==
  ASSUME FileAssumption, FileInv, Bmap, WordOf(ip, Bn) # Null
  PROVE  FileInv'
  <1>1. /\ op.at = "map" /\ op' = (IF op.v = NoByte THEN Idle ELSE [op EXCEPT !.at = "sum"])
        /\ UNCHANGED << bitmap, bytes, words, dinode, ip, type, exists, written, damaged, signed,
                        wild, astray, crashed >>
    BY DEF Bmap, Writes, file, traces
  <1>2. Shape
    BY DEF FileInv
  <1>3. /\ TypeOK /\ OpOK /\ Staged /\ exists /\ op.at \in Writing \ {"end"} /\ op.at \notin Freeing
        /\ Bn \in Bns /\ WordOf(ip, Bn)[1] # 0 /\ op.v \in Byte \cup {NoByte}
    BY <1>1, <1>2, Mapping
  <1>4. /\ OpOK' /\ op'.at \in {"idle", "sum"}
        /\ op'.at = "idle" => op' = Idle /\ op.v = NoByte
        /\ op'.at = "sum" => op.v # NoByte /\ op'.off = op.off /\ op'.left = op.left /\ Bn' = Bn /\ op'.v = op.v
    <2>1. CASE op.v = NoByte
      BY <1>1, <2>1 DEF OpOK, Idle
    <2>2. CASE op.v # NoByte
      <3>1. op.v \in Byte /\ op' = [op EXCEPT !.at = "sum"] /\ op.b \in Block \cup {0}
        BY <1>1, <1>3, <2>2, CallTyped
      <3>2. "sum" \in Writing \ {"end"} /\ "sum" \notin {"map", "link"}
        BY DEF Writing
      <3>3. OpOK' /\ op'.at = "sum" /\ op'.off = op.off /\ op'.left = op.left /\ Bn' = Bn /\ op'.v = op.v
        BY <1>3, <3>1, <3>2, CallMoves
      <3> QED BY <2>2, <3>3
    <2> QED BY <2>1, <2>2
  <1>5. TypeOK' /\ (exists <=> op.at \notin Freeing)'
    BY <1>1, <1>3, <1>4 DEF TypeOK, Stages, Freeing
  <1>6. Staged'
    <2>1. CASE op'.at = "idle"
      BY <2>1 DEF Staged, Writing
    <2>2. CASE op'.at = "sum"
      <3>1. PICK k \in Bns : k = Bn
        BY <1>3
      <3>2. WordOf(ip, k)' = WordOf(ip, k) /\ Bn' = k
        BY <1>1, <1>4, <2>2, <3>1, SameWords
      <3>3. WordOf(ip, Bn)' = WordOf(ip, k)
        BY <3>2 DEF WordOf, Indirect, IsDirect
      <3> QED BY <1>3, <1>4, <2>2, <3>1, <3>3 DEF Staged
    <2> QED BY <1>4, <2>1, <2>2
  <1> SUFFICES ASSUME ~ astray PROVE Whole'
    BY <1>1, <1>4, <1>5, <1>6 DEF FileInv, Shape
  <1>7. Damage /\ InUse
    BY <1>3 DEF FileInv, Whole
  <1>8. \A i \in 0 .. MaxSize - 1 : Covered(i)' => Covered(i)
    BY <1>1, <1>3, <1>4 DEF Covered, Writing
  <1>9. Pending'
    <2>1. CASE op'.at = "sum"
      BY <1>1, <1>4, <1>7, <2>1 DEF InUse, Pending, Writing
    <2>2. CASE op'.at = "idle"
      <3>1. op.off + op.left <= ip.size
        BY <1>3, <1>4, <2>2 DEF Staged
      <3>2. ~ (op.off + op.left > ip.size)
        <4>1. op.off \in Int /\ op.left \in Int /\ ip.size \in Int
          BY <1>1, <1>2, Mapping
        <4> QED BY <3>1, <4>1
      <3> QED BY <1>1, <1>7, <3>2 DEF InUse, Pending
    <2> QED BY <1>4, <2>1, <2>2
  <1>10. Damage' /\ Own' /\ NoMore' /\ OnDisk' /\ Data' /\ Sums' /\ Linking'
    BY <1>1, <1>4, <1>7, <1>8, OnlyCall
  <1> QED BY <1>4, <1>9, <1>10 DEF Whole, InUse, Freeing

(* The file has no block at the offset: its size does not go beyond it.    *)
LEMMA BeyondTheSize ==
  ASSUME FileAssumption, Shape, InUse, op.at = "map", WordOf(ip, Bn) = Null, Bn \in Sound(ip)
  PROVE  op.off + op.left > ip.size
  <1>1. /\ op.off \in 0 .. MaxSize - 1 /\ op.left \in Nat \ {0} /\ ip.size \in 0 .. MaxSize
        /\ WordOf(ip, Bn)[1] = 0
    BY Mapping
  <1>2. MaxSize \in Nat
    BY FileSizes
  <1>3. ~ (op.off < ip.size)
    <2>1. Covered(op.off) => WordOf(ip, Bn)[1] # 0
      BY <1>1 DEF InUse, Data, Bn
    <2> QED BY <1>1, <2>1 DEF Covered
  <1>4. op.off \in Int /\ op.left \in Int /\ op.left >= 1 /\ ip.size \in Int
    BY <1>1, <1>2
  <1> QED BY <1>3, <1>4

LEMMA BmapInInode ==
  ASSUME FileAssumption, FileInv, Bmap, WordOf(ip, Bn) = Null, IsDirect(Bn) \/ Indirect(ip) = 0
  PROVE  FileInv'
  <1> DEFINE b == Min(FreshBlocks)
             x == << b, 0 >>
             j == Min({Bn, NDIRECT})
  <1>1. /\ op.at = "map" /\ op' = op /\ FreshBlocks # {}
        /\ bitmap' = bitmap \cup {b} /\ words' = words /\ ip' = [ip EXCEPT !.addrs[j] = x]
        /\ UNCHANGED << bytes, dinode, type, exists, written, damaged, signed, wild, astray, crashed >>
    BY DEF Bmap, Writes, file, traces, Marked
  <1>2. Shape
    BY DEF FileInv
  <1>3. /\ TypeOK /\ OpOK /\ Staged /\ exists /\ op.at \in Writing \ {"end"} /\ op.at \notin Freeing
        /\ Bn \in Bns /\ WordOf(ip, Bn)[1] = 0
    BY <1>1, <1>2, Mapping
  <1>4. b \in Block \ bitmap
    BY <1>1, FreshBlock
  <1>5. NDIRECT \in Nat \ {0} /\ NINDIRECT \in Nat \ {0} /\ NDIRECT \in 0 .. NDIRECT /\ 0 \notin Block
    BY FileSizes DEF Block
  <1> HIDE DEF b
  <1>6. x \in Word /\ x[1] = b /\ x[2] = 0
    BY <1>4, MakeWord DEF Byte
  <1>7. j \in 0 .. NDIRECT /\ (IsDirect(Bn) => j = Bn) /\ (~ IsDirect(Bn) => j = NDIRECT)
    <2>1. Bn \in Int /\ Bn >= 0 /\ NDIRECT \in Int
      BY <1>3, <1>5 DEF Bns
    <2>2. j = IF Bn <= NDIRECT THEN Bn ELSE NDIRECT
      BY <2>1, MinOfTwo
    <2> QED BY <1>5, <2>1, <2>2 DEF IsDirect
  <1> HIDE DEF x, j
  <1>8. ip' \in Inode /\ ip'.size = ip.size
    BY <1>1, <1>3, <1>6, <1>7, AddrTyped
  <1>9. Shape'
    <2>1. TypeOK'
      BY <1>1, <1>3, <1>4, <1>8 DEF TypeOK
    <2>2. OpOK'
      BY <1>1, <1>3 DEF OpOK
    <2>3. Staged'
      BY <1>1, <1>3, <1>8 DEF Staged, Writing
    <2> QED BY <1>1, <1>3, <2>1, <2>2, <2>3 DEF Shape
  <1> SUFFICES ASSUME ~ astray PROVE Whole'
    BY <1>1, <1>9 DEF FileInv
  <1>10. Damage /\ InUse
    BY <1>3 DEF FileInv, Whole
  <1>11. CASE IsDirect(Bn)
    <2>1. Puts(Bn, x) /\ x[1] # 0
      BY <1>1, <1>4, <1>5, <1>6, <1>7, <1>11 DEF Puts
    <2>2. Own' /\ NoMore' /\ OnDisk' /\ Data' /\ Linking' /\ Damage'
      BY <1>1, <1>2, <1>3, <1>4, <1>6, <1>10, <2>1, PutKeeps
    <2>3. Sums'
      <3>1. bytes[b] = Zeros /\ b \notin DamagedBlocks
        BY <1>4, <1>10 DEF Damage, FreeIsZero
      <3> QED BY <1>1, <1>2, <1>3, <1>4, <1>10, <2>1, <3>1, FreshKeepsSums DEF x
    <2>4. Pending'
      <3>1. Bn \in Sound(ip)
        BY <1>3, <1>11 DEF Sound
      <3>2. op.off + op.left > ip.size
        BY <1>1, <1>2, <1>10, <3>1, BeyondTheSize
      <3> QED BY <1>1, <1>3, <1>8, <3>2 DEF Pending
    <2> QED BY <1>1, <1>3, <2>2, <2>3, <2>4 DEF Whole, InUse
  <1>12. CASE ~ IsDirect(Bn)
    <2>1. /\ \A bn \in Bns : WordOf(ip, bn)' = WordOf(ip, bn) /\ WordOf(dinode, bn)' = WordOf(dinode, bn)
          /\ Indirect(ip)' = b /\ Indirect(dinode)' = Indirect(dinode)
          /\ Sound(ip) = Bns /\ Sound(ip)' = Bns /\ Changed(ip) = {} /\ Changed(ip)' = {}
      BY <1>1, <1>3, <1>4, <1>7, <1>10, <1>12, NewIndirect DEF x
    <2>2. Indirect(ip) = 0 /\ b # 0
      BY <1>4, <1>5, <1>12
    <2>3. \A i \in 0 .. MaxSize - 1 : i \div BSIZE \in Bns
      BY FileSizes
    <2>4. Own'
      <3>1. \A bn \in Bns : WordOf(ip, bn)[1] # 0 => WordOf(ip, bn)[1] \in bitmap /\ WordOf(ip, bn)[1] # b
        BY <1>4, <1>10, <2>1 DEF InUse, Own
      <3> QED BY <1>1, <1>10, <2>1, <3>1 DEF InUse, Own
    <2>5. NoMore'
      <3> SUFFICES ASSUME ~ crashed, NEW a \in bitmap'
                   PROVE  a = Indirect(ip)' \/ \E bn \in Bns : a = WordOf(ip, bn)'[1]
        BY <1>1 DEF NoMore
      <3>1. CASE a = b
        BY <2>1, <3>1
      <3>2. CASE a \in bitmap
        <4>1. a # 0
          BY <1>3, <1>5, <3>2 DEF TypeOK
        <4> QED BY <1>1, <1>10, <2>1, <2>2, <3>2, <4>1 DEF InUse, NoMore
      <3> QED BY <1>1, <3>1, <3>2
    <2>6. OnDisk'
      <3>1. dinode'.size = ip'.size /\ Indirect(dinode)' \in {0, Indirect(ip)'} /\ dinode' = dinode
        BY <1>1, <1>8, <1>10, <2>1, <2>2 DEF InUse, OnDisk
      <3> QED BY <1>10, <2>1, <2>3, <3>1 DEF InUse, OnDisk, IsDirect
    <2>7. Data'
      <3>1. \A i \in 0 .. MaxSize - 1 : Covered(i)' => Covered(i)
        BY <1>1, <1>8 DEF Covered
      <3> QED BY <1>1, <1>10, <2>1, <2>3, <3>1 DEF InUse, Data
    <2>8. DamagedBlocks' = DamagedBlocks
      BY <1>1 DEF DamagedBlocks
    <2>9. Damage'
      BY <1>1, <1>10, <2>8 DEF Damage, FreeIsZero
    <2>10. Sums'
      <3>1. \A bn \in Bns : SumOK(WordOf(ip, bn)) => SumOK(WordOf(ip, bn))'
        BY <1>1, <2>1, <2>8 DEF SumOK, Sum
      <3> QED BY <1>1, <1>10, <2>1, <3>1 DEF InUse, Sums
    <2>11. Pending'
      <3>1. op.off + op.left > ip.size
        BY <1>1, <1>2, <1>3, <1>10, <2>1, BeyondTheSize
      <3> QED BY <1>1, <1>3, <1>8, <3>1 DEF Pending
    <2>12. Linking'
      BY <1>1 DEF Linking
    <2> QED BY <1>1, <1>3, <2>4, <2>5, <2>6, <2>7, <2>9, <2>10, <2>11, <2>12 DEF Whole, InUse
  <1> QED BY <1>11, <1>12

(* The block is marked and is nobody's yet.                                *)
LEMMA BmapMarks ==
  ASSUME FileAssumption, FileInv, Bmap, WordOf(ip, Bn) = Null, ~ IsDirect(Bn), Indirect(ip) # 0
  PROVE  FileInv'
  <1>0. op.at = "map" /\ FreshBlocks # {}
    BY DEF Bmap, Writes
  <1>4. PICK b \in Block \ bitmap : b = Min(FreshBlocks)
    BY <1>0, FreshBlock
  <1>1. /\ op.at = "map" /\ op' = [op EXCEPT !.at = "link", !.b = b]
        /\ bitmap' = bitmap \cup {b} /\ words' = words /\ ip' = ip
        /\ UNCHANGED << bytes, dinode, type, exists, written, damaged, signed, wild, astray, crashed >>
    BY <1>4 DEF Bmap, Writes, file, traces, Links, MarksNow, Marked
  <1>2. Shape
    BY DEF FileInv
  <1>3. /\ TypeOK /\ OpOK /\ Staged /\ exists /\ op.at \in Writing \ {"end"} /\ op.at \notin Freeing
        /\ Bn \in Bns
    BY <1>1, <1>2, Mapping
  <1>5. /\ OpOK' /\ op'.at = "link" /\ op'.off = op.off /\ op'.left = op.left /\ op'.v = op.v /\ op'.b = b
        /\ Bn' = Bn
    BY <1>1, <1>3, <1>4, CallMoves DEF Writing
  <1>6. /\ \A bn \in Bns : WordOf(ip, bn)' = WordOf(ip, bn) /\ WordOf(dinode, bn)' = WordOf(dinode, bn)
        /\ Indirect(ip)' = Indirect(ip) /\ Indirect(dinode)' = Indirect(dinode)
    BY <1>1, SameWords
  <1>7. Shape'
    <2>1. TypeOK'
      BY <1>1, <1>3, <1>4, <1>5 DEF TypeOK, Stages
    <2>2. Staged'
      <3>1. PICK k \in Bns : k = Bn
        BY <1>3
      <3>2. WordOf(ip, k)' = WordOf(ip, k) /\ Bn' = k
        BY <1>5, <1>6, <3>1
      <3>3. WordOf(ip, Bn)' = WordOf(ip, k)
        BY <3>2 DEF WordOf, Indirect, IsDirect
      <3>4. WordOf(ip, k) = Null /\ ~ IsDirect(k)
        BY <3>1
      <3>5. op.v = NoByte => op'.off + op'.left <= ip'.size
        BY <1>1, <1>3, <1>5 DEF Staged
      <3> QED BY <1>5, <1>6, <3>2, <3>3, <3>4, <3>5 DEF Staged, IsDirect
    <2> QED BY <1>1, <1>3, <1>5, <2>1, <2>2 DEF Shape, Freeing
  <1> SUFFICES ASSUME ~ astray PROVE Whole'
    BY <1>1, <1>7 DEF FileInv
  <1>8. Damage /\ InUse
    BY <1>3 DEF FileInv, Whole
  <1>9. /\ Sound(ip)' = Sound(ip) /\ Changed(ip)' = Changed(ip) /\ Sound(ip) \subseteq Bns
        /\ \A i \in 0 .. MaxSize - 1 : i \div BSIZE \in Bns
    BY <1>1, <1>6, SameSound, SoundIsBns, FileSizes
  <1>10. Own'
    BY <1>1, <1>6, <1>8, <1>9 DEF InUse, Own
  <1>11. NoMore'
    BY <1>1, <1>5, <1>6, <1>8, <1>9 DEF InUse, NoMore
  <1>12. OnDisk'
    BY <1>1, <1>6, <1>8, <1>9 DEF InUse, OnDisk, IsDirect
  <1>13. Pending'
    BY <1>1, <1>3, <1>5, <1>8 DEF InUse, Pending, Writing
  <1>14. Data'
    <2>1. \A i \in 0 .. MaxSize - 1 : Covered(i)' => Covered(i)
      BY <1>1, <1>3, <1>5 DEF Covered
    <2> QED BY <1>1, <1>6, <1>8, <1>9, <2>1 DEF InUse, Data
  <1>15. DamagedBlocks' = DamagedBlocks
    BY <1>1 DEF DamagedBlocks
  <1>16. Sums'
    <2>1. \A bn \in Bns : SumOK(WordOf(ip, bn)) => SumOK(WordOf(ip, bn))'
      BY <1>1, <1>6, <1>15 DEF SumOK, Sum
    <2> QED BY <1>1, <1>5, <1>8, <1>9, <2>1 DEF InUse, Sums
  <1>17. Linking'
    <2>1. bytes[b] = Zeros /\ b \notin DamagedBlocks
      BY <1>4, <1>8 DEF Damage, FreeIsZero
    <2>2. b # Indirect(ip) /\ \A bn \in Sound(ip) : WordOf(ip, bn)[1] # b
      <3>1. b # 0
        BY <1>4, FileSizes DEF Block
      <3> QED BY <1>4, <1>8, <3>1 DEF InUse, Own
    <2>3. bytes'[b] = Zeros' /\ Alone(b)'
      BY <1>1, <1>6, <1>9, <2>1, <2>2 DEF Alone, Zeros
    <2> QED BY <1>1, <1>5, <1>15, <2>1, <2>3 DEF Linking
  <1>18. Damage'
    BY <1>1, <1>8, <1>15 DEF Damage, FreeIsZero
  <1> QED BY <1>5, <1>10, <1>11, <1>12, <1>13, <1>14, <1>16, <1>17, <1>18 DEF Whole, InUse, Freeing

LEMMA BmapKeeps ==
  ASSUME FileAssumption, FileInv, Bmap PROVE FileInv'
  BY BmapFound, BmapInInode, BmapMarks

LEMMA LinkBlockKeeps ==
  ASSUME FileAssumption, FileInv, LinkBlock PROVE FileInv'
  <1> DEFINE x == << op.b, 0 >>
  <1>1. /\ op.at = "link" /\ op' = [op EXCEPT !.at = "map", !.b = 0]
        /\ words' = [words EXCEPT ![Indirect(ip)][Bn - NDIRECT] = x] /\ ip' = ip /\ bitmap' = bitmap
        /\ UNCHANGED << bytes, dinode, type, exists, written, damaged, signed, wild, astray, crashed >>
    BY DEF LinkBlock, Writes, file, traces, Links, MarksNow
  <1>2. Shape
    BY DEF FileInv
  <1>3. /\ TypeOK /\ OpOK /\ Staged /\ exists /\ op.at \in Writing \ {"end"} /\ op.at \notin Freeing
        /\ Bn \in Bns /\ WordOf(ip, Bn)[1] = 0 /\ ~ IsDirect(Bn) /\ Indirect(ip) # 0
    <2>1. WordOf(ip, Bn) = Null /\ ~ IsDirect(Bn) /\ Indirect(ip) # 0
      BY <1>1, <1>2 DEF Shape, Staged
    <2> QED BY <1>1, <1>2, <2>1, Mapping
  <1>4. op.b \in Block /\ op.b # 0
    BY <1>1, <1>3, CallTyped, FileSizes DEF Block
  <1>5. x \in Word /\ x[1] = op.b /\ x[2] = 0
    BY <1>4, MakeWord DEF Byte
  <1>6. OpOK' /\ op'.at = "map" /\ op'.off = op.off /\ op'.left = op.left /\ op'.v = op.v
    <2>1. "map" \in Writing \ {"end"} /\ 0 \in Block \cup {0} /\ "map" # "link"
      BY DEF Writing
    <2> QED BY <1>1, <1>3, <2>1, CallMoves
  <1>7. Puts(Bn, x)
    BY <1>1, <1>3 DEF Puts
  <1> HIDE DEF x
  <1>8. Shape'
    <2>1. words' \in [Block -> [0 .. NINDIRECT - 1 -> Word]]
      BY <1>1, <1>3, <1>5, <1>7, PutWord
    <2>2. TypeOK'
      BY <1>1, <1>3, <1>6, <2>1 DEF TypeOK, Stages
    <2>3. Staged'
      BY <1>1, <1>3, <1>6 DEF Staged
    <2> QED BY <1>1, <1>3, <1>6, <2>2, <2>3 DEF Shape, Freeing
  <1> SUFFICES ASSUME ~ astray PROVE Whole'
    BY <1>1, <1>8 DEF FileInv
  <1>9. Damage /\ InUse
    BY <1>3 DEF FileInv, Whole
  <1>10. Own' /\ NoMore' /\ OnDisk' /\ Data' /\ Linking' /\ Damage'
    <2>1. op'.at \in Writing \ {"link"} /\ x[1] # 0
      BY <1>4, <1>5, <1>6 DEF Writing
    <2> QED BY <1>1, <1>2, <1>3, <1>5, <1>6, <1>7, <1>9, <2>1, PutKeeps
  <1>11. Sums'
    <2>1. bytes[op.b] = Zeros /\ op.b \notin DamagedBlocks
      BY <1>1, <1>9 DEF InUse, Linking
    <2>2. Puts(Bn, << op.b, 0 >>)
      BY <1>7 DEF x
    <2> QED BY <1>1, <1>2, <1>3, <1>4, <1>9, <2>1, <2>2, FreshKeepsSums
  <1>12. Pending'
    BY <1>1, <1>3, <1>6, <1>9 DEF InUse, Pending, Writing
  <1> QED BY <1>6, <1>10, <1>11, <1>12 DEF Whole, InUse, Freeing

---------------------------------------------------------------------------
(* The checksum, the block, and the end of the call. *)

LEMMA SetSumKeeps ==
  ASSUME FileAssumption, FileInv, SetSum PROVE FileInv'
  <1>1. /\ op.at = "sum" /\ op' = [op EXCEPT !.at = "store"]
        /\ UNCHANGED << bitmap, bytes, dinode, type, exists, written, damaged, signed, wild, astray,
                        crashed >>
    BY DEF SetSum, Writes, file, traces
  <1>2. Shape
    BY DEF FileInv
  <1>3. /\ TypeOK /\ OpOK /\ Staged /\ exists /\ op.at \in Writing \ {"end"} /\ op.at \notin Freeing
        /\ Bn \in Bns /\ WordOf(ip, Bn) \in Word
    BY <1>1, <1>2, Mapping
  <1>4. PICK k \in Bns : k = Bn
    BY <1>3
  <1>5. op.v \in Byte /\ op.v # NoByte
    <2>1. op.v \in Byte
      BY <1>1, <1>3, CallTyped
    <2> QED BY <2>1 DEF Byte, NoByte
  <1>6. /\ OpOK' /\ op'.at = "store" /\ op'.off = op.off /\ op'.left = op.left
        /\ op'.v = op.v /\ Bn' = k /\ InBlock' = InBlock
    <2>1. "store" \in Writing \ {"end"} /\ op.b \in Block \cup {0}
      BY <1>3, CallTyped DEF Writing
    <2> QED BY <1>1, <1>3, <1>4, <1>5, <2>1, CallMoves
  <1>7. DamagedBlocks' = DamagedBlocks
    BY <1>1 DEF DamagedBlocks
  <1> DEFINE old == WordOf(ip, k)
             x == << old[1], NewSum >>
  <1>8. old[1] # 0 /\ old \in Word
    BY <1>1, <1>3, <1>4 DEF Staged
  <1>9. old[1] \in Block /\ NewSum \in Byte
    BY <1>8, WordFacts, Parity DEF NewSum
  <1>10. x \in Word /\ x[1] = old[1] /\ x[2] = NewSum
    BY <1>9, MakeWord
  <1>11. /\ type # "T_CHECKED" => UNCHANGED << words, ip >>
         /\ type = "T_CHECKED" => Puts(k, x)
    <2>1. ASSUME type # "T_CHECKED" PROVE UNCHANGED << words, ip >>
      BY <2>1 DEF SetSum
    <2>2. ASSUME type = "T_CHECKED", IsDirect(k) PROVE Puts(k, x)
      <3>1. old = ip.addrs[k]
        BY <2>2 DEF WordOf
      <3>2. ip' = [ip EXCEPT !.addrs[k] = << ip.addrs[k][1], NewSum >>] /\ words' = words
        BY <1>4, <2>2 DEF SetSum
      <3> QED BY <2>2, <3>1, <3>2 DEF Puts
    <2>3. ASSUME type = "T_CHECKED", ~ IsDirect(k) PROVE Puts(k, x)
      <3>1. Indirect(ip) # 0
        BY <1>8, <2>3, NullFacts DEF WordOf
      <3>2. old = words[Indirect(ip)][k - NDIRECT]
        BY <2>3, <3>1 DEF WordOf
      <3>3. words' = [words EXCEPT ![Indirect(ip)][k - NDIRECT] =
                        << words[Indirect(ip)][k - NDIRECT][1], NewSum >>] /\ ip' = ip
        BY <1>4, <2>3 DEF SetSum
      <3> QED BY <2>3, <3>1, <3>2, <3>3 DEF Puts
    <2> QED BY <2>1, <2>2, <2>3
  <1> HIDE DEF x, old
  <1>12. /\ ip' \in Inode /\ words' \in [Block -> [0 .. NINDIRECT - 1 -> Word]] /\ ip'.size = ip.size
         /\ Indirect(ip)' = Indirect(ip)
         /\ WordOf(ip, k)'[1] = old[1]
         /\ type = "T_CHECKED" =>
              \A bn \in Bns : WordOf(ip, bn)' = IF bn = k THEN x ELSE WordOf(ip, bn)
    <2>1. CASE type # "T_CHECKED"
      BY <1>1, <1>3, <1>11, <2>1, SameWords DEF TypeOK, old
    <2>2. CASE type = "T_CHECKED"
      BY <1>1, <1>3, <1>10, <1>11, <2>2, PutWord
    <2> QED BY <2>1, <2>2
  <1>13. Shape'
    <2>1. TypeOK'
      BY <1>1, <1>3, <1>6, <1>12 DEF TypeOK, Stages
    <2>2. WordOf(ip, Bn)' = WordOf(ip, k)'
      BY <1>6 DEF WordOf, Indirect, IsDirect
    <2>3. type = "T_CHECKED" => WordOf(ip, Bn)'[2] = NewSum'
      <3> SUFFICES ASSUME type = "T_CHECKED" PROVE WordOf(ip, Bn)'[2] = NewSum'
        OBVIOUS
      <3>1. WordOf(ip, k)' = x
        BY <1>12
      <3>2. Target' = Target
        <4>1. Target' = WordOf(ip, Bn)'[1] /\ Target = WordOf(ip, Bn)[1]
          BY DEF Target
        <4> QED BY <1>4, <1>12, <2>2, <4>1 DEF old
      <3>3. NewBytes' = NewBytes
        BY <1>1, <1>6, <3>2 DEF NewBytes
      <3> QED BY <1>10, <2>2, <3>1, <3>3 DEF NewSum, Sum
    <2>4. Staged'
      BY <1>1, <1>5, <1>6, <1>8, <1>12, <2>2, <2>3 DEF Staged
    <2> QED BY <1>1, <1>3, <1>6, <2>1, <2>4 DEF Shape, Freeing
  <1> SUFFICES ASSUME ~ astray PROVE Whole'
    BY <1>1, <1>13 DEF FileInv
  <1>14. Damage /\ InUse
    BY <1>3 DEF FileInv, Whole
  <1>15. CASE type # "T_CHECKED"
    <2>1. UNCHANGED << bitmap, bytes, words, dinode, ip, type, written, damaged, signed, wild, crashed >>
      BY <1>1, <1>11, <1>15
    <2>2. \A i \in 0 .. MaxSize - 1 : Covered(i)' => Covered(i)
      BY <1>3, <1>6, <2>1 DEF Covered
    <2>3. Damage' /\ Own' /\ NoMore' /\ OnDisk' /\ Data' /\ Sums' /\ Linking'
      BY <1>1, <1>6, <1>14, <2>1, <2>2, OnlyCall
    <2>4. Pending'
      BY <1>3, <1>6, <1>14, <2>1 DEF InUse, Pending, Writing
    <2> QED BY <1>6, <2>3, <2>4 DEF Whole, InUse, Freeing
  <1>16. CASE type = "T_CHECKED"
    <2>1. Own' /\ NoMore' /\ OnDisk' /\ Data' /\ Linking' /\ Damage'
      <3>1. op'.at \in Writing \ {"link"} /\ x[1] = WordOf(ip, k)[1] /\ x[1] # 0
        BY <1>6, <1>8, <1>10 DEF Writing, old
      <3> QED BY <1>1, <1>2, <1>3, <1>6, <1>10, <1>11, <1>14, <1>16, <3>1, PutKeeps
    <2>2. Pending'
      BY <1>1, <1>16 DEF Pending
    <2>3. Sound(ip)' = Sound(ip) /\ Sound(ip) \subseteq Bns
      BY <1>1, <1>12, SameSound, SoundIsBns
    <2>4. Sums'
      <3> SUFFICES ASSUME ~ crashed, NEW bn \in Sound(ip), bn # k PROVE SumOK(WordOf(ip, bn))'
        BY <1>1, <1>6, <2>3 DEF Sums
      <3>1. SumOK(WordOf(ip, bn))
        BY <1>1, <1>14, <1>16 DEF InUse, Sums
      <3>2. WordOf(ip, bn)' = WordOf(ip, bn)
        BY <1>12, <1>16, <2>3
      <3> QED BY <1>1, <1>7, <3>1, <3>2 DEF SumOK, Sum
    <2> QED BY <1>6, <2>1, <2>2, <2>4 DEF Whole, InUse, Freeing
  <1> QED BY <1>15, <1>16

LEMMA StoreKeeps ==
  ASSUME FileAssumption, FileInv, Store PROVE FileInv'
  <1> DEFINE m == Cardinality(InBlock)
             T == Target
  <1>1. /\ op.at = "store"
        /\ UNCHANGED << bitmap, words, dinode, ip, type, exists, wild, crashed >>
        /\ bytes' = [bytes EXCEPT ![T] = NewBytes]
        /\ written' = [i \in DOMAIN written |->
                        IF i >= op.off /\ i < op.off + m THEN op.v ELSE written[i]]
        /\ damaged' = damaged \ ({T} \X InBlock)
        /\ signed' = {d[1] : d \in {e \in damaged' : e[1] \in signed \cup {T}}}
        /\ astray' = (astray \/ Misled(Bn))
        /\ op' = [op EXCEPT !.at = IF m = op.left THEN "end" ELSE "map",
                            !.off = op.off + m, !.left = op.left - m]
    BY DEF Store, Writes, file
  <1>2. Shape
    BY DEF FileInv
  <1>3. /\ TypeOK /\ OpOK /\ Staged /\ exists /\ op.at \in Writing \ {"end"} /\ op.at \notin Freeing
        /\ Bn \in Bns /\ WordOf(ip, Bn) \in Word
    BY <1>1, <1>2, Mapping
  <1>4. /\ op \in WriteCall /\ op.off \in 0 .. MaxSize /\ op.left \in 0 .. MaxSize
        /\ op.v \in Byte /\ op.off + op.left <= MaxSize /\ MaxSize \in Nat
    BY <1>1, <1>3, CallTyped, FileSizes
  <1>5. /\ m \in 1 .. op.left
        /\ \A i \in 0 .. MaxSize - 1 :
              (i >= op.off /\ i < op.off + m) <=> (i \div BSIZE = Bn /\ i % BSIZE \in InBlock)
    BY <1>1, <1>3, Places
  <1> HIDE DEF m
  <1>6. /\ op' \in WriteCall /\ op'.off = op.off + m /\ op'.left = op.left - m /\ op'.v = op.v
        /\ op'.at \in {"end", "map"} /\ (op'.at = "end" <=> m = op.left)
    <2> DEFINE a == IF m = op.left THEN "end" ELSE "map"
    <2>1. a \in Writing /\ a \in {"end", "map"} /\ (a = "end" <=> m = op.left)
      BY DEF Writing
    <2>2. op' = [op EXCEPT !.at = a, !.off = op.off + m, !.left = op.left - m]
      BY <1>1
    <2> HIDE DEF a
    <2>3. op.off + m \in 0 .. MaxSize /\ op.left - m \in 0 .. MaxSize
      BY <1>4, <1>5
    <2>4. op'.at = a /\ op'.off = op.off + m /\ op'.left = op.left - m /\ op'.v = op.v
      BY <1>4, <2>2 DEF WriteCall
    <2>5. op' \in WriteCall
      BY <1>4, <2>1, <2>2, <2>3 DEF WriteCall
    <2> QED BY <2>1, <2>4, <2>5
  <1>7. OpOK' /\ op'.at \in Writing /\ op'.at \notin Freeing /\ op'.at \notin {"link", "sum", "store"}
        /\ op'.v # NoByte
    <2>1. op.off \in Int /\ op.left \in Int /\ m \in Int /\ op.off + op.left <= MaxSize
      BY <1>4, <1>5
    <2>2. (op.off + m) + (op.left - m) <= MaxSize /\ (m = op.left <=> op.left - m = 0)
      BY <1>4, <2>1
    <2> QED BY <1>4, <1>6, <2>2 DEF OpOK, Writing, Freeing, Byte, NoByte
  <1>8. WordOf(ip, Bn)[1] # 0 /\ WordOf(ip, Bn)[1] = T /\ T \in Block
    BY <1>1, <1>3, WordFacts DEF Staged, Target
  <1>9. NewBytes \in [Cell -> Byte]
    BY <1>3, <1>4, <1>8 DEF NewBytes, TypeOK
  <1>10. /\ bytes' \in [Block -> [Cell -> Byte]] /\ bytes'[T] = NewBytes
         /\ \A b \in Block : b # T => bytes'[b] = bytes[b]
    BY <1>1, <1>3, <1>8, <1>9 DEF TypeOK
  <1>11. written' \in [0 .. MaxSize - 1 -> Byte]
         /\ \A i \in 0 .. MaxSize - 1 :
               written'[i] = IF i >= op.off /\ i < op.off + m THEN op.v ELSE written[i]
    BY <1>1, <1>3, <1>4 DEF TypeOK
  <1>12. damaged' \subseteq Block \X Cell
    BY <1>1, <1>3 DEF TypeOK
  <1> HIDE DEF T
  <1>13. ASSUME NEW b \in Block
         PROVE  /\ b \in DamagedBlocks' => b \in DamagedBlocks
                /\ b # T => (b \in DamagedBlocks <=> b \in DamagedBlocks')
                /\ b \in signed' <=> b \in DamagedBlocks' /\ b \in signed \cup {T}
    <2>1. \A d \in damaged' : d \in damaged
      BY <1>1
    <2>2. ASSUME b # T, NEW d \in damaged, d[1] = b PROVE d \in damaged'
      <3>1. d \notin {T} \X InBlock
        BY <2>2
      <3> QED BY <1>1, <3>1
    <2> QED BY <1>1, <2>1, <2>2 DEF DamagedBlocks
  <1>14. signed' \subseteq DamagedBlocks' /\ DamagedBlocks' \subseteq DamagedBlocks
         /\ DamagedBlocks \subseteq Block
    <2>1. DamagedBlocks' \subseteq DamagedBlocks
      BY <1>1 DEF DamagedBlocks
    <2> QED BY <1>1, <1>3, <2>1 DEF DamagedBlocks, TypeOK
  <1>15. Shape'
    <2>1. TypeOK'
      BY <1>1, <1>3, <1>7, <1>10, <1>11, <1>12, <1>14 DEF TypeOK, Stages, Writing, Misled
    <2>2. Staged'
      BY <1>7 DEF Staged, Freeing
    <2> QED BY <1>1, <1>3, <1>7, <2>1, <2>2 DEF Shape
  <1> SUFFICES ASSUME ~ astray, ~ Misled(Bn) PROVE Whole'
    BY <1>1, <1>15 DEF FileInv
  <1>16. Damage /\ InUse
    BY <1>3 DEF FileInv, Whole
  <1>17. Bn \in Sound(ip)
    BY <1>3, SoundNotMisled
  <1>18. T \in bitmap
    BY <1>8, <1>16, <1>17 DEF InUse, Own
  <1>19. Damage'
    <2>1. FreeIsZero'
      BY <1>1, <1>16, <1>18, <1>10 DEF Damage, FreeIsZero, Zeros, NoWords
    <2> QED BY <1>1, <1>14, <1>16, <2>1 DEF Damage
  <1>20. /\ \A bn \in Bns : WordOf(ip, bn)' = WordOf(ip, bn) /\ WordOf(dinode, bn)' = WordOf(dinode, bn)
         /\ Indirect(ip)' = Indirect(ip) /\ Indirect(dinode)' = Indirect(dinode)
    BY <1>1, SameWords
  <1>21. /\ Sound(ip)' = Sound(ip) /\ Changed(ip)' = Changed(ip) /\ Sound(ip) \subseteq Bns
         /\ \A i \in 0 .. MaxSize - 1 : i \div BSIZE \in Bns /\ i % BSIZE \in Cell
    BY <1>1, <1>20, SameSound, SoundIsBns, FileSizes
  <1>22. Own' /\ NoMore'
    BY <1>1, <1>16, <1>20, <1>21 DEF InUse, Own, NoMore
  <1>23. OnDisk'
    BY <1>1, <1>16, <1>20, <1>21 DEF InUse, OnDisk, IsDirect
  <1>24. Pending'
    <2>1. op'.off + op'.left = op.off + op.left
      BY <1>4, <1>5, <1>6
    <2> QED BY <1>1, <1>7, <1>16, <2>1 DEF InUse, Pending
  <1>25. ASSUME NEW bn \in Sound(ip), WordOf(ip, bn)[1] # 0, bn # Bn
         PROVE  WordOf(ip, bn)[1] # T /\ WordOf(ip, bn)[1] \in Block
    <2>1. WordOf(ip, bn)[1] \in bitmap /\ WordOf(ip, Bn)[1] # WordOf(ip, bn)[1]
      BY <1>16, <1>17, <1>25 DEF InUse, Own
    <2> QED BY <1>3, <1>8, <2>1 DEF TypeOK
  <1>26. Data'
    <2> SUFFICES ASSUME NEW i \in 0 .. MaxSize - 1, Covered(i)', i \div BSIZE \in Sound(ip)
                 PROVE  /\ WordOf(ip, i \div BSIZE)[1] # 0
                        /\ \/ << WordOf(ip, i \div BSIZE)[1], i % BSIZE >> \in damaged'
                           \/ bytes'[WordOf(ip, i \div BSIZE)[1]][i % BSIZE] = written'[i]
      BY <1>20, <1>21 DEF Data
    <2>1. i < op.off + m => Covered(i) \/ i >= op.off
      BY <1>3, <1>4, <1>5 DEF Covered
    <2>2. Covered(i) \/ (i >= op.off /\ i < op.off + m)
      BY <1>1, <1>3, <1>6, <2>1 DEF Covered
    <2>3. CASE i \div BSIZE = Bn /\ i % BSIZE \in InBlock
      <3>1. i >= op.off /\ i < op.off + m
        BY <1>5, <2>3
      <3>2. written'[i] = op.v
        BY <1>11, <3>1
      <3>3. bytes'[T][i % BSIZE] = op.v
        BY <1>10, <1>21, <2>3 DEF NewBytes
      <3> QED BY <1>8, <2>3, <3>2, <3>3
    <2>4. CASE i \div BSIZE = Bn /\ i % BSIZE \notin InBlock
      <3>1. Covered(i) /\ written'[i] = written[i]
        BY <1>5, <1>11, <2>2, <2>4
      <3>2. \/ << T, i % BSIZE >> \in damaged
            \/ bytes[T][i % BSIZE] = written[i]
        BY <1>8, <1>16, <2>4, <3>1 DEF InUse, Data
      <3>3. << T, i % BSIZE >> \in damaged => << T, i % BSIZE >> \in damaged'
        BY <1>1, <2>4 DEF T
      <3>4. bytes'[T][i % BSIZE] = bytes[T][i % BSIZE]
        BY <1>10, <1>21, <2>4 DEF NewBytes, T
      <3> QED BY <1>8, <2>4, <3>1, <3>2, <3>3, <3>4
    <2>5. CASE i \div BSIZE # Bn
      <3>1. Covered(i) /\ written'[i] = written[i]
        BY <1>5, <1>11, <2>2, <2>5
      <3> DEFINE b == WordOf(ip, i \div BSIZE)[1]
      <3>2. /\ b # 0
            /\ \/ << b, i % BSIZE >> \in damaged
               \/ bytes[b][i % BSIZE] = written[i]
        BY <1>16, <3>1 DEF InUse, Data
      <3>3. b # T /\ b \in Block
        BY <1>25, <2>5, <3>2
      <3> HIDE DEF b
      <3>4. << b, i % BSIZE >> \in damaged => << b, i % BSIZE >> \in damaged'
        <4>1. << b, i % BSIZE >> \notin {T} \X InBlock
          BY <3>3
        <4> QED BY <1>1, <4>1 DEF T
      <3> QED BY <1>10, <3>1, <3>2, <3>3, <3>4 DEF b
    <2> QED BY <2>3, <2>4, <2>5
  <1>27. Sums'
    <2> SUFFICES ASSUME type = "T_CHECKED", ~ crashed, NEW bn \in Sound(ip) PROVE SumOK(WordOf(ip, bn))'
      BY <1>1, <1>21 DEF Sums
    <2> DEFINE x == WordOf(ip, bn)
    <2>0. WordOf(ip, bn)' = x
      BY <1>20, <1>21
    <2>1. CASE bn = Bn
      <3>1. x[1] = T /\ x[2] = NewSum
        BY <1>1, <1>3, <1>8, <2>1 DEF Staged
      <3>2. x[2] = Sum(bytes'[x[1]])
        BY <1>10, <3>1 DEF NewSum, Sum
      <3>3. T \notin DamagedBlocks' \ signed'
        BY <1>8, <1>13
      <3> QED BY <2>0, <3>1, <3>2, <3>3 DEF SumOK, Sum
    <2>2. CASE bn # Bn /\ x[1] # 0
      <3>1. x[1] # T /\ x[1] \in Block
        BY <1>25, <2>2
      <3>2. SumOK(x)
        BY <1>1, <1>16, <2>2 DEF InUse, Sums
      <3>3. bytes'[x[1]] = bytes[x[1]]
        BY <1>10, <3>1
      <3>4. x[1] \notin DamagedBlocks' \ signed' <=> x[1] \notin DamagedBlocks \ signed
        BY <1>16, <1>13, <3>1 DEF Damage
      <3> HIDE DEF x
      <3> QED BY <2>0, <3>2, <3>3, <3>4 DEF SumOK, Sum
    <2>3. CASE x[1] = 0
      BY <2>0, <2>3 DEF SumOK
    <2> QED BY <2>1, <2>2, <2>3
  <1>28. Linking'
    BY <1>7 DEF Linking
  <1> QED BY <1>7, <1>19, <1>22, <1>23, <1>24, <1>26, <1>27, <1>28 DEF Whole, InUse

(* A block of the file is named in the inode or in its block of words.     *)
LEMMA HasIndirect ==
  ASSUME FileAssumption, TypeOK, NEW bn \in Bns, bn \in Sound(ip) => WordOf(ip, bn)[1] # 0
  PROVE  IsDirect(bn) \/ Indirect(ip) # 0
  <1>1. 0 \notin Block
    BY FileSizes DEF Block
  <1>2. << 0, bn - NDIRECT >> \notin wild
    BY <1>1 DEF TypeOK
  <1> QED BY <1>2, NullFacts DEF Sound, WordOf

LEMMA WriteEndKeeps ==
  ASSUME FileAssumption, FileInv, WriteEnd PROVE FileInv'
  <1>1. /\ op.at = "end" /\ op.at \in Writing /\ op.at \notin Freeing /\ op' = Idle
        /\ UNCHANGED << bitmap, bytes, words, type, exists, written, damaged, signed, wild, astray, crashed >>
        /\ ip' = [ip EXCEPT !.size = Max({ip.size, op.off})]
        /\ dinode' = IF op.off > ip.size THEN ip' ELSE dinode
    BY DEF WriteEnd, Writes, file, traces, Writing, Freeing, UpdatesInode
  <1>2. TypeOK /\ OpOK /\ exists
    BY <1>1 DEF FileInv, Shape
  <1>3. op.off \in 0 .. MaxSize /\ op.left = 0 /\ MaxSize \in Nat
    BY <1>1, <1>2, CallTyped, FileSizes
  <1>4. ip \in Inode /\ dinode \in Inode /\ ip.size \in 0 .. MaxSize
    BY <1>2 DEF TypeOK, Inode
  <1>5. Max({ip.size, op.off}) = IF ip.size <= op.off THEN op.off ELSE ip.size
    BY <1>3, <1>4, MaxOfTwo
  <1>6. /\ ip'.size = (IF ip.size <= op.off THEN op.off ELSE ip.size)
        /\ ip'.addrs = ip.addrs /\ ip' \in Inode
    BY <1>1, <1>3, <1>4, <1>5 DEF Inode
  <1>7. op'.at = "idle" /\ op'.at \notin Writing /\ op'.at \notin Freeing
    BY <1>1 DEF Idle, Writing, Freeing
  <1>8. Shape'
    <2>1. TypeOK' /\ OpOK'
      BY <1>1, <1>2, <1>4, <1>6, <1>7 DEF TypeOK, OpOK, Stages
    <2>2. Staged'
      BY <1>7 DEF Staged
    <2> QED BY <1>1, <1>2, <1>7, <2>1, <2>2 DEF Shape
  <1> SUFFICES ASSUME ~ astray PROVE Whole'
    BY <1>1, <1>8 DEF FileInv
  <1>9. InUse /\ Damage
    BY <1>1 DEF FileInv, Whole
  <1>10. Damage' /\ DamagedBlocks' = DamagedBlocks
    BY <1>1, <1>9, SameDamage
  <1>11. /\ Indirect(ip)' = Indirect(ip)
         /\ \A bn \in Bns : WordOf(ip, bn)' = WordOf(ip, bn)
    BY <1>1, <1>6 DEF Indirect, WordOf, IsDirect
  <1>12. /\ Sound(ip)' = Sound(ip) /\ Changed(ip)' = Changed(ip) /\ Sound(ip) \subseteq Bns
         /\ \A i \in 0 .. MaxSize - 1 : i \div BSIZE \in Bns
    BY <1>1, <1>11, SameSound, SoundIsBns, FileSizes
  <1>13. Own' /\ NoMore'
    <2>1. bitmap' = bitmap /\ crashed' = crashed
      BY <1>1
    <2>2. Own /\ NoMore
      BY <1>9 DEF InUse
    <2>3. Own'
      BY <1>11, <1>12, <2>1, <2>2 DEF Own
    <2>4. NoMore'
      <3> SUFFICES ASSUME ~ crashed, Changed(ip) = {}, NEW b \in bitmap
                   PROVE  b = Indirect(ip) \/ \E bn \in Bns : b = WordOf(ip, bn)'[1]
        BY <1>11, <1>12, <2>1 DEF NoMore
      <3>1. b = Indirect(ip) \/ \E bn \in Bns : b = WordOf(ip, bn)[1]
        BY <1>1, <2>2 DEF NoMore
      <3> QED BY <1>11, <3>1
    <2> QED BY <2>3, <2>4
  <1>14. \A i \in 0 .. MaxSize - 1 : i < ip'.size => Covered(i)
    BY <1>1, <1>3, <1>4, <1>6 DEF Covered
  <1>15. Data'
    <2>1. \A i \in 0 .. MaxSize - 1 : Covered(i)' => Covered(i)
      BY <1>7, <1>14 DEF Covered
    <2> QED BY <1>1, <1>9, <1>11, <1>12, <2>1 DEF InUse, Data
  <1>16. Sums'
    <2>1. \A bn \in Bns : SumOK(WordOf(ip, bn)) => SumOK(WordOf(ip, bn))'
      BY <1>1, <1>10, <1>11 DEF SumOK, Sum
    <2> QED BY <1>1, <1>9, <1>12, <2>1 DEF InUse, Sums
  <1>17. Linking'
    BY <1>7 DEF Linking
  <1>18. CASE op.off > ip.size
    <2>1. dinode' = ip'
      BY <1>1, <1>18
    <2>2. /\ Indirect(dinode)' = Indirect(ip)'
          /\ \A bn \in Bns : WordOf(dinode, bn)' = WordOf(ip, bn)'
      BY <2>1 DEF Indirect, WordOf
    <2>3. ASSUME NEW i \in 0 .. MaxSize - 1, i < dinode'.size
          PROVE  /\ IsDirect(i \div BSIZE) \/ Indirect(ip) # 0
                 /\ i \div BSIZE \in Sound(ip) => WordOf(dinode, i \div BSIZE)'[1] # 0
      <3>1. i \div BSIZE \in Sound(ip) => WordOf(ip, i \div BSIZE)[1] # 0
        BY <1>9, <1>14, <2>1, <2>3 DEF InUse, Data
      <3>2. IsDirect(i \div BSIZE) \/ Indirect(ip) # 0
        BY <1>2, <1>12, <3>1, HasIndirect
      <3> QED BY <1>11, <1>12, <2>2, <3>1, <3>2
    <2>4. OnDisk'
      BY <1>11, <1>12, <2>1, <2>2, <2>3 DEF OnDisk, IsDirect
    <2>5. Pending'
      BY <2>1 DEF Pending
    <2> QED BY <1>7, <1>10, <1>13, <1>15, <1>16, <1>17, <2>4, <2>5 DEF Whole, InUse
  <1>19. CASE ~ (op.off > ip.size)
    <2>1. dinode' = dinode /\ ip' = ip
      <3>1. ip'.size = ip.size
        <4>1. ip'.size = IF ip.size <= op.off THEN op.off ELSE ip.size
          BY <1>6
        <4>2. op.off \in Int /\ ip.size \in Int
          BY <1>3, <1>4
        <4> QED BY <1>19, <4>1, <4>2
      <3>2. ip' = ip
        BY <1>4, <1>6, <3>1 DEF Inode
      <3> QED BY <1>1, <1>19, <3>2
    <2>2. /\ Indirect(dinode)' = Indirect(dinode)
          /\ \A bn \in Bns : WordOf(dinode, bn)' = WordOf(dinode, bn)
      BY <1>1, <2>1 DEF Indirect, WordOf, IsDirect
    <2>3. OnDisk'
      BY <1>9, <1>11, <1>12, <2>1, <2>2 DEF InUse, OnDisk, IsDirect
    <2>4. Pending'
      <3>1. ~ (op.off + op.left > ip.size)
        BY <1>3, <1>4, <1>19
      <3> QED BY <1>1, <1>9, <2>1, <3>1 DEF InUse, Pending
    <2> QED BY <1>7, <1>10, <1>13, <1>15, <1>16, <1>17, <2>3, <2>4 DEF Whole, InUse
  <1> QED BY <1>18, <1>19

---------------------------------------------------------------------------
(* Freeing the file. *)

LEMMA ToFreeTyped ==
  ASSUME FileAssumption, TypeOK
  PROVE  /\ DirectWords(ip) \cup IndirectWords(ip) \subseteq Block \X Byte
         /\ ToFree(ip) \subseteq Block \X Byte
         /\ \A x \in Block \X Byte : Argument(x)[1] = x[1]
  <1>1. NDIRECT \in Nat \ {0} /\ NINDIRECT \in Nat \ {0}
    BY FileSizes
  <1>2. ip \in Inode /\ ip.addrs \in [0 .. NDIRECT -> Word]
    BY DEF TypeOK, Inode
  <1>3. Indirect(ip) \in Nat /\ (Indirect(ip) # 0 => Indirect(ip) \in Block)
    BY <1>2, WordsTyped
  <1>4. DirectWords(ip) \subseteq Block \X Byte
    BY <1>1, <1>2 DEF DirectWords, Word
  <1>5. IndirectWords(ip) \subseteq Block \X Byte
    <2>1. CASE Indirect(ip) = 0
      BY <2>1 DEF IndirectWords
    <2>2. CASE Indirect(ip) # 0
      <3>1. words[Indirect(ip)] \in [0 .. NINDIRECT - 1 -> Word]
        BY <1>3, <2>2 DEF TypeOK
      <3> QED BY <2>2, <3>1 DEF IndirectWords, Word
    <2> QED BY <2>1, <2>2
  <1>6. {ip.addrs[NDIRECT]} \ {Null} \subseteq Block \X Byte
    <2>1. ip.addrs[NDIRECT] \in Word
      BY <1>1, <1>2
    <2> QED BY <2>1 DEF Word
  <1>7. ASSUME NEW x \in Block \X Byte PROVE Argument(x) \in Block \X Byte /\ Argument(x)[1] = x[1]
    <2>1. PICK b \in Block, z \in Byte : x = << b, z >>
      OBVIOUS
    <2> QED BY <2>1 DEF Argument, Masked, Byte
  <1> QED BY <1>4, <1>5, <1>6, <1>7 DEF ToFree

LEMMA UnlinkKeeps ==
  ASSUME FileAssumption, FileInv, Unlink PROVE FileInv'
  <1>1. /\ op = Idle /\ exists' = FALSE
        /\ op' = [at |-> "trunc", todo |-> ToFree(ip)]
        /\ astray' = (astray \/ Changed(ip) # {})
        /\ UNCHANGED << bitmap, bytes, words, dinode, ip, type, written, damaged, signed, wild, crashed >>
    BY DEF Unlink, disk
  <1>2. TypeOK /\ op.at = "idle"
    BY <1>1 DEF FileInv, Shape, Idle
  <1>3. /\ DirectWords(ip) \cup IndirectWords(ip) \subseteq Block \X Byte
        /\ ToFree(ip) \subseteq Block \X Byte
        /\ \A x \in Block \X Byte : Argument(x)[1] = x[1]
    BY <1>2, ToFreeTyped
  <1>4. op'.at = "trunc" /\ op'.todo = ToFree(ip) /\ op' \in TruncCall
    BY <1>1, <1>3 DEF TruncCall, Freeing
  <1>5. Shape'
    <2>1. TypeOK' /\ OpOK'
      BY <1>1, <1>2, <1>4 DEF TypeOK, OpOK, Stages, Freeing
    <2>2. Staged'
      BY <1>4 DEF Staged, Writing
    <2> QED BY <1>1, <1>4, <2>1, <2>2 DEF Shape, Freeing
  <1> SUFFICES ASSUME ~ astray, Changed(ip) = {} PROVE Whole'
    BY <1>1, <1>5 DEF FileInv
  <1>6. Damage /\ InUse
    BY <1>2 DEF FileInv, Whole, Freeing
  <1>7. Damage'
    BY <1>1, <1>6, SameDamage
  <1>8. InTrunc'
    <2> SUFFICES ASSUME ~ crashed, NEW b \in bitmap PROVE \E x \in ToFree(ip) : x[1] = b
      BY <1>1, <1>4 DEF InTrunc
    <2>1. b # 0
      BY <1>2, FileSizes DEF TypeOK, Block
    <2>2. CASE b = Indirect(ip)
      <3>1. ip.addrs[NDIRECT] \in ToFree(ip)
        BY <2>1, <2>2, NullFacts DEF ToFree, Indirect
      <3> QED BY <2>2, <3>1 DEF Indirect
    <2>3. ASSUME NEW bn \in Bns, b = WordOf(ip, bn)[1] PROVE \E x \in ToFree(ip) : x[1] = b
      <3> DEFINE x == WordOf(ip, bn)
      <3>1. x # Null
        BY <2>1, <2>3, NullFacts
      <3>2. x \in DirectWords(ip) \cup IndirectWords(ip)
        <4>1. /\ ~ IsDirect(bn) => bn - NDIRECT \in 0 .. NINDIRECT - 1
              /\ IsDirect(bn) => bn \in 0 .. NDIRECT /\ bn # NDIRECT
          BY <1>2, WordsTyped DEF TypeOK
        <4>2. CASE IsDirect(bn)
          <5>1. bn \in 0 .. NDIRECT - 1 /\ x = ip.addrs[bn]
            BY <4>1, <4>2, FileSizes DEF WordOf
          <5> QED BY <3>1, <5>1 DEF DirectWords
        <4>3. CASE ~ IsDirect(bn)
          <5>1. Indirect(ip) # 0
            BY <3>1, <4>3 DEF WordOf
          <5>2. bn - NDIRECT \in 0 .. NINDIRECT - 1 /\ x = words[Indirect(ip)][bn - NDIRECT]
            BY <4>1, <4>3, <5>1 DEF WordOf
          <5> QED BY <3>1, <5>1, <5>2 DEF IndirectWords
        <4> QED BY <4>2, <4>3
      <3>3. x \in Block \X Byte
        BY <1>3, <3>2
      <3>4. Argument(x) \in ToFree(ip) /\ Argument(x)[1] = x[1]
        BY <1>3, <3>2, <3>3 DEF ToFree
      <3> QED BY <2>3, <3>4
    <2> QED BY <1>2, <1>6, <2>2, <2>3 DEF InUse, NoMore
  <1> QED BY <1>4, <1>7, <1>8 DEF Whole, Freeing

LEMMA bfreeKeeps ==
  ASSUME FileAssumption, FileInv, bfree PROVE FileInv'
  <1>1. op.at = "trunc" /\ op.todo # {} /\ op.at \in Freeing
    BY DEF bfree, Freeing
  <1>2. TypeOK /\ OpOK /\ ~ exists
    BY <1>1 DEF FileInv, Shape
  <1>3. PICK b \in Block : b = NextFree
    BY <1>1, <1>2, NextIsTodo
  <1>4. /\ bytes' = [bytes EXCEPT ![b] = Zeros] /\ words' = [words EXCEPT ![b] = NoWords]
        /\ damaged' = {d \in damaged : d[1] # b} /\ signed' = signed \ {b}
        /\ wild' = {w \in wild : w[1] # b}
        /\ op' = [op EXCEPT !.at = "unmark"]
        /\ UNCHANGED << bitmap, dinode, ip, type, exists, written, astray, crashed >>
    BY <1>3 DEF bfree, Zeroed, file
  <1>5. op \in TruncCall
    BY <1>1, <1>2, FreeTyped
  <1>6. op'.at = "unmark" /\ op'.todo = op.todo /\ op' \in TruncCall
    BY <1>4, <1>5 DEF TruncCall, Freeing
  <1>7. Zeros \in [Cell -> Byte] /\ NoWords \in [0 .. NINDIRECT - 1 -> Word]
    BY NullFacts DEF Zeros, NoWords, Byte
  <1>8. Shape'
    <2>1. TypeOK'
      BY <1>2, <1>4, <1>6, <1>7 DEF TypeOK, Stages, Freeing
    <2>2. OpOK' /\ Staged'
      BY <1>1, <1>6 DEF OpOK, Staged, Writing
    <2> QED BY <1>2, <1>4, <1>6, <2>1, <2>2 DEF Shape, Freeing
  <1> SUFFICES ASSUME ~ astray PROVE Whole'
    BY <1>4, <1>8 DEF FileInv
  <1>9. Damage /\ InTrunc
    BY <1>1 DEF FileInv, Whole
  <1>10. DamagedBlocks' = DamagedBlocks \ {b}
    BY <1>4 DEF DamagedBlocks
  <1>11. bytes'[b] = Zeros /\ words'[b] = NoWords
    BY <1>2, <1>4 DEF TypeOK
  <1>12. Damage'
    <2>1. FreeIsZero'
      <3> SUFFICES ASSUME NEW a \in Block \ bitmap PROVE bytes'[a] = Zeros /\ words'[a] = NoWords
        BY <1>4 DEF FreeIsZero, Zeros, NoWords
      <3>1. CASE a = b
        BY <1>11, <3>1
      <3>2. CASE a # b
        BY <1>2, <1>4, <1>9, <3>2 DEF TypeOK, Damage, FreeIsZero
      <3> QED BY <3>1, <3>2
    <2> QED BY <1>4, <1>9, <1>10, <2>1 DEF Damage
  <1>13. InTrunc'
    <2>1. NextFree' = b
      BY <1>3, <1>6 DEF NextFree
    <2>2. Cleared(NextFree)'
      BY <1>4, <1>10, <1>11, <2>1 DEF Cleared, Zeros, NoWords
    <2> QED BY <1>4, <1>6, <1>9, <2>2 DEF InTrunc
  <1> QED BY <1>6, <1>12, <1>13 DEF Whole, Freeing

LEMMA bfreeMarkKeeps ==
  ASSUME FileAssumption, FileInv, bfreeMark PROVE FileInv'
  <1>1. op.at = "unmark" /\ op.at \in Freeing
    BY DEF bfreeMark, Freeing
  <1>2. TypeOK /\ OpOK /\ ~ exists
    BY <1>1 DEF FileInv, Shape
  <1>3. op \in TruncCall /\ op.todo # {}
    BY <1>1, <1>2, FreeTyped
  <1>4. PICK b \in Block : b = NextFree
    BY <1>1, <1>2, <1>3, NextIsTodo
  <1>5. /\ bitmap' = bitmap \ {b}
        /\ op' = [op EXCEPT !.at = "trunc", !.todo = op.todo \ {<< b, 0 >>}]
        /\ UNCHANGED << bytes, words, dinode, ip, type, exists, written, damaged, signed, wild,
                        astray, crashed >>
    BY <1>4 DEF bfreeMark, file, traces
  <1>6. op'.at = "trunc" /\ op'.todo = op.todo \ {<< b, 0 >>} /\ op' \in TruncCall
    BY <1>3, <1>5 DEF TruncCall, Freeing
  <1>7. Shape'
    <2>1. TypeOK' /\ OpOK' /\ Staged'
      BY <1>2, <1>5, <1>6 DEF TypeOK, Stages, Freeing, OpOK, Staged, Writing
    <2> QED BY <1>2, <1>5, <1>6, <2>1 DEF Shape, Freeing
  <1> SUFFICES ASSUME ~ astray PROVE Whole'
    BY <1>5, <1>7 DEF FileInv
  <1>8. Damage /\ InTrunc /\ Cleared(b)
    BY <1>1, <1>4 DEF FileInv, Whole, InTrunc
  <1>9. Damage'
    <2>1. FreeIsZero'
      <3> SUFFICES ASSUME NEW a \in Block \ bitmap' PROVE bytes[a] = Zeros /\ words[a] = NoWords
        BY <1>5 DEF FreeIsZero, Zeros, NoWords
      <3> QED BY <1>5, <1>8 DEF Damage, FreeIsZero, Cleared
    <2>2. DamagedBlocks' = DamagedBlocks
      BY <1>5 DEF DamagedBlocks
    <2> QED BY <1>5, <1>8, <2>1, <2>2 DEF Damage, Cleared
  <1>10. InTrunc'
    <2>1. ASSUME ~ crashed, NEW a \in bitmap, a # b PROVE \E x \in op.todo \ {<< b, 0 >>} : x[1] = a
      <3>1. PICK x \in op.todo : x[1] = a
        BY <1>8, <2>1 DEF InTrunc
      <3>2. x # << b, 0 >>
        BY <2>1, <3>1
      <3> QED BY <3>1, <3>2
    <2> QED BY <1>5, <1>6, <2>1 DEF InTrunc
  <1> QED BY <1>6, <1>9, <1>10 DEF Whole, Freeing

LEMMA EmptyTyped ==
  ASSUME FileAssumption
  PROVE  /\ Empty \in Inode /\ Empty.size = 0
         /\ \A i \in 0 .. NDIRECT : Empty.addrs[i] = Null
  <1>1. MaxSize \in Nat
    BY FileSizes
  <1> QED BY <1>1, NullFacts DEF Empty, Inode

LEMMA TruncEndKeeps ==
  ASSUME FileAssumption, FileInv, TruncEnd PROVE FileInv'
  <1>1. /\ op.at = "trunc" /\ op.at \in Freeing /\ op.todo = {} /\ ip' = Empty /\ dinode' = Empty
        /\ op' = [op EXCEPT !.at = "free"]
        /\ UNCHANGED << bitmap, bytes, words, type, exists, written, damaged, signed, wild, astray, crashed >>
    BY DEF TruncEnd, file, traces, Freeing
  <1>2. TypeOK /\ OpOK /\ ~ exists
    BY <1>1 DEF FileInv, Shape
  <1>3. op \in TruncCall
    BY <1>1, <1>2, FreeTyped
  <1>4. op'.at = "free" /\ op'.todo = op.todo /\ op' \in TruncCall
    BY <1>1, <1>3 DEF TruncCall, Freeing
  <1>5. Shape'
    <2>1. TypeOK' /\ OpOK' /\ Staged'
      BY <1>1, <1>2, <1>4, EmptyTyped DEF TypeOK, Stages, Freeing, OpOK, Staged, Writing
    <2> QED BY <1>1, <1>2, <1>4, <2>1 DEF Shape, Freeing
  <1> SUFFICES ASSUME ~ astray PROVE Whole'
    BY <1>1, <1>5 DEF FileInv
  <1>6. Damage /\ InTrunc
    BY <1>1 DEF FileInv, Whole
  <1>7. Damage'
    BY <1>1, <1>6, SameDamage
  <1>8. InTrunc'
    BY <1>1, <1>4, <1>6 DEF InTrunc
  <1> QED BY <1>4, <1>7, <1>8 DEF Whole, Freeing

(* A free inode has no block.                                              *)
LEMMA FreeInodeKeeps ==
  ASSUME FileAssumption, FileInv, FreeInode PROVE FileInv'
  <1>1. /\ op.at = "free" /\ op.at \in Freeing
        /\ op' = Idle /\ exists' = TRUE /\ type' \in Type
        /\ written' = [i \in DOMAIN written |-> 0]
        /\ UNCHANGED << bitmap, bytes, words, dinode, ip, damaged, signed, wild, astray, crashed >>
    BY DEF FreeInode, Freeing, disk
  <1>2. TypeOK /\ OpOK /\ ip = Empty /\ dinode = Empty
    BY <1>1 DEF FileInv, Shape, Staged
  <1>3. NDIRECT \in Nat \ {0} /\ MaxSize \in Nat \ {0}
    BY FileSizes
  <1>4. Empty.size = 0 /\ \A i \in 0 .. NDIRECT : Empty.addrs[i] = Null
    BY EmptyTyped
  <1>5. op'.at = "idle" /\ op'.at \notin Writing /\ op'.at \notin Freeing
    BY <1>1 DEF Idle, Writing, Freeing
  <1>6. Shape'
    <2>1. TypeOK' /\ OpOK' /\ Staged'
      BY <1>1, <1>2, <1>5 DEF TypeOK, OpOK, Byte, Stages, Staged
    <2> QED BY <1>1, <1>5, <2>1 DEF Shape
  <1> SUFFICES ASSUME ~ astray PROVE Whole'
    BY <1>1, <1>6 DEF FileInv
  <1>7. Damage /\ InTrunc /\ op.todo = {}
    BY <1>1, <1>2, FreeTyped DEF FileInv, Whole
  <1>8. Damage'
    BY <1>1, <1>7, SameDamage
  <1>9. Indirect(ip)' = 0 /\ \A bn \in Bns : WordOf(ip, bn)' = Null
    <2>1. Indirect(ip)' = 0
      BY <1>1, <1>2, <1>3, <1>4, NullFacts DEF Indirect
    <2>2. ASSUME NEW bn \in Bns PROVE WordOf(ip, bn)' = Null
      <3>1. IsDirect(bn) => bn \in 0 .. NDIRECT
        BY <1>3 DEF Bns, IsDirect
      <3> QED BY <1>1, <1>2, <1>4, <2>1, <3>1 DEF WordOf, IsDirect
    <2> QED BY <2>1, <2>2
  <1>10. \A bn \in Sound(ip)' : bn \in Bns
    BY DEF Sound
  <1>11. Own' /\ NoMore' /\ Linking'
    BY <1>1, <1>5, <1>7, <1>9, <1>10, NullFacts DEF Own, NoMore, InTrunc, Linking
  <1>12. OnDisk'
    <2>1. \A i \in 0 .. MaxSize - 1 : ~ (i < 0)
      BY <1>3
    <2>2. Indirect(dinode)' = Indirect(ip)' /\ \A bn \in Bns : WordOf(dinode, bn)' = WordOf(ip, bn)'
      BY <1>1, <1>2 DEF Indirect, WordOf
    <2> QED BY <1>1, <1>2, <1>4, <1>10, <2>1, <2>2 DEF OnDisk
  <1>13. Pending'
    BY <1>1, <1>2 DEF Pending
  <1>14. Data'
    <2>1. \A i \in 0 .. MaxSize - 1 : ~ Covered(i)'
      BY <1>1, <1>2, <1>3, <1>4, <1>5 DEF Covered
    <2> QED BY <2>1 DEF Data
  <1>15. Sums'
    BY <1>9, <1>10, NullFacts DEF Sums, SumOK
  <1> QED BY <1>5, <1>8, <1>11, <1>12, <1>13, <1>14, <1>15 DEF Whole, InUse

---------------------------------------------------------------------------
(* What happens to the file. *)

\* A plain file that is opened again is what it was.
LEMMA ReopenKeeps ==
  ASSUME FileAssumption, Considered, FileInv, Reopen PROVE FileInv'
  <1>1. type = "T_FILE" /\ op = Idle /\ exists /\ ip' = dinode
    BY DEF Reopen, Considered, FileAssumption, Type
  <1>2. UNCHANGED << bitmap, bytes, words, dinode, type, exists, op, written, damaged, signed,
                     wild, astray, crashed >>
    BY DEF Reopen, disk, file, traces
  <1>3. op.at = "idle" /\ op.at \notin Writing /\ op.at \notin Freeing
    BY <1>1 DEF Idle, Writing, Freeing
  <1>4. CASE astray
    <2>1. TypeOK' /\ OpOK' /\ Staged'
      BY <1>1, <1>2, <1>3 DEF FileInv, Shape, TypeOK, OpOK, Staged
    <2> QED BY <1>1, <1>2, <1>3, <1>4, <2>1 DEF FileInv, Shape
  <1>5. CASE ~ astray
    <2>1. dinode = ip
      BY <1>1, <1>3, <1>5 DEF FileInv, Whole, InUse, Pending
    <2>2. UNCHANGED vars
      BY <1>1, <1>2, <2>1 DEF vars, disk, file, traces
    <2> QED BY <2>2, SameVars
  <1> QED BY <1>4, <1>5

(* The blocks that the inode on disk names are the file's.                 *)
LEMMA DiskWords ==
  ASSUME FileAssumption, TypeOK, Own, OnDisk
  PROVE  /\ Indirect(dinode) # 0 => Indirect(dinode) \in bitmap
         /\ \A bn \in Sound(dinode) : WordOf(dinode, bn)[1] # 0 =>
              /\ bn \in Sound(ip) /\ WordOf(dinode, bn)[1] = WordOf(ip, bn)[1]
              /\ WordOf(dinode, bn)[1] \in bitmap /\ WordOf(dinode, bn)[1] # Indirect(dinode)
              /\ \A bm \in Sound(dinode) \ {bn} : WordOf(dinode, bm)[1] # WordOf(dinode, bn)[1]
  <1>1. Indirect(dinode) \in {0, Indirect(ip)}
    BY DEF OnDisk
  <1>2. ASSUME NEW bn \in Sound(dinode), WordOf(dinode, bn)[1] # 0 PROVE bn \in Sound(ip)
    <2>1. IsDirect(bn) \/ Indirect(dinode) # 0
      BY <1>2, NullFacts DEF WordOf
    <2> QED BY <1>1, <2>1 DEF Sound
  <1>3. ASSUME NEW bn \in Sound(dinode), WordOf(dinode, bn)[1] # 0
        PROVE  /\ bn \in Sound(ip) /\ WordOf(dinode, bn)[1] = WordOf(ip, bn)[1]
               /\ WordOf(dinode, bn)[1] \in bitmap /\ WordOf(dinode, bn)[1] # Indirect(dinode)
               /\ \A bm \in Sound(ip) \ {bn} : WordOf(ip, bm)[1] # WordOf(dinode, bn)[1]
    <2>1. bn \in Sound(ip) /\ WordOf(dinode, bn)[1] = WordOf(ip, bn)[1]
      BY <1>2, <1>3 DEF OnDisk
    <2>2. /\ WordOf(ip, bn)[1] \in bitmap /\ WordOf(ip, bn)[1] # Indirect(ip)
          /\ \A bm \in Sound(ip) \ {bn} : WordOf(ip, bm)[1] # WordOf(ip, bn)[1]
      BY <1>3, <2>1 DEF Own
    <2> QED BY <1>1, <1>3, <2>1, <2>2
  <1>4. ASSUME NEW bn \in Sound(dinode), WordOf(dinode, bn)[1] # 0, NEW bm \in Sound(dinode) \ {bn}
        PROVE  WordOf(dinode, bm)[1] # WordOf(dinode, bn)[1]
    <2>1. CASE WordOf(dinode, bm)[1] = 0
      BY <1>4, <2>1
    <2>2. CASE WordOf(dinode, bm)[1] # 0
      BY <1>3, <1>4, <2>2
    <2> QED BY <2>1, <2>2
  <1>5. Indirect(dinode) # 0 => Indirect(dinode) \in bitmap
    BY <1>1 DEF Own
  <1> QED BY <1>3, <1>4, <1>5

\* What the disk has of the file is a file, without what was in memory only.
LEMMA CrashKeeps ==
  ASSUME FileAssumption, Considered, FileInv, Crash PROVE FileInv'
  <1>1. /\ ip' = dinode /\ op' = Idle /\ crashed' = TRUE
        /\ UNCHANGED << bitmap, bytes, words, dinode, type, exists, written, damaged, signed, wild, astray >>
    BY DEF Crash, disk, file
  <1>2. op.at \notin Freeing
    BY DEF Crash, Considered
  <1>3. TypeOK /\ exists
    BY <1>2 DEF FileInv, Shape
  <1>4. op'.at = "idle" /\ op'.at \notin Writing /\ op'.at \notin Freeing
    BY <1>1 DEF Idle, Writing, Freeing
  <1>5. Shape'
    <2>1. TypeOK' /\ OpOK' /\ Staged'
      BY <1>1, <1>3, <1>4 DEF TypeOK, OpOK, Stages, Staged
    <2> QED BY <1>1, <1>3, <1>4, <2>1 DEF Shape
  <1> SUFFICES ASSUME ~ astray PROVE Whole'
    BY <1>1, <1>5 DEF FileInv
  <1>6. InUse /\ Damage
    BY <1>2 DEF FileInv, Whole
  <1>7. Damage'
    BY <1>1, <1>6, SameDamage
  <1>8. /\ Indirect(ip)' = Indirect(dinode) /\ Indirect(dinode)' = Indirect(dinode)
        /\ \A bn \in Bns : WordOf(ip, bn)' = WordOf(dinode, bn) /\ WordOf(dinode, bn)' = WordOf(dinode, bn)
    BY <1>1 DEF Indirect, WordOf, IsDirect
  <1>9. Sound(ip)' = Sound(dinode) /\ Sound(dinode) \subseteq Bns
    BY <1>1, <1>8 DEF Sound, IsDirect
  <1>10. Own /\ OnDisk
    BY <1>6 DEF InUse
  <1>11. /\ Indirect(dinode) # 0 => Indirect(dinode) \in bitmap
         /\ \A bn \in Sound(dinode) : WordOf(dinode, bn)[1] # 0 =>
              /\ bn \in Sound(ip) /\ WordOf(dinode, bn)[1] = WordOf(ip, bn)[1]
              /\ WordOf(dinode, bn)[1] \in bitmap /\ WordOf(dinode, bn)[1] # Indirect(dinode)
              /\ \A bm \in Sound(dinode) \ {bn} : WordOf(dinode, bm)[1] # WordOf(dinode, bn)[1]
    BY <1>3, <1>10, DiskWords
  <1>12. Own'
    BY <1>1, <1>8, <1>9, <1>11 DEF Own
  <1>13. NoMore' /\ Sums' /\ Pending' /\ Linking'
    BY <1>1, <1>4 DEF NoMore, Sums, Pending, Linking
  <1>14. \A i \in 0 .. MaxSize - 1 : i \div BSIZE \in Bns
    BY FileSizes
  <1>15. ASSUME NEW i \in 0 .. MaxSize - 1, i < dinode.size
         PROVE  /\ IsDirect(i \div BSIZE) \/ Indirect(dinode) # 0
                /\ i \div BSIZE \in Sound(dinode) =>
                     i \div BSIZE \in Sound(ip) /\ WordOf(dinode, i \div BSIZE)[1] # 0
    <2>1. IsDirect(i \div BSIZE) \/ Indirect(dinode) # 0
      BY <1>10, <1>15 DEF OnDisk
    <2>2. i \div BSIZE \in Sound(dinode) => i \div BSIZE \in Sound(ip)
      BY <1>10, <2>1 DEF Sound, OnDisk
    <2> QED BY <1>10, <1>15, <2>1, <2>2 DEF OnDisk
  <1>16. OnDisk'
    <2>1. dinode'.size = ip'.size /\ Indirect(dinode)' \in {0, Indirect(ip)'} /\ dinode' = dinode
      BY <1>1, <1>8
    <2> QED BY <1>8, <1>9, <1>14, <1>15, <2>1 DEF OnDisk, IsDirect
  <1>17. Data'
    <2> SUFFICES ASSUME NEW i \in 0 .. MaxSize - 1, Covered(i)', i \div BSIZE \in Sound(dinode)
                 PROVE  /\ WordOf(dinode, i \div BSIZE)[1] # 0
                        /\ \/ << WordOf(dinode, i \div BSIZE)[1], i % BSIZE >> \in damaged
                           \/ bytes[WordOf(dinode, i \div BSIZE)[1]][i % BSIZE] = written[i]
      BY <1>1, <1>8, <1>9, <1>14 DEF Data
    <2>1. i < dinode.size /\ Covered(i)
      BY <1>1, <1>4, <1>10 DEF Covered, OnDisk
    <2>2. WordOf(dinode, i \div BSIZE)[1] # 0 /\ i \div BSIZE \in Sound(ip)
      BY <1>15, <2>1
    <2>3. WordOf(dinode, i \div BSIZE)[1] = WordOf(ip, i \div BSIZE)[1]
      BY <1>11, <2>2
    <2> QED BY <1>6, <2>1, <2>2, <2>3 DEF InUse, Data
  <1> QED BY <1>4, <1>7, <1>12, <1>13, <1>16, <1>17 DEF Whole, InUse

(* Changing one byte changes the checksum.                                 *)
LEMMA OneByte ==
  ASSUME FileAssumption, NEW x \in [Cell -> Byte], NEW c \in Cell,
         NEW y \in [Cell -> Byte], y[c] = 1 - x[c], \A a \in Cell \ {c} : y[a] = x[a]
  PROVE  Sum(y) # Sum(x)
  <1> DEFINE X == {a \in Cell : x[a] = 1}
             Y == {a \in Cell : y[a] = 1}
  <1>1. IsFiniteSet(Cell)
    <2>1. BSIZE \in Nat
      BY FileSizes
    <2> QED BY <2>1, FS_Interval DEF Cell
  <1>2. IsFiniteSet(X) /\ IsFiniteSet(Y)
    BY <1>1, FS_Subset
  <1>3. Cardinality(X) \in Nat /\ Cardinality(Y) \in Nat
    BY <1>2, FS_CardinalityType
  <1>4. CASE x[c] = 0
    <2>1. Y = X \cup {c} /\ c \notin X
      BY <1>4 DEF Byte
    <2>2. Cardinality(Y) = Cardinality(X) + 1
      <3> HIDE DEF X, Y
      <3> QED BY <1>2, <2>1, FS_AddElement
    <2> HIDE DEF X, Y
    <2>3. Cardinality(Y) % 2 # Cardinality(X) % 2
      BY <1>3, <2>2
    <2> QED BY <2>3 DEF Sum, X, Y
  <1>5. CASE x[c] = 1
    <2>1. X = Y \cup {c} /\ c \notin Y
      BY <1>5 DEF Byte
    <2>2. Cardinality(X) = Cardinality(Y) + 1
      <3> HIDE DEF X, Y
      <3> QED BY <1>2, <2>1, FS_AddElement
    <2> HIDE DEF X, Y
    <2>3. Cardinality(Y) % 2 # Cardinality(X) % 2
      BY <1>3, <2>2
    <2> QED BY <2>3 DEF Sum, X, Y
  <1> QED BY <1>4, <1>5 DEF Byte

LEMMA CorruptKeeps ==
  ASSUME FileAssumption, FileInv, NEW b \in Block, NEW c \in Cell, Corrupt(b, c) PROVE FileInv'
  <1>1. /\ type = "T_CHECKED" /\ op = Idle /\ b \in bitmap /\ damaged = {}
        /\ bytes' = [bytes EXCEPT ![b][c] = 1 - bytes[b][c]] /\ damaged' = {<< b, c >>}
        /\ UNCHANGED << bitmap, words, dinode, ip, type, exists, op, written, signed, wild, astray, crashed >>
    BY DEF Corrupt, Damages, file
  <1>2. op.at = "idle" /\ op.at \notin Writing /\ op.at \notin Freeing
    BY <1>1 DEF Idle, Writing, Freeing
  <1>3. TypeOK /\ OpOK /\ exists
    BY <1>2 DEF FileInv, Shape
  <1> DEFINE y == [bytes[b] EXCEPT ![c] = 1 - bytes[b][c]]
  <1>4. bytes[b] \in [Cell -> Byte] /\ bytes' = [bytes EXCEPT ![b] = y]
    BY <1>1, <1>3 DEF TypeOK
  <1>5. y \in [Cell -> Byte] /\ y[c] = 1 - bytes[b][c] /\ \A a \in Cell \ {c} : y[a] = bytes[b][a]
    <2>1. 1 - bytes[b][c] \in Byte
      BY <1>4 DEF Byte
    <2> QED BY <1>4, <2>1
  <1> HIDE DEF y
  <1>6. /\ bytes' \in [Block -> [Cell -> Byte]] /\ bytes'[b] = y
        /\ \A a \in Block : a # b => bytes'[a] = bytes[a]
    BY <1>3, <1>4, <1>5 DEF TypeOK
  <1>7. Sum(y) # Sum(bytes[b]) /\ Sum(y) \in Byte /\ Sum(bytes[b]) \in Byte
    BY <1>4, <1>5, OneByte, Parity
  <1>9. Shape'
    <2>1. TypeOK' /\ OpOK' /\ Staged'
      BY <1>1, <1>2, <1>3, <1>6 DEF TypeOK, OpOK, Staged
    <2> QED BY <1>1, <1>2, <1>3, <2>1 DEF Shape
  <1> SUFFICES ASSUME ~ astray PROVE Whole'
    BY <1>1, <1>9 DEF FileInv
  <1>19. Damage /\ InUse
    BY <1>2 DEF FileInv, Whole
  <1>8. DamagedBlocks = {} /\ DamagedBlocks' = {b} /\ signed = {}
    <2>1. DamagedBlocks = {}
      BY <1>1 DEF DamagedBlocks
    <2>2. DamagedBlocks' = {b}
      BY <1>1 DEF DamagedBlocks
    <2> QED BY <1>19, <2>1, <2>2 DEF Damage
  <1>10. Damage'
    <2>1. FreeIsZero'
      BY <1>1, <1>19, <1>6 DEF Damage, FreeIsZero, Zeros, NoWords
    <2> QED BY <1>1, <1>8, <1>19, <2>1 DEF Damage
  <1>11. /\ \A bn \in Bns : WordOf(ip, bn)' = WordOf(ip, bn) /\ WordOf(dinode, bn)' = WordOf(dinode, bn)
         /\ Indirect(ip)' = Indirect(ip) /\ Indirect(dinode)' = Indirect(dinode)
    BY <1>1, SameWords
  <1>12. /\ Sound(ip)' = Sound(ip) /\ Changed(ip)' = Changed(ip) /\ Sound(ip) \subseteq Bns
         /\ \A i \in 0 .. MaxSize - 1 : i \div BSIZE \in Bns /\ i % BSIZE \in Cell
    BY <1>1, <1>11, SameSound, SoundIsBns, FileSizes
  <1>13. Own' /\ NoMore'
    BY <1>1, <1>19, <1>11, <1>12 DEF InUse, Own, NoMore
  <1>14. OnDisk'
    BY <1>1, <1>19, <1>11, <1>12 DEF InUse, OnDisk, IsDirect
  <1>15. Pending' /\ Linking'
    BY <1>1, <1>2, <1>19 DEF InUse, Pending, Linking
  <1>16. ASSUME NEW bn \in Bns
         PROVE  /\ WordOf(ip, bn) \in Word /\ (WordOf(ip, bn)[1] # 0 => WordOf(ip, bn)[1] \in Block)
                /\ WordOf(ip, bn)[2] \in Byte
    <2>1. WordOf(ip, bn) \in Word
      BY <1>3, WordsTyped DEF TypeOK
    <2> QED BY <2>1, WordFacts
  <1>17. Data'
    <2> SUFFICES ASSUME NEW i \in 0 .. MaxSize - 1, Covered(i)', i \div BSIZE \in Sound(ip)
                 PROVE  /\ WordOf(ip, i \div BSIZE)[1] # 0
                        /\ \/ << WordOf(ip, i \div BSIZE)[1], i % BSIZE >> \in damaged'
                           \/ bytes'[WordOf(ip, i \div BSIZE)[1]][i % BSIZE] = written[i]
      BY <1>1, <1>11, <1>12 DEF Data
    <2> DEFINE a == WordOf(ip, i \div BSIZE)[1]
    <2>1. Covered(i)
      BY <1>1 DEF Covered
    <2>2. a # 0 /\ bytes[a][i % BSIZE] = written[i]
      BY <1>1, <1>19, <2>1 DEF InUse, Data
    <2>3. a \in Block
      BY <1>12, <1>16, <2>2
    <2> HIDE DEF a
    <2>4. CASE a # b
      BY <1>6, <2>2, <2>3, <2>4 DEF a
    <2>5. CASE a = b /\ i % BSIZE = c
      BY <1>1, <2>2, <2>5 DEF a
    <2>6. CASE a = b /\ i % BSIZE # c
      <3>1. bytes'[a][i % BSIZE] = bytes[a][i % BSIZE]
        BY <1>5, <1>6, <1>12, <2>6
      <3> QED BY <2>2, <3>1 DEF a
    <2> QED BY <2>4, <2>5, <2>6
  <1>18. Sums'
    <2> SUFFICES ASSUME ~ crashed, NEW bn \in Sound(ip) PROVE SumOK(WordOf(ip, bn))'
      BY <1>1, <1>12 DEF Sums
    <2> DEFINE x == WordOf(ip, bn)
    <2>1. SumOK(x)
      BY <1>1, <1>2, <1>19 DEF InUse, Sums
    <2>2. WordOf(ip, bn)' = x /\ x[2] \in Byte /\ (x[1] # 0 => x[1] \in Block)
      BY <1>11, <1>12, <1>16
    <2> HIDE DEF x
    <2>3. CASE x[1] = 0
      BY <2>2, <2>3 DEF SumOK
    <2>4. CASE x[1] # 0 /\ x[1] # b
      <3>1. bytes'[x[1]] = bytes[x[1]] /\ x[1] \notin DamagedBlocks \ signed /\ x[1] \notin DamagedBlocks' \ signed'
        BY <1>1, <1>6, <1>8, <2>2, <2>4
      <3> QED BY <2>1, <2>2, <3>1 DEF SumOK, Sum
    <2>5. CASE x[1] = b /\ b # 0
      <3>1. x[2] = Sum(bytes[b])
        BY <1>8, <2>1, <2>5 DEF SumOK
      <3>2. x[2] # Sum(bytes'[x[1]])
        BY <1>6, <1>7, <2>5, <3>1
      <3>3. x[1] \in DamagedBlocks' \ signed'
        BY <1>1, <1>8, <2>5
      <3> QED BY <2>2, <3>2, <3>3 DEF SumOK, Sum
    <2> QED BY <2>3, <2>4, <2>5
  <1> QED BY <1>1, <1>2, <1>10, <1>13, <1>14, <1>15, <1>17, <1>18 DEF Whole, InUse

\* A pointer that the disk has changed is no longer said anything of.
LEMMA CorruptWordKeeps ==
  ASSUME FileAssumption, FileInv, NEW i \in 0 .. NINDIRECT - 1, NEW w \in Word, CorruptWord(i, w)
  PROVE  FileInv'
  <1> DEFINE I == Indirect(ip)
             wd == [words[I] EXCEPT ![i] = w]
  <1>1. /\ op = Idle /\ I # 0 /\ words' = [words EXCEPT ![I] = wd]
        /\ wild' = wild \cup {<< I, i >>}
        /\ UNCHANGED << bitmap, bytes, dinode, ip, type, exists, op, written, damaged, signed, astray, crashed >>
    BY DEF CorruptWord, Damages, file
  <1>2. op.at = "idle" /\ op.at \notin Writing /\ op.at \notin Freeing
    BY <1>1 DEF Idle, Writing, Freeing
  <1>3. TypeOK /\ OpOK /\ exists /\ ip \in Inode
    BY <1>2 DEF FileInv, Shape, TypeOK
  <1>4. I \in Block
    BY <1>1, <1>3, WordsTyped
  <1>5. words[I] \in [0 .. NINDIRECT - 1 -> Word]
    BY <1>3, <1>4 DEF TypeOK
  <1>6. /\ wd \in [0 .. NINDIRECT - 1 -> Word]
        /\ \A j \in 0 .. NINDIRECT - 1 : j # i => wd[j] = words[I][j]
    BY <1>5
  <1> HIDE DEF I, wd
  <1>7. /\ words' \in [Block -> [0 .. NINDIRECT - 1 -> Word]] /\ words'[I] = wd
        /\ \A b \in Block : b # I => words'[b] = words[b]
    BY <1>1, <1>3, <1>4, <1>6 DEF TypeOK
  <1>8. Shape'
    <2>1. TypeOK' /\ OpOK' /\ Staged'
      BY <1>1, <1>2, <1>3, <1>4, <1>7 DEF TypeOK, OpOK, Staged
    <2> QED BY <1>1, <1>2, <1>3, <2>1 DEF Shape
  <1> SUFFICES ASSUME ~ astray PROVE Whole'
    BY <1>1, <1>8 DEF FileInv
  <1>9. Damage /\ InUse /\ Own /\ OnDisk
    BY <1>2 DEF FileInv, Whole, InUse
  <1>10. I \in bitmap
    BY <1>1, <1>9 DEF Own, I
  <1>11. DamagedBlocks' = DamagedBlocks
    BY <1>1 DEF DamagedBlocks
  <1>12. Damage'
    <2>1. FreeIsZero'
      BY <1>1, <1>7, <1>9, <1>10 DEF Damage, FreeIsZero, Zeros, NoWords
    <2>2. \A x \in wild' : x[1] \in bitmap
      BY <1>1, <1>9, <1>10 DEF Damage
    <2> QED BY <1>1, <1>9, <1>11, <2>1, <2>2 DEF Damage
  <1>13. Indirect(ip)' = I /\ Indirect(dinode)' = Indirect(dinode) /\ Indirect(dinode) \in {0, I}
    BY <1>1, <1>9 DEF Indirect, OnDisk, I
  <1>14. /\ Sound(ip) \subseteq Bns /\ Sound(ip)' \subseteq Sound(ip)
         /\ \A bn \in Sound(ip)' : ~ IsDirect(bn) => bn - NDIRECT # i
    BY <1>1, <1>13 DEF Sound, IsDirect, I
  <1>15. ASSUME NEW bn \in Sound(ip)'
         PROVE  WordOf(ip, bn)' = WordOf(ip, bn) /\ WordOf(dinode, bn)' = WordOf(dinode, bn)
    <2>1. bn \in Bns /\ (~ IsDirect(bn) => bn - NDIRECT \in 0 .. NINDIRECT - 1 /\ bn - NDIRECT # i)
      BY <1>3, <1>14, WordsTyped
    <2>2. CASE IsDirect(bn)
      BY <1>1, <2>2 DEF WordOf, IsDirect
    <2>3. CASE ~ IsDirect(bn)
      <3>1. words'[I][bn - NDIRECT] = words[I][bn - NDIRECT]
        BY <1>6, <1>7, <2>1, <2>3
      <3>2. WordOf(ip, bn)' = WordOf(ip, bn)
        BY <1>1, <1>13, <2>3, <3>1 DEF WordOf, IsDirect, I
      <3>3. WordOf(dinode, bn)' = WordOf(dinode, bn)
        BY <1>1, <1>13, <2>3, <3>1 DEF WordOf, IsDirect
      <3> QED BY <3>2, <3>3
    <2> QED BY <2>2, <2>3
  <1>16. Own'
    BY <1>1, <1>9, <1>13, <1>14, <1>15 DEF Own, I
  <1>17. NoMore'
    <2>1. i \in Changed(ip)'
      BY <1>1, <1>13 DEF Changed
    <2> QED BY <2>1 DEF NoMore
  <1>18. OnDisk'
    <2>1. dinode'.size = ip'.size /\ Indirect(dinode)' \in {0, Indirect(ip)'} /\ dinode' = dinode
      BY <1>1, <1>9, <1>13 DEF OnDisk
    <2>2. \A bn \in Sound(ip)' : WordOf(dinode, bn)'[1] \in {0, WordOf(ip, bn)'[1]}
      BY <1>9, <1>14, <1>15 DEF OnDisk
    <2>3. ASSUME NEW k \in 0 .. MaxSize - 1, k < dinode.size
          PROVE  /\ IsDirect(k \div BSIZE) \/ Indirect(dinode) # 0
                 /\ k \div BSIZE \in Sound(ip)' => WordOf(dinode, k \div BSIZE)'[1] # 0
      BY <1>9, <1>14, <1>15, <2>3 DEF OnDisk
    <2> QED BY <1>13, <2>1, <2>2, <2>3 DEF OnDisk, IsDirect
  <1>19. Pending' /\ Linking'
    BY <1>1, <1>2, <1>9 DEF InUse, Pending, Linking
  <1>20. Data'
    <2> SUFFICES ASSUME NEW k \in 0 .. MaxSize - 1, Covered(k)', k \div BSIZE \in Sound(ip)'
                 PROVE  /\ WordOf(ip, k \div BSIZE)'[1] # 0
                        /\ \/ << WordOf(ip, k \div BSIZE)'[1], k % BSIZE >> \in damaged
                           \/ bytes[WordOf(ip, k \div BSIZE)'[1]][k % BSIZE] = written[k]
      BY <1>1 DEF Data
    <2>1. Covered(k)
      BY <1>1 DEF Covered
    <2> QED BY <1>9, <1>14, <1>15, <2>1 DEF InUse, Data
  <1>21. Sums'
    <2> SUFFICES ASSUME type = "T_CHECKED", ~ crashed, NEW bn \in Sound(ip)' PROVE SumOK(WordOf(ip, bn))'
      BY <1>1 DEF Sums
    <2>1. SumOK(WordOf(ip, bn))
      BY <1>2, <1>9, <1>14 DEF InUse, Sums
    <2> QED BY <1>1, <1>11, <1>15, <2>1 DEF SumOK, Sum
  <1> QED BY <1>1, <1>2, <1>12, <1>16, <1>17, <1>18, <1>19, <1>20, <1>21 DEF Whole, InUse

LEMMA FileNextKeeps ==
  ASSUME FileAssumption, Considered, FileInv, [Next]_vars
  PROVE  FileInv'
  <1>1. CASE UNCHANGED vars
    BY <1>1, SameVars
  <1>2. CASE \E off \in 0 .. MaxSize - 1 : \E n \in 1 .. MaxWrite : \E v \in Byte : WriteBegin(off, n, v)
    BY <1>2, WriteBeginKeeps
  <1>3. CASE \E i \in 0 .. MaxSize - 1 : ReadBegin(i)
    BY <1>3, ReadBeginKeeps
  <1>4. CASE Write
    BY <1>4, BmapKeeps, LinkBlockKeeps, SetSumKeeps, StoreKeeps, WriteEndKeeps DEF Write
  <1>5. CASE Unlink \/ bfree \/ bfreeMark \/ TruncEnd \/ FreeInode
    BY <1>5, UnlinkKeeps, bfreeKeeps, bfreeMarkKeeps, TruncEndKeeps, FreeInodeKeeps
  <1>6. CASE Reopen \/ Crash
    BY <1>6, ReopenKeeps, CrashKeeps
  <1>7. CASE \E b \in Block : \E c \in Cell : Corrupt(b, c)
    BY <1>7, CorruptKeeps
  <1>8. CASE \E i \in 0 .. NINDIRECT - 1 : \E w \in Word : CorruptWord(i, w)
    BY <1>8, CorruptWordKeeps
  <1> QED BY <1>1, <1>2, <1>3, <1>4, <1>5, <1>6, <1>7, <1>8 DEF Next

LEMMA ReadsFollow ==
  ASSUME FileAssumption, FileInv
  PROVE  ReadsAreRight
  <1> SUFFICES ASSUME ~ astray, NEW i \in Readable, ~ Misled(i \div BSIZE)
      PROVE  /\ BlockOf(i) \notin DamagedBlocks => Reads(i) \in {written[i], Failed}
             /\ type = "T_CHECKED" /\ ~ crashed =>
                  /\ Reads(i) = Failed => BlockOf(i) \in DamagedBlocks
                  /\ BlockOf(i) \in DamagedBlocks \ signed => Reads(i) = Failed
    BY DEF ReadsAreRight, ReadsWhatWasWritten, FailsExactlyOnDamage
  <1> DEFINE bn == i \div BSIZE
             c  == i % BSIZE
             x  == WordOf(ip, bn)
  <1>1. /\ exists /\ op = Idle /\ i \in 0 .. ip.size - 1
    BY DEF Readable
  <1>2. op.at = "idle"
    BY <1>1 DEF Idle
  <1>3. TypeOK /\ InUse
    BY <1>2 DEF FileInv, Shape, Whole, Freeing
  <1>4. i \in 0 .. MaxSize - 1 /\ i < ip.size
    <2>1. ip.size \in 0 .. MaxSize /\ MaxSize \in Nat
      BY <1>3, FileSizes DEF TypeOK, Inode
    <2> QED BY <1>1, <2>1
  <1>5. bn \in Bns /\ c \in Cell
    BY <1>4, FileSizes
  <1>5a. bn \in Sound(ip)
    BY <1>5, SoundNotMisled
  <1> HIDE DEF bn, c
  <1>6. /\ x[1] # 0
        /\ << x[1], c >> \in damaged \/ bytes[x[1]][c] = written[i]
    BY <1>3, <1>4, <1>5a DEF InUse, Data, Covered, bn, c
  <1>7. x \in Word
    BY <1>3, <1>5, WordsTyped DEF TypeOK
  <1> DEFINE b == x[1]
             s == x[2]
  <1>8. b \in Block /\ s \in Byte
    BY <1>6, <1>7, WordFacts
  <1>9. BlockOf(i) = b
    BY DEF BlockOf, bn
  <1>10. Reads(i) = IF type = "T_CHECKED" /\ Sum(bytes[b]) # s THEN Failed ELSE bytes[b][c]
    BY DEF Reads, bn, c
  <1>11. bytes[b][c] \in Byte
    BY <1>3, <1>5, <1>8 DEF TypeOK
  <1>12. type = "T_CHECKED" /\ ~ crashed =>
           (s = Sum(bytes[b]) <=> b \notin DamagedBlocks \ signed)
    <2>1. type = "T_CHECKED" /\ ~ crashed => SumOK(x)
      BY <1>2, <1>3, <1>5a DEF InUse, Sums
    <2> QED BY <1>6, <2>1 DEF SumOK
  <1>13. << b, c >> \in damaged => b \in DamagedBlocks
    <2>1. << b, c >>[1] = b
      OBVIOUS
    <2> QED BY <2>1 DEF DamagedBlocks
  <1> HIDE DEF x, b, s
  <1>14. b \notin DamagedBlocks => bytes[b][c] = written[i]
    BY <1>6, <1>13 DEF b
  <1>15. bytes[b][c] # Failed
    BY <1>11 DEF Byte, Failed
  <1> QED BY <1>9, <1>10, <1>12, <1>14, <1>15

---------------------------------------------------------------------------
(* What the invariant says of the disk. *)

LEMMA InjectionMade ==
  ASSUME NEW S, NEW T, NEW g \in [S -> T],
         \A a \in S : \A b \in S : g[a] = g[b] => a = b
  PROVE  g \in Injection(S, T)
  BY DEF Injection, IsInjective

(* Places that hold different blocks are as many as the blocks.            *)
LEMMA DifferentBlocks ==
  ASSUME NEW J, IsFiniteSet(J), NEW B, NEW f \in Surjection(J, B), f \in Injection(J, B)
  PROVE  /\ IsFiniteSet(B) /\ Cardinality(B) = Cardinality(J) /\ Cardinality(J) \in Nat
  BY FS_Surjection, FS_CardinalityType

(* A file, in memory or on disk, whose words name different blocks.        *)
LEMMA HeldOnce ==
  ASSUME FileAssumption, TypeOK, NEW ino \in Inode,
         \A bn \in Sound(ino) : WordOf(ino, bn)[1] # 0 =>
            /\ WordOf(ino, bn)[1] # Indirect(ino)
            /\ \A bm \in Sound(ino) \ {bn} : WordOf(ino, bm)[1] # WordOf(ino, bn)[1]
  PROVE  /\ HeldBlocks(ino) =
              ({Indirect(ino)} \cup {WordOf(ino, bn)[1] : bn \in Sound(ino)}) \ {0}
         /\ NoBlockTwice(ino)
  <1> DEFINE W(bn) == WordOf(ino, bn)[1]
             I == Indirect(ino)
             ad == ino.addrs
             wd == words[I]
             J == {j \in 0 .. NDIRECT : ad[j][1] # 0}
             ch == Changed(ino)
             K == IF I = 0 THEN {} ELSE {j \in (0 .. NINDIRECT - 1) \ ch : wd[j][1] # 0}
             A == {ad[j][1] : j \in J}
             B == {wd[j][1] : j \in K}
  <1>1. NDIRECT \in Nat \ {0} /\ NINDIRECT \in Nat \ {0}
    BY FileSizes
  <1>2. /\ Held(ino)[1] = J /\ Held(ino)[2] = K
        /\ HeldBlocks(ino) = A \cup B
    BY DEF Held, HeldBlocks
  <1>3. ASSUME NEW j \in 0 .. NDIRECT
        PROVE  ad[j][1] = IF j = NDIRECT THEN I ELSE W(j)
    <2>1. j # NDIRECT => IsDirect(j)
      BY <1>1 DEF IsDirect
    <2>2. j # NDIRECT => W(j) = ad[j][1]
      BY <2>1 DEF WordOf
    <2> QED BY <2>2 DEF Indirect
  <1>4. ASSUME NEW j \in (0 .. NINDIRECT - 1) \ ch, I # 0
        PROVE  wd[j][1] = W(NDIRECT + j) /\ NDIRECT + j \in Sound(ino)
    <2>1. ~ IsDirect(NDIRECT + j) /\ (NDIRECT + j) - NDIRECT = j /\ NDIRECT + j \in Bns
      BY <1>1 DEF IsDirect, Bns
    <2>2. NDIRECT + j \in Sound(ino)
      BY <2>1 DEF Sound, Changed
    <2> QED BY <1>4, <2>1, <2>2 DEF WordOf
  <1>5. \A bn \in Sound(ino) : \A bm \in Sound(ino) : W(bn) # 0 /\ W(bn) = W(bm) => bn = bm
    OBVIOUS
  <1>6. \A bn \in Sound(ino) : W(bn) # 0 => W(bn) # I
    OBVIOUS
  <1>7. \A j \in 0 .. NDIRECT : j # NDIRECT => j \in Sound(ino) /\ j \in 0 .. NDIRECT - 1
    BY <1>1 DEF Bns, Sound, IsDirect
  <1>8. ASSUME NEW bn \in Sound(ino), W(bn) # 0
        PROVE  \/ bn \in 0 .. NDIRECT - 1
               \/ I # 0 /\ bn - NDIRECT \in (0 .. NINDIRECT - 1) \ ch /\ NDIRECT + (bn - NDIRECT) = bn
    <2>0. bn \in Bns /\ (IsDirect(bn) \/ bn - NDIRECT \notin ch)
      BY DEF Sound, Changed
    <2>1. CASE bn < NDIRECT
      BY <1>1, <2>0, <2>1 DEF Bns
    <2>2. CASE ~ (bn < NDIRECT)
      <3>1. I # 0
        BY <1>8, <2>2, NullFacts DEF WordOf, IsDirect
      <3> QED BY <1>1, <2>0, <2>2, <3>1 DEF Bns, IsDirect
    <2> QED BY <2>1, <2>2
  <1> HIDE DEF W, I, ad, wd, ch
  <1>9. A \cup B = ({I} \cup {W(bn) : bn \in Sound(ino)}) \ {0}
    <2>1. ASSUME NEW j \in J PROVE ad[j][1] \in ({I} \cup {W(bn) : bn \in Sound(ino)}) \ {0}
      <3>1. j = NDIRECT \/ j \in 0 .. NDIRECT - 1
        BY <1>1
      <3> QED BY <1>3, <1>7, <3>1
    <2>2. ASSUME NEW j \in K PROVE wd[j][1] \in ({I} \cup {W(bn) : bn \in Sound(ino)}) \ {0}
      <3>1. I # 0 /\ j \in (0 .. NINDIRECT - 1) \ ch /\ wd[j][1] # 0
        OBVIOUS
      <3> QED BY <1>4, <3>1
    <2>3. ASSUME I # 0 PROVE I \in A
      <3>1. NDIRECT \in 0 .. NDIRECT
        BY <1>1
      <3> QED BY <1>3, <2>3, <3>1
    <2>4. ASSUME NEW bn \in Sound(ino), W(bn) # 0 PROVE W(bn) \in A \cup B
      <3>1. CASE bn \in 0 .. NDIRECT - 1
        <4>1. bn \in 0 .. NDIRECT /\ bn # NDIRECT
          BY <1>1, <3>1
        <4> QED BY <1>3, <2>4, <4>1
      <3>2. CASE I # 0 /\ bn - NDIRECT \in (0 .. NINDIRECT - 1) \ ch /\ NDIRECT + (bn - NDIRECT) = bn
        <4>1. wd[bn - NDIRECT][1] = W(bn)
          BY <1>4, <3>2
        <4> QED BY <2>4, <3>2, <4>1
      <3> QED BY <1>8, <2>4, <3>1, <3>2
    <2> QED BY <2>1, <2>2, <2>3, <2>4
  <1>10. \A j \in J : \A k \in J : ad[j][1] = ad[k][1] => j = k
    <2> SUFFICES ASSUME NEW j \in J, NEW k \in J, ad[j][1] = ad[k][1], j # k PROVE FALSE
      OBVIOUS
    <2>1. j \in 0 .. NDIRECT /\ k \in 0 .. NDIRECT /\ ad[j][1] # 0
      OBVIOUS
    <2>2. CASE j # NDIRECT /\ k # NDIRECT
      <3>1. j \in Sound(ino) /\ k \in Sound(ino)
        BY <1>7, <2>1, <2>2
      <3>2. W(j) = W(k) /\ W(j) # 0
        BY <1>3, <2>1, <2>2
      <3> QED BY <1>5, <3>1, <3>2
    <2>3. CASE j = NDIRECT
      <3>1. k \in Sound(ino) /\ k # NDIRECT
        BY <1>1, <1>7, <2>1, <2>3
      <3> QED BY <1>3, <1>6, <2>1, <2>3, <3>1
    <2>4. CASE k = NDIRECT
      <3>1. j \in Sound(ino) /\ j # NDIRECT
        BY <1>1, <1>7, <2>1, <2>4
      <3> QED BY <1>3, <1>6, <2>1, <2>4, <3>1
    <2> QED BY <2>2, <2>3, <2>4
  <1>11. \A j \in K : \A k \in K : wd[j][1] = wd[k][1] => j = k
    <2> SUFFICES ASSUME NEW j \in K, NEW k \in K, wd[j][1] = wd[k][1] PROVE j = k
      OBVIOUS
    <2>1. I # 0 /\ j \in (0 .. NINDIRECT - 1) \ ch /\ k \in (0 .. NINDIRECT - 1) \ ch /\ wd[j][1] # 0
      OBVIOUS
    <2>2. NDIRECT + j = NDIRECT + k
      BY <1>4, <1>5, <2>1
    <2> QED BY <1>1, <2>1, <2>2
  <1>12. A \cap B = {}
    <2> SUFFICES ASSUME NEW j \in J, NEW k \in K, ad[j][1] = wd[k][1] PROVE FALSE
      OBVIOUS
    <2>1. /\ j \in 0 .. NDIRECT /\ ad[j][1] # 0
          /\ I # 0 /\ k \in (0 .. NINDIRECT - 1) \ ch
      OBVIOUS
    <2>2. wd[k][1] = W(NDIRECT + k) /\ NDIRECT + k \in Sound(ino)
      BY <1>4, <2>1
    <2>3. CASE j = NDIRECT
      BY <1>3, <1>6, <2>1, <2>2, <2>3
    <2>4. CASE j # NDIRECT
      <3>1. j \in Sound(ino) /\ j # NDIRECT + k
        BY <1>1, <1>7, <2>1, <2>4
      <3> QED BY <1>3, <1>5, <2>1, <2>2, <2>4, <3>1
    <2> QED BY <2>3, <2>4
  <1>13. /\ J \in SUBSET (0 .. NDIRECT) /\ K \in SUBSET (0 .. NINDIRECT - 1)
         /\ IsFiniteSet(J) /\ IsFiniteSet(K)
    <2>0. 0 \in Int /\ NDIRECT \in Int /\ NINDIRECT - 1 \in Int
      BY <1>1
    <2>1. IsFiniteSet(0 .. NDIRECT) /\ IsFiniteSet(0 .. NINDIRECT - 1)
      BY <2>0, FS_Interval
    <2>2. J \in SUBSET (0 .. NDIRECT) /\ K \in SUBSET (0 .. NINDIRECT - 1)
      OBVIOUS
    <2> QED BY <2>1, <2>2, FS_Subset
  <1> HIDE DEF J, K
  <1>14. /\ IsFiniteSet(A) /\ Cardinality(A) = Cardinality(J) /\ Cardinality(J) \in Nat
    <2> DEFINE f == [j \in J |-> ad[j][1]]
    <2>1. f \in Surjection(J, A)
      BY DEF Surjection
    <2>2. f \in [J -> A] /\ \A j \in J : f[j] = ad[j][1]
      OBVIOUS
    <2> HIDE DEF f, A
    <2>3. \A j \in J : \A k \in J : f[j] = f[k] => j = k
      BY <1>10, <2>2
    <2>4. f \in Injection(J, A)
      BY <2>2, <2>3, InjectionMade
    <2> QED BY <1>13, <2>1, <2>4, DifferentBlocks
  <1>15. /\ IsFiniteSet(B) /\ Cardinality(B) = Cardinality(K) /\ Cardinality(K) \in Nat
    <2> DEFINE f == [j \in K |-> wd[j][1]]
    <2>1. f \in Surjection(K, B)
      BY DEF Surjection
    <2>2. f \in [K -> B] /\ \A j \in K : f[j] = wd[j][1]
      OBVIOUS
    <2> HIDE DEF f, B
    <2>3. \A j \in K : \A k \in K : f[j] = f[k] => j = k
      BY <1>11, <2>2
    <2>4. f \in Injection(K, B)
      BY <2>2, <2>3, InjectionMade
    <2> QED BY <1>13, <2>1, <2>4, DifferentBlocks
  <1> HIDE DEF A, B
  <1>16. Cardinality(A \cup B) = Cardinality(J) + Cardinality(K)
    <2>1. Cardinality(A \cup B) = Cardinality(A) + Cardinality(B) - Cardinality(A \cap B)
      BY <1>14, <1>15, FS_Union
    <2>2. Cardinality(A \cap B) = 0
      BY <1>12, FS_EmptySet
    <2> QED BY <1>14, <1>15, <2>1, <2>2
  <1> QED BY <1>2, <1>9, <1>16 DEF NoBlockTwice, W, I

LEMMA DiskFollows ==
  ASSUME FileAssumption, FileInv
  PROVE  DiskIsConsistent
  <1>1. TypeOK /\ ip \in Inode /\ dinode \in Inode
    BY DEF FileInv, Shape, TypeOK
  <1> SUFFICES ASSUME ~ astray
      PROVE  HeldIsMarked /\ NoBlockLost /\ FreeIsZero /\ NothingInMemoryOnly
    BY <1>1 DEF DiskIsConsistent
  <1>2. Whole
    BY DEF FileInv
  <1>3. HeldIsMarked
    <2> SUFFICES ASSUME op.at \notin Freeing
                 PROVE  HeldBlocks(dinode) \subseteq bitmap /\ NoBlockTwice(dinode)
      BY DEF HeldIsMarked
    <2>1. Own /\ OnDisk
      BY <1>2 DEF Whole, InUse
    <2>2. /\ Indirect(dinode) # 0 => Indirect(dinode) \in bitmap
          /\ \A bn \in Sound(dinode) : WordOf(dinode, bn)[1] # 0 =>
               /\ WordOf(dinode, bn)[1] \in bitmap /\ WordOf(dinode, bn)[1] # Indirect(dinode)
               /\ \A bm \in Sound(dinode) \ {bn} : WordOf(dinode, bm)[1] # WordOf(dinode, bn)[1]
      BY <1>1, <2>1, DiskWords
    <2>3. /\ HeldBlocks(dinode) =
               ({Indirect(dinode)} \cup {WordOf(dinode, bn)[1] : bn \in Sound(dinode)}) \ {0}
          /\ NoBlockTwice(dinode)
      BY <1>1, <2>2, HeldOnce
    <2> QED BY <2>2, <2>3
  <1>4. NoBlockLost
    <2> SUFFICES ASSUME ~ crashed, Changed(ip) = {}, exists, op = Idle
                 PROVE  bitmap = HeldBlocks(ip)
      BY DEF NoBlockLost
    <2>1. op.at = "idle"
      BY DEF Idle
    <2>2. Own /\ NoMore
      BY <1>2, <2>1 DEF Whole, InUse, Freeing
    <2>3. Sound(ip) = Bns
      BY SoundIsBns
    <2>4. HeldBlocks(ip) =
            ({Indirect(ip)} \cup {WordOf(ip, bn)[1] : bn \in Sound(ip)}) \ {0}
      BY <1>1, <2>2, HeldOnce DEF Own
    <2>5. 0 \notin bitmap
      BY <1>1, FileSizes DEF TypeOK, Block
    <2>6. \A b \in bitmap : b = Indirect(ip) \/ \E bn \in Sound(ip) : b = WordOf(ip, bn)[1]
      BY <2>1, <2>2, <2>3 DEF NoMore
    <2>7. /\ Indirect(ip) # 0 => Indirect(ip) \in bitmap
          /\ \A bn \in Sound(ip) : WordOf(ip, bn)[1] # 0 => WordOf(ip, bn)[1] \in bitmap
      BY <2>2 DEF Own
    <2> QED BY <2>4, <2>5, <2>6, <2>7
  <1>5. FreeIsZero
    BY <1>2 DEF Whole, Damage
  <1>6. NothingInMemoryOnly
    <2> SUFFICES ASSUME type = "T_FILE", op = Idle, exists PROVE dinode = ip
      BY DEF NothingInMemoryOnly
    <2>1. op.at = "idle"
      BY DEF Idle
    <2>2. Pending
      BY <1>2, <2>1 DEF Whole, InUse, Freeing
    <2> QED BY <2>1, <2>2 DEF Pending, Writing
  <1> QED BY <1>3, <1>4, <1>5, <1>6

---------------------------------------------------------------------------
(* The theorems. *)

(* In every step of writei, itrunc, the machine and the disk, the file's    *)
(* blocks and the inode on disk stay as FileInv says.                       *)
THEOREM FileInvariant == Considered /\ Spec => []FileInv
  <1> SUFFICES ASSUME Considered PROVE Spec => []FileInv
    OBVIOUS
  <1>1. Init => FileInv
    BY FileAssumption, FileInitInv
  <1>2. FileInv /\ [Next]_vars => FileInv'
    BY FileAssumption, FileNextKeeps
  <1> QED BY <1>1, <1>2, PTL DEF Spec

(* What readi gives back is what writei was last given at that place, or a  *)
(* failure of a checked file's block that the disk has changed; blocks that *)
(* a changed pointer names, and whatever follows a write through such a     *)
(* pointer, excepted.                                                       *)
THEOREM ReadsStayRight == Considered /\ Spec => []ReadsAreRight
  <1> SUFFICES ASSUME Considered PROVE Spec => []ReadsAreRight
    OBVIOUS
  <1>1. FileInv => ReadsAreRight
    BY FileAssumption, ReadsFollow
  <1>2. Spec => []FileInv
    BY FileInvariant
  <1> QED BY <1>1, <1>2, PTL

(* After a stop of the machine before any bwrite of balloc, bmap, bfree,    *)
(* writei or iupdate, while no file is freed, what the inode on disk refers *)
(* to is marked in use and referred to once, and a free block is zero.      *)
THEOREM DiskStaysConsistent == Considered /\ Spec => []DiskIsConsistent
  <1> SUFFICES ASSUME Considered PROVE Spec => []DiskIsConsistent
    OBVIOUS
  <1>1. FileInv => DiskIsConsistent
    BY FileAssumption, DiskFollows
  <1>2. Spec => []FileInv
    BY FileInvariant
  <1> QED BY <1>1, <1>2, PTL
=============================================================================
