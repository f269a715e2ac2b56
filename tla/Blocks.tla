------------------------------- MODULE Blocks -------------------------------
(***************************************************************************)
(* The blocks of the file system: the bitmap, the direct and indirect      *)
(* blocks of inodes (fs.c), and the image mkfs.c makes of it.  Processes   *)
(* write files, a block at a time, in transactions that filewrite() cuts   *)
(* to the size of the log; a file nobody refers to is truncated.           *)
(*                                                                         *)
(* A block holds BSIZE units; a byte, a block number and a directory entry *)
(* take one each.                                                          *)
(***************************************************************************)
EXTENDS Integers, Sequences, FiniteSets, FiniteSetsExt

CONSTANTS
    Proc,
    BSIZE,
    NDIRECT,
    FSSIZE,
    nmeta,          \* blocks before the data
    Programs,       \* contents of the files that mkfs puts into the root
    MAXOPBLOCKS,
    MaxOps,         \* bound: write()s and truncations
    Sizes           \* bound: lengths of write()s, which begin at 0, 1 or the end

NINDIRECT == BSIZE
MAXFILE == NDIRECT + NINDIRECT
ROOTINO == 1
NoBlock == 0
NoInode == 0
Inum == 1..(Len(Programs) + 1)
Block == 0..(FSSIZE - 1)
Bitmap == nmeta - 1     \* its block: one is enough for FSSIZE

VARIABLES
    image,      \* of mkfs: the program it copies, its position, freeblock
    bitmap,     \* the blocks in use
    disk,       \* the contents of each block
    inode,      \* size and addrs[NDIRECT+1] of each inode
    job,        \* of each process: the write() or itrunc() it is in
    logged,     \* blocks that its transaction has logged
    contents,   \* what each file should hold
    ops,        \* how many there were
    panicked

vars == <<image, bitmap, disk, inode, job, logged, contents, ops, panicked>>

\* What is written to a file.
Mark(i) == 100 + i

Zeroes == [u \in 1..BSIZE |-> 0]
FreshInode == [size |-> 0, addrs |-> [x \in 1..(NDIRECT + 1) |-> NoBlock]]
Indirect(a) == a.addrs[NDIRECT + 1]

\* The block with block number bn of inode a, if any.
Lookup(d, a, bn) ==
    IF bn < NDIRECT THEN a.addrs[bn + 1]
    ELSE IF Indirect(a) = NoBlock THEN NoBlock ELSE d[Indirect(a)][bn - NDIRECT + 1]

\* All places for a block: the block numbers, then the indirect block's.
Place == 0..MAXFILE
BlockAt(d, a, x) == IF x = MAXFILE THEN Indirect(a) ELSE Lookup(d, a, x)

\* readi() of a whole file.
Readi(i) == [k \in 1..inode[i].size |->
                LET b == Lookup(disk, inode[i], (k - 1) \div BSIZE) IN
                IF b = NoBlock THEN 0 ELSE disk[b][((k - 1) % BSIZE) + 1]]

-----------------------------------------------------------------------------
(* bmap() *)

Balloc(d, b) == [d EXCEPT ![b] = Zeroes]

\* What bmap() allocates for block number bn: data, after the indirect block.
Needed(a, bn) ==
    (IF bn >= NDIRECT /\ Indirect(a) = NoBlock THEN 1 ELSE 0)
      + (IF Lookup(disk, a, bn) = NoBlock THEN 1 ELSE 0)

\* bmap() of inode a, where the next blocks that are free are b1 and b2: the blocks it
\* takes, the block it finds, and the disk and the addresses it leaves.
Bmap(a, bn, b1, b2) ==
    LET needInd == bn >= NDIRECT /\ Indirect(a) = NoBlock
        needData == Lookup(disk, a, bn) = NoBlock
        ind == IF needInd THEN b1 ELSE Indirect(a)
        b == IF ~needData THEN Lookup(disk, a, bn) ELSE IF needInd THEN b2 ELSE b1
        d1 == IF needInd THEN Balloc(disk, ind) ELSE disk
        d2 == IF needData THEN Balloc(d1, b) ELSE d1 IN
    [new |-> (IF needInd THEN {ind} ELSE {}) \cup (IF needData THEN {b} ELSE {}),
     block |-> b,
     disk |-> IF needData /\ bn >= NDIRECT THEN [d2 EXCEPT ![ind][bn - NDIRECT + 1] = b] ELSE d2,
     addrs |-> IF bn < NDIRECT THEN [a.addrs EXCEPT ![bn + 1] = b]
                               ELSE [a.addrs EXCEPT ![NDIRECT + 1] = ind]]

\* x at the positions off+1 to end of a file, in its block number bn and as a whole.
InBlock(units, bn, off, end, x) ==
    [u \in 1..BSIZE |-> IF bn * BSIZE + u \in (off + 1)..end THEN x ELSE units[u]]
InFile(c, off, end, x) ==
    [k \in 1..Max({Len(c), end}) |-> IF k \in (off + 1)..end THEN x ELSE c[k]]

-----------------------------------------------------------------------------
(* mkfs *)

Idle == [op |-> "none", i |-> NoInode, off |-> 0, n |-> 0, left |-> 0, k |-> 0]

Init ==
    /\ image = [k |-> 0, pos |-> 0, freeblock |-> nmeta]
    /\ bitmap = {}
    /\ disk = [b \in Block |-> Zeroes]
    /\ inode = [i \in Inum |-> FreshInode]
    /\ job = [p \in Proc |-> Idle]
    /\ logged = [p \in Proc |-> {}]
    /\ contents = [i \in Inum |-> <<>>]
    /\ ops = 0 /\ panicked = FALSE

Made == image.k > Len(Programs) + 1

\* What mkfs reads of its k-th file; of the root, as if it were one, the "..".
Source(k) == IF k = 0 THEN <<ROOTINO>> ELSE Programs[k]

\* iappend() of one unit, the entry of file k or the next unit of its contents, with
\* freeblock++ for every new block; it fails past MAXFILE and past the end of the disk.
Iappend ==
    LET i == IF image.pos = 0 THEN ROOTINO ELSE image.k + 1
        x == IF image.pos = 0 THEN image.k + 1 ELSE Source(image.k)[image.pos]
        off == inode[i].size
        bn == off \div BSIZE
        free == image.freeblock
        m == Bmap(inode[i], bn, free, free + 1) IN
    /\ image.k <= Len(Programs) /\ UNCHANGED <<bitmap, job, logged, ops>>
    /\ IF bn >= MAXFILE \/ free + Needed(inode[i], bn) > FSSIZE
       THEN panicked' = TRUE /\ UNCHANGED <<image, disk, inode, contents>>
       ELSE
         /\ image' = [k |-> IF image.pos = Len(Source(image.k)) THEN image.k + 1 ELSE image.k,
                      pos |-> IF image.pos = Len(Source(image.k)) THEN 0 ELSE image.pos + 1,
                      freeblock |-> free + Needed(inode[i], bn)]
         /\ disk' = [m.disk EXCEPT ![m.block] = InBlock(@, bn, off, off + 1, x)]
         /\ inode' = [inode EXCEPT ![i] = [size |-> off + 1, addrs |-> m.addrs]]
         /\ contents' = [contents EXCEPT ![i] = InFile(@, off, off + 1, x)]
         /\ UNCHANGED panicked

\* The size of the root is rounded up, by a block if it is exact.
RootSize(size) == ((size \div BSIZE) + 1) * BSIZE

\* The last steps of mkfs.
FinishImage ==
    LET size == RootSize(inode[ROOTINO].size) IN
    /\ image.k = Len(Programs) + 1
    /\ image' = [image EXCEPT !.k = @ + 1]
    /\ inode' = [inode EXCEPT ![ROOTINO].size = size]
    /\ bitmap' = 0..(image.freeblock - 1)
    /\ contents' = [contents EXCEPT ![ROOTINO] =
                      [k \in 1..size |-> IF k <= Len(@) THEN @[k] ELSE 0]]
    /\ UNCHANGED <<disk, job, logged, ops, panicked>>

-----------------------------------------------------------------------------
(* write() *)

Locked(i) == \E p \in Proc : job[p].i = i /\ job[p].op \in {"write", "trunc"}

\* filewrite()'s max.
MaxBlocks == (MAXOPBLOCKS - 1 - 1 - 2) \div 2
MaxWrite(n) == Min({n, MaxBlocks * BSIZE})

\* filewrite() at offset f->off of a file; `left` is what remains after this chunk.
Write(p, i, off, n) ==
    /\ ops < MaxOps
    /\ job[p].op = "none" /\ off <= inode[i].size
    /\ \A q \in Proc : job[q].op = "trunc" => job[q].i # i
    /\ job' = [job EXCEPT ![p] = [Idle EXCEPT !.op = "wait", !.i = i, !.off = off, !.left = n]]
    /\ ops' = ops + 1
    /\ UNCHANGED <<image, bitmap, disk, inode, logged, contents, panicked>>

\* begin_op(), ilock() and the checks of writei(), for the next chunk.
NextChunk(p) ==
    LET j == job[p]
        n == MaxWrite(j.left) IN
    /\ j.op = "wait" /\ ~Locked(j.i)
    /\ job' = [job EXCEPT ![p] =
                 IF j.off > inode[j.i].size \/ j.off + n > MAXFILE * BSIZE THEN Idle
                 ELSE [j EXCEPT !.op = "write", !.n = n, !.left = @ - n]]
    /\ UNCHANGED <<image, bitmap, disk, inode, logged, contents, ops, panicked>>

\* The lowest free block.
FreeBlock(used) == Min(Block \ used)

\* balloc() of that many blocks does not succeed.
OutOfBlocks(needed) ==
    \/ needed > 0 /\ Block \subseteq bitmap
    \/ needed > 1 /\ Block \subseteq bitmap \cup {FreeBlock(bitmap)}

\* One turn of the loop of writei(): bmap(), and a copy into the block.
WriteBlock(p) ==
    LET j == job[p]
        a == inode[j.i]
        bn == j.off \div BSIZE
        end == Min({j.off + j.n, (bn + 1) * BSIZE})
        free == FreeBlock(bitmap)
        m == Bmap(a, bn, free, FreeBlock(bitmap \cup {free})) IN
    /\ j.op = "write" /\ j.n > 0 /\ UNCHANGED <<image, ops>>
    /\ IF OutOfBlocks(Needed(a, bn))
       THEN panicked' = TRUE /\ UNCHANGED <<bitmap, disk, inode, job, logged, contents>>
       ELSE
         /\ bitmap' = bitmap \cup m.new
         /\ disk' = [m.disk EXCEPT ![m.block] = InBlock(@, bn, j.off, end, Mark(j.i))]
         /\ inode' = [inode EXCEPT ![j.i].addrs = m.addrs]
         /\ job' = [job EXCEPT ![p].off = end, ![p].n = @ - (end - j.off)]
         /\ logged' = [logged EXCEPT ![p] = @ \cup {m.block} \cup
                         (IF m.new = {} THEN {}
                          ELSE {Bitmap} \cup IF bn < NDIRECT THEN {} ELSE {m.addrs[NDIRECT + 1]})]
         /\ contents' = [contents EXCEPT ![j.i] = InFile(@, j.off, end, Mark(j.i))]
         /\ UNCHANGED panicked

\* Mutant: the size follows a write that ends inside the file.
NewSize_Always(size, off) == off

NewSize(size, off) == IF off > size THEN off ELSE size

\* The end of writei(), iunlock() and end_op().
ChunkDone(p) ==
    LET j == job[p] IN
    /\ j.op = "write" /\ j.n = 0
    /\ inode' = [inode EXCEPT ![j.i].size = NewSize(@, j.off)]
    /\ logged' = [logged EXCEPT ![p] = {}]
    /\ job' = [job EXCEPT ![p] = IF j.left = 0 THEN Idle ELSE [j EXCEPT !.op = "wait"]]
    /\ UNCHANGED <<image, bitmap, disk, contents, ops, panicked>>

-----------------------------------------------------------------------------
(* itrunc() *)

\* The last reference to a file without links is gone.
Truncate(p, i) ==
    /\ ops < MaxOps
    /\ i # ROOTINO /\ job[p].op = "none" /\ \A q \in Proc : job[q].i # i
    /\ job' = [job EXCEPT ![p] = [Idle EXCEPT !.op = "trunc", !.i = i]]
    /\ contents' = [contents EXCEPT ![i] = <<>>]
    /\ ops' = ops + 1
    /\ UNCHANGED <<image, bitmap, disk, inode, logged, panicked>>

\* Mutant: the block of block numbers is not freed itself.
Freed_NotIndirect(x, b) == IF x = MAXFILE THEN {} ELSE {b}

Freed(x, b) == {b}

\* Whether a is without a block from place k up to, and at, x.
NoneFrom(a, k, x) == \A y \in k..x : BlockAt(disk, a, y) = NoBlock

\* bfree() of the next block, at place x, which may say "freeing free block"; addresses
\* in the inode are set to 0, those in the indirect block stay.
Bfree(p, x) ==
    LET j == job[p]
        b == BlockAt(disk, inode[j.i], x) IN
    /\ j.op = "trunc" /\ j.k <= x /\ b # NoBlock /\ NoneFrom(inode[j.i], j.k, x - 1)
    /\ panicked' = (b \notin bitmap)
    /\ bitmap' = bitmap \ Freed(x, b)
    /\ inode' = IF x < NDIRECT THEN [inode EXCEPT ![j.i].addrs[x + 1] = NoBlock]
                ELSE IF x = MAXFILE THEN [inode EXCEPT ![j.i].addrs[NDIRECT + 1] = NoBlock]
                ELSE inode
    /\ job' = [job EXCEPT ![p].k = x + 1]
    /\ logged' = [logged EXCEPT ![p] = @ \cup {Bitmap}]
    /\ UNCHANGED <<image, disk, contents, ops>>

Truncated(p) ==
    LET j == job[p] IN
    /\ j.op = "trunc" /\ NoneFrom(inode[j.i], j.k, MAXFILE)
    /\ inode' = [inode EXCEPT ![j.i].size = 0]
    /\ job' = [job EXCEPT ![p] = Idle]
    /\ logged' = [logged EXCEPT ![p] = {}]
    /\ UNCHANGED <<image, bitmap, disk, contents, ops, panicked>>

Next ==
    /\ ~panicked
    /\ \/ Iappend \/ FinishImage
       \/ Made /\ \E p \in Proc :
            \/ \E i \in Inum \ {ROOTINO}, n \in Sizes :
                 \E off \in {0, 1, inode[i].size} : Write(p, i, off, n)
            \/ \E i \in Inum : Truncate(p, i)
            \/ \E x \in Place : Bfree(p, x)
            \/ NextChunk(p) \/ WriteBlock(p) \/ ChunkDone(p) \/ Truncated(p)

Spec == Init /\ [][Next]_vars

-----------------------------------------------------------------------------
(* Properties *)

\* The block at place x of file i, unless itrunc() has freed it.
Refers(i, x) ==
    IF \E p \in Proc : job[p].op = "trunc" /\ job[p].i = i /\ x < job[p].k THEN NoBlock
    ELSE BlockAt(disk, inode[i], x)

\* From mkfs on, the bitmap marks the system's blocks and those of the files and no
\* others, and no block is in two places, while several processes allocate and free.
BitmapExact ==
    /\ Made => bitmap = 0..(nmeta - 1)
                          \cup ({Refers(i, x) : i \in Inum, x \in Place} \ {NoBlock})
    /\ \A i \in Inum, x \in Place : Refers(i, x) # NoBlock =>
         /\ Refers(i, x) >= nmeta
         /\ \A j \in Inum, y \in Place : Refers(j, y) = Refers(i, x) => j = i /\ y = x

\* A file no process is writing reads back what was written to it, across its
\* direct and indirect blocks, whatever its blocks held before.
ReadsWhatWasWritten == \A i \in Inum : ~Locked(i) => Readi(i) = contents[i]

\* The files of the image are those mkfs was given.
ImageHolds ==
    ops = 0 => \A k \in DOMAIN Programs : k < image.k => contents[k + 1] = Programs[k]

\* No file has a hole or a block past its end: a hole would make readi() allocate.
NoHoles ==
    \A i \in Inum : ~Locked(i) =>
        \A bn \in 0..(MAXFILE - 1) :
            (Lookup(disk, inode[i], bn) # NoBlock) <=> (bn * BSIZE < inode[i].size)

\* No chunk of filewrite() logs more blocks than begin_op() has reserved, with the
\* inode, and no truncation.
TransactionFits == \A p \in Proc : Cardinality(logged[p]) + 1 <= MAXOPBLOCKS
=============================================================================
