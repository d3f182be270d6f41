--------------------------------- MODULE Fs ---------------------------------
(***************************************************************************)
(* The file system of the file server and its block cache: fs/fs.c and     *)
(* fs/bc.c.  The server is one environment, so an operation changes the    *)
(* cached blocks without interruption; but each flush_block() writes to    *)
(* the disk, and the machine may stop between any two of these writes.  An *)
(* operation therefore computes the cache it leaves (mem) and the list of  *)
(* disk writes it makes (log), which the disk then takes one at a time.    *)
(*                                                                         *)
(* Sizes and offsets count words: a block is BLKSIZE words, and a word may *)
(* be read as a block number.  The root directory has one block, and grows *)
(* by one for each file that finds it full; the disk takes a block write   *)
(* whole.                                                                  *)
(***************************************************************************)
EXTENDS Integers, Sequences, FiniteSetsExt, TLC

CONSTANTS
  Files,      \* the entries of the root directory
  NBLOCKS,    \* super->s_nblocks
  NDIRECT,
  BLKSIZE,    \* also NINDIRECT, in words
  MaxSize,    \* bound on f_size
  MaxCount,   \* bound on the words of one read or write
  Words       \* the words written to files

\* Blocks 0 to 3 are the null pointer, the super block, the bitmap and the
\* first block of the directory.
DIRBLOCK == 3
Blocks == 4 .. NBLOCKS - 1
NINDIRECT == BLKSIZE
Units == 0 .. BLKSIZE - 1

ASSUME FsAssumption ==
  /\ NBLOCKS \in Nat /\ NBLOCKS > 4
  /\ NDIRECT \in Nat \ {0} /\ BLKSIZE \in Nat \ {0}
  /\ MaxSize \in Nat /\ MaxCount \in Nat /\ Words \subseteq Nat

VARIABLES
  mem,     \* the block cache: free is the bitmap, dir the block of the directory
           \* (in the super block) each struct File is in, 0 for none yet, ino
           \* the struct Files, blk the other blocks
  disk,    \* the same on the disk, and whether the super block is intact
  log,     \* the disk writes the current operation has still to make
  mode,    \* "up", "down", "smashed" (in check_bc()) or "lost"
  synced,  \* for each file what the disk is known to hold, if it is known
  syncs,   \* the files that are synced when the log is written
  leaked,  \* blocks in use on the disk that no file points to, at the last boot
  stale    \* old words of a block have been taken for a struct File or for the
           \* pointers of an indirect block

vars == <<mem, disk, log, mode, synced, syncs, leaked, stale>>

NewFile == [f_name |-> FALSE, f_size |-> 0,
            f_direct |-> [n \in 0 .. NDIRECT - 1 |-> 0], f_indirect |-> 0]

Clear == [u \in Units |-> 0]

EmptyDisk(dir) == [free |-> Blocks, dir |-> dir, ino |-> [f \in Files |-> NewFile],
                   blk |-> [b \in Blocks |-> Clear]]

\* The disk fsformat makes.  Its directory block has room for all the files, or
\* for all but one: the other entries are taken by files nothing is asked of.
Init ==
  /\ \E dir \in [Files -> {0, DIRBLOCK}] :
       /\ \A f, g \in Files : dir[f] = 0 /\ dir[g] = 0 => f = g
       /\ mem = EmptyDisk(dir)
  /\ disk = mem
  /\ log = <<>> /\ mode = "up"
  /\ synced = [f \in Files |-> {}] /\ syncs = {}
  /\ leaked = {} /\ stale = FALSE
-----------------------------------------------------------------------------
(***************************************************************************)
(* The operations as functions on a state s of the server: the cache s.m,  *)
(* the writes s.log so far, s.bad after a panic, which ends it, and        *)
(* s.stale.                                                                *)
(***************************************************************************)
Start == [m |-> mem, log |-> <<>>, bad |-> FALSE, stale |-> stale]

\* flush_block(): a block that is as on the disk, also after the writes already
\* in the log, needs no write.  No operation flushes a block of the directory or
\* the super block twice.
FlushBitmap(s) ==
  IF s.log = <<>> /\ s.m.free = disk.free THEN s
  ELSE [s EXCEPT !.log = Append(@, [what |-> "bitmap", free |-> s.m.free])]
FlushSuper(s) ==
  IF s.m.dir = disk.dir THEN s
  ELSE [s EXCEPT !.log = Append(@, [what |-> "super", dir |-> s.m.dir])]
FlushBlock(s, b) ==
  LET E == {f \in Files : s.m.dir[f] = b}
  IN  IF E # {}
      THEN IF \A f \in E : s.m.ino[f] = disk.ino[f] THEN s
           ELSE [s EXCEPT !.log =
                   Append(@, [what |-> "ino", ino |-> [f \in E |-> s.m.ino[f]]])]
      ELSE IF s.m.blk[b] = disk.blk[b] THEN s
           ELSE [s EXCEPT !.log = Append(@, [what |-> "data", b |-> b, blk |-> s.m.blk[b]])]
FlushIno(s, f) == FlushBlock(s, s.m.dir[f])

\* The block alloc_block() returns, or 0 for -E_NO_DISK.
Allocated(s) ==
  IF s.m.free = {} THEN 0 ELSE CHOOSE b \in s.m.free : \A c \in s.m.free : b <= c

\* Mutant of AllocBlock: the changed bitmap is not written to the disk.
AllocBlockNoFlush(s) == [s EXCEPT !.m.free = @ \ {Allocated(s)}]

\* alloc_block().  The callers do not notice -E_NO_DISK (they compare an
\* unsigned with 0), and diskaddr() panics on the block number it makes.
AllocBlock(s) ==
  IF Allocated(s) = 0 THEN [s EXCEPT !.bad = TRUE]
  ELSE FlushBitmap([s EXCEPT !.m.free = @ \ {Allocated(s)}])

FreeBlock(s, b) == [s EXCEPT !.m.free = @ \cup {b}]

\* The block alloc_block() has returned is read as something that points to
\* blocks, with the words it had.
Reinterpret(s, b) == [AllocBlock(s) EXCEPT !.stale = @ \/ (b # 0 /\ s.m.blk[b] # Clear)]

\* file_block_walk() with alloc: the indirect block is there afterwards.
BlockWalk(s, f, n) ==
  IF n < NDIRECT \/ s.m.ino[f].f_indirect # 0 THEN s
  ELSE [Reinterpret(s, Allocated(s)) EXCEPT !.m.ino[f].f_indirect = Allocated(s)]

\* The slot of the n-th block of f, 0 if there is no indirect block.
Slot(m, f, n) ==
  IF n < NDIRECT THEN m.ino[f].f_direct[n]
  ELSE IF m.ino[f].f_indirect = 0 THEN 0
  ELSE m.blk[m.ino[f].f_indirect][n - NDIRECT]

SetSlot(s, f, n, b) ==
  IF n < NDIRECT THEN [s EXCEPT !.m.ino[f].f_direct[n] = b]
  ELSE [s EXCEPT !.m.blk[s.m.ino[f].f_indirect][n - NDIRECT] = b]

\* file_get_block(): a block that is missing is allocated, and not cleared.
\* diskaddr() panics on a slot that is no block number.
GetBlock(s, f, n) ==
  LET w == BlockWalk(s, f, n)
  IN  IF s.bad \/ w.bad THEN [s EXCEPT !.bad = TRUE]
      ELSE IF Slot(w.m, f, n) # 0
      THEN [w EXCEPT !.bad = Slot(w.m, f, n) \notin Blocks]
      ELSE IF Allocated(w) = 0 THEN AllocBlock(w)
      ELSE SetSlot(AllocBlock(w), f, n, Allocated(w))

\* file_free_block(); free_block() would accept any number.
FreeFileBlock(s, f, n) ==
  IF Slot(s.m, f, n) = 0 THEN s
  ELSE SetSlot(FreeBlock(s, Slot(s.m, f, n)), f, n, 0)

NBlocksOf(size) == (size + BLKSIZE - 1) \div BLKSIZE

\* for (n = a; n < b; n++) s = op(s, n)
ForBlocks(op(_, _), s, a, b) ==
  LET after[k \in 0 .. b - a] == IF k = 0 THEN s ELSE op(after[k - 1], a + k - 1)
  IN  IF b <= a THEN s ELSE after[b - a]

\* Mutant of TruncateBlocks: the last block of the old size is not freed.
TruncateBlocksShort(s, f, size) ==
  ForBlocks(LAMBDA t, n : FreeFileBlock(t, f, n), s,
            NBlocksOf(size), s.m.ino[f].f_size \div BLKSIZE)

\* file_truncate_blocks().
TruncateBlocks(s, f, size) ==
  LET t == ForBlocks(LAMBDA x, n : FreeFileBlock(x, f, n), s,
                     NBlocksOf(size), NBlocksOf(s.m.ino[f].f_size))
      i == t.m.ino[f].f_indirect
  IN  IF NBlocksOf(size) <= NDIRECT /\ i # 0
      THEN [FreeBlock(t, i) EXCEPT !.m.ino[f].f_indirect = 0]
      ELSE t

\* file_set_size().
FileSetSize(s, f, size) ==
  FlushIno([(IF s.m.ino[f].f_size > size THEN TruncateBlocks(s, f, size) ELSE s)
              EXCEPT !.m.ino[f].f_size = size], f)

\* file_read() of count words inside the file: a hole gets a block.
FileRead(s, f, off, count) ==
  ForBlocks(LAMBDA t, n : GetBlock(t, f, n), s, off \div BLKSIZE,
            NBlocksOf(Min({off + count, s.m.ino[f].f_size})))

\* file_write() of count words w.
FileWrite(s, f, off, count, w) ==
  LET Put(t, n) ==
        LET g == GetBlock(t, f, n)
        IN  IF g.bad THEN g
            ELSE [g EXCEPT !.m.blk[Slot(g.m, f, n)] =
                    [u \in Units |-> IF n * BLKSIZE + u \in off .. off + count - 1
                                     THEN w ELSE @[u]]]
  IN  ForBlocks(Put, IF off + count > s.m.ino[f].f_size
                     THEN FileSetSize(s, f, off + count) ELSE s,
                off \div BLKSIZE, NBlocksOf(off + count))

\* Mutant of FileFlush: the number of blocks is rounded down.
FileFlushShort(s, f) ==
  FlushIno(ForBlocks(LAMBDA t, n : IF Slot(t.m, f, n) = 0 THEN t
                                   ELSE FlushBlock(t, Slot(t.m, f, n)),
                     s, 0, s.m.ino[f].f_size \div BLKSIZE), f)

\* file_flush(): the data blocks, the struct File, the indirect block.
FileFlush(s, f) ==
  LET t == FlushIno(ForBlocks(LAMBDA x, n : IF Slot(x.m, f, n) = 0 THEN x
                                            ELSE FlushBlock(x, Slot(x.m, f, n)),
                              s, 0, NBlocksOf(s.m.ino[f].f_size)), f)
  IN  IF s.m.ino[f].f_indirect = 0 THEN t ELSE FlushBlock(t, s.m.ino[f].f_indirect)

\* file_flush() of the directory: its blocks, then its struct File.
FlushDir(s) ==
  FlushSuper(ForBlocks(LAMBDA t, b : IF \E f \in Files : t.m.dir[f] = b
                                     THEN FlushBlock(t, b) ELSE t, s, DIRBLOCK, NBLOCKS))

\* fs_sync(): every block, in the order of their numbers.
FsSync(s) ==
  ForBlocks(FlushBlock, FlushBitmap(FlushSuper(s)), DIRBLOCK, NBLOCKS)

\* dir_alloc_file() when the directory is full: a block is added, and its first
\* struct File taken with the words the block had (the model's block is shorter
\* than a struct File, whose fields take its words in turn).
GrowDir(s, f) ==
  LET b == Allocated(s)
      w(i) == s.m.blk[b][i % BLKSIZE]
      old == [f_name |-> FALSE, f_size |-> w(0), f_direct |-> [n \in 0 .. NDIRECT - 1 |-> w(n + 1)],
              f_indirect |-> w(NDIRECT + 1)]
  IN  IF b = 0 THEN AllocBlock(s)
      ELSE [Reinterpret(s, b) EXCEPT !.m.dir[f] = b, !.m.ino[f] = old]
-----------------------------------------------------------------------------
\* What a file holds: its words, {} where it has no block; and whether the
\* directory has it.
Contents(m, f) ==
  [there |-> m.dir[f] # 0 /\ m.ino[f].f_name,
   words |-> [k \in 0 .. m.ino[f].f_size - 1 |->
                IF Slot(m, f, k \div BLKSIZE) = 0 THEN {}
                ELSE {m.blk[Slot(m, f, k \div BLKSIZE)][k % BLKSIZE]}]]

\* The server takes an operation that ends in state s; the files in dirty may
\* differ from the disk from now on, those in clean are on it at the end.
Perform(s, dirty, clean) ==
  /\ mode = "up" /\ log = <<>>
  /\ mem' = s.m
  /\ log' = IF s.bad THEN Append(s.log, [what |-> "panic"]) ELSE s.log
  /\ synced' = [f \in Files |->
                  IF log' = <<>> /\ f \in clean THEN {Contents(s.m, f)}
                  ELSE IF f \in dirty THEN {} ELSE synced[f]]
  /\ syncs' = IF log' = <<>> THEN {} ELSE clean
  /\ stale' = s.stale
  /\ UNCHANGED <<disk, mode, leaked>>

Exists(f) == mem.dir[f] # 0 /\ mem.ino[f].f_name

\* file_create() of a new name: an unused struct File of the directory, or the
\* first one of a new block when there is none.  Only the name is written.
Create(f) ==
  /\ ~Exists(f)
  /\ mem.dir[f] = 0 => \A g \in Files \ {f} : Exists(g)
  /\ LET s == IF mem.dir[f] = 0 THEN GrowDir(Start, f) ELSE Start
     IN  Perform(IF s.bad THEN s ELSE FlushDir([s EXCEPT !.m.ino[f].f_name = TRUE]), {f}, {})

SetSize(f, size) ==
  Exists(f) /\ Perform(FileSetSize(Start, f, size), {f}, {})

Read(f, off, count) ==
  /\ Exists(f) /\ off < mem.ino[f].f_size
  /\ Perform(FileRead(Start, f, off, count), {f}, {})

Write(f, off, count, w) ==
  Exists(f) /\ Perform(FileWrite(Start, f, off, count, w), {f}, {})

Flush(f) == Exists(f) /\ Perform(FileFlush(Start, f), {}, {f})

Sync == Perform(FsSync(Start), {}, Files)

\* After a restart the cache is empty, and bc_pgfault() reads each block from the
\* disk when it is first used.  Its panic on a block that is marked free does not
\* happen to a file's block as long as BlocksOwned holds.
Reread == mem' = disk

\* ide_write() of the next block, or the panic.
DiskWrite ==
  /\ mode = "up" /\ log # <<>>
  /\ LET w == Head(log)
     IN  /\ disk' = CASE w.what = "bitmap" -> [disk EXCEPT !.free = w.free]
                      [] w.what = "super"  -> [disk EXCEPT !.dir = w.dir]
                      [] w.what = "ino"    -> [disk EXCEPT !.ino = w.ino @@ @]
                      [] w.what = "data"   -> [disk EXCEPT !.blk[w.b] = w.blk]
                      [] w.what = "panic"  -> disk
         /\ mode' = IF w.what = "panic" THEN "down" ELSE "up"
         /\ IF w.what = "panic" THEN Reread ELSE UNCHANGED mem
  /\ log' = Tail(log)
  /\ synced' = [f \in Files |-> IF log' = <<>> /\ f \in syncs
                                THEN {Contents(mem, f)} ELSE synced[f]]
  /\ syncs' = IF log' = <<>> THEN {} ELSE syncs
  /\ UNCHANGED <<leaked, stale>>

\* The machine stops, or the server does, when bc_pgfault() finds no page for a
\* block; what is only in the cache is lost.  In check_bc() the super block on
\* the disk is not a super block.
Crash ==
  /\ mode \in {"up", "smashed"}
  /\ mode' = IF mode = "up" THEN "down" ELSE "lost"
  /\ Reread /\ log' = <<>> /\ syncs' = {}
  /\ UNCHANGED <<disk, synced, leaked, stale>>

\* The pointers of an image's files (-1 is f_indirect) and of its directory, to
\* the block it has got for a struct File (-2), and their blocks.
Target(m, p) ==
  CASE p[2] = -2 -> IF m.dir[p[1]] = DIRBLOCK THEN 0 ELSE m.dir[p[1]]
    [] p[2] = -1 -> m.ino[p[1]].f_indirect
    [] OTHER     -> Slot(m, p[1], p[2])
Pointers(m) ==
  {p \in {f \in Files : m.dir[f] # 0} \X (-2 .. NDIRECT + NINDIRECT - 1) : Target(m, p) # 0}
Used(m) == {Target(m, p) : p \in Pointers(m)}

\* fs_init(): check_bc() overwrites the super block and writes it back.
CheckBcSmash ==
  /\ mode = "down" /\ mode' = "smashed"
  /\ UNCHANGED <<mem, disk, log, synced, syncs, leaked, stale>>

CheckBcRestore ==
  /\ mode = "smashed" /\ mode' = "up"
  /\ leaked' = Blocks \ (disk.free \cup Used(disk))
  /\ UNCHANGED <<mem, disk, log, synced, syncs, stale>>

Next ==
  \/ \E f \in Files :
       \/ Create(f) \/ Flush(f)
       \/ \E n \in 0 .. MaxSize : SetSize(f, n)
       \/ \E off \in 0 .. MaxSize - 1, count \in 1 .. MaxCount :
            /\ off + count <= MaxSize
            /\ Read(f, off, count) \/ \E w \in Words : Write(f, off, count, w)
  \/ Sync \/ DiskWrite \/ Crash \/ CheckBcSmash \/ CheckBcRestore

Spec == Init /\ [][Next]_vars
-----------------------------------------------------------------------------
IsImage(m) ==
  /\ m.free \subseteq Blocks /\ m.dir \in [Files -> {0, DIRBLOCK} \cup Blocks]
  /\ m.ino \in [Files -> [f_name : BOOLEAN, f_size : 0 .. MaxSize,
                          f_direct : [0 .. NDIRECT - 1 -> {0} \cup Blocks],
                          f_indirect : {0} \cup Blocks]]
  /\ m.blk \in [Blocks -> [Units -> Nat]]

\* Cache and disk are well formed images: the pointers of a struct File are
\* block numbers of the disk or 0, unless they are old words of file_create().
TypeOK ==
  /\ stale \in BOOLEAN /\ (~stale => IsImage(mem) /\ IsImage(disk))
  /\ mode \in {"up", "down", "smashed", "lost"}
  /\ leaked \subseteq Blocks /\ syncs \subseteq Files

\* Each block has one owner: in the cache and, whenever the machine stops, on the
\* disk, no block belongs to two files or twice to one, or to a file and the
\* directory, and none that is in use is marked free, so that alloc_block()
\* cannot hand it out again.
OneOwner ==
  \A m \in {mem, disk} :
    /\ Cardinality(Used(m)) = Cardinality(Pointers(m))
    /\ Used(m) \cap m.free = {}

\* No file needs an indirect block (file_set_size() does not write the one it
\* changes), and no block that alloc_block() returned with old words has become
\* a block of the directory.
Sound == NBlocksOf(MaxSize) <= NDIRECT /\ ~stale

\* Of files with direct blocks only: the order of the writes of alloc_block(),
\* file_set_size() and file_create() keeps each block with one owner, in the
\* cache and through every crash, until old words of a block are taken for a
\* struct File.
BlocksOwned == Sound => OneOwner

\* Blocks are lost only to crashes: while the server runs, each one is free, in
\* a file or the directory, or was already lost when it started; and a file has
\* no block beyond its size, where file_truncate_blocks() would never find it.
NoLeaks ==
  mode = "up" /\ Sound =>
    /\ Blocks = mem.free \cup Used(mem) \cup leaked
    /\ \A p \in Pointers(mem) : p[2] < NBlocksOf(mem.ino[p[1]].f_size)

\* After file_flush() or fs_sync() has returned, the disk holds the file until
\* an operation changes it, through every crash and whatever happens to other
\* files in the meantime.  (Whether the disk still has a super block is not part
\* of it: a crash in check_bc() leaves none.)
FlushedIsDurable ==
  Sound => \A f \in Files : \A c \in synced[f] : c = Contents(disk, f)
=============================================================================
