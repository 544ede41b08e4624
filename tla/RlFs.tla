-------------------------------- MODULE RlFs --------------------------------
(***************************************************************************)
(* The file system rlfs3 (rlfs3.c): the bitmap of blocks, inodes with      *)
(* direct and index blocks, directories, and the calls that create, read,  *)
(* write and remove files.  Every call is one step: it runs with           *)
(* interrupts off.  Below it is the disk that module BlockCache is shown   *)
(* to be.                                                                  *)
(*                                                                         *)
(* Sizes and offsets count units of 32 words, the size of a directory      *)
(* entry, of which a block holds eight.  A block holds an inode, units of  *)
(* data or block numbers, whichever was last written to it.  One device    *)
(* and no mounts: paths start at the root.  Device nodes are special files *)
(* of other devices: of what is done to them only the buffers that writes  *)
(* to block devices keep are followed.                                     *)
(***************************************************************************)
EXTENDS Integers, Sequences, FiniteSets, FirstFit

CONSTANTS
  BLOCKS,              \* blocks the bitmap describes
  ROOT,                \* inode of the root (34); the blocks before it are reserved
  UNITS,               \* units in a block (8)
  DIRECT_INDEXES_CNT,  \* direct entries of an inode (150)
  INDEXES,             \* its index blocks (102)
  ENTRIES,             \* entries of an index block (256)
  SIZE_RANGE,          \* number of values of a size_t, in units (2^16 words)
  MAX_FILES,           \* FILEs the system has (10)
  Paths,               \* the paths the programs name
  Modes,               \* the modes they open files with, as sets of flags
  Vals,                \* what they write
  Sizes,               \* how many units they read or write at a time
  MaxSize,             \* bound on the size of a file
  MaxEntries,          \* bound on the entries of a directory
  MaxBlkdev,           \* bound on the writes to block devices
  Abuses               \* what else they do: see below

\* wronly: open a file with O_WRONLY and nothing else.  unlink_open: unlink a
\* file that is open.  file_as_dir: name something below a file.  full: go on when
\* the disk is full.
AllAbuses == {"wronly", "unlink_open", "file_as_dir", "full"}

ASSUME RlFsAssumption ==
  /\ ROOT \in Nat \ {0} /\ BLOCKS \in Nat /\ BLOCKS > ROOT + 1
  /\ UNITS \in Nat \ {0} /\ DIRECT_INDEXES_CNT \in Nat \ {0}
  /\ INDEXES \in Nat /\ ENTRIES \in Nat \ {0}
  /\ MaxSize \in Nat /\ MaxEntries \in Nat /\ MaxEntries >= 2
  /\ \A m \in {MaxSize, MaxEntries} : /\ m < (DIRECT_INDEXES_CNT + INDEXES * ENTRIES) * UNITS
                                      /\ m < SIZE_RANGE
  /\ SIZE_RANGE \in Nat /\ MaxBlkdev \in Nat
  /\ MAX_FILES \in Nat \ {0}
  /\ Paths \subseteq Seq(STRING \ {""})
  /\ Sizes \subseteq Nat \ {0}
  /\ Modes \subseteq SUBSET {"WRONLY", "RDWR", "APPEND", "CREAT"}
  /\ Abuses \subseteq AllAbuses

Blocks == 0 .. BLOCKS - 1
Slots == 0 .. DIRECT_INDEXES_CNT + INDEXES - 1
FILEs == 0 .. MAX_FILES - 1

VARIABLES
  fs,     \* the disk: the bitmap (marked), the other blocks (disk), and the
          \* buffers that calls kept for ever (kept)
  files,  \* the open FILEs
  blkdev  \* what writes to block devices kept: one use of a buffer each

vars == <<fs, files, blkdev>>

\* What a block can hold.
Node(mode, size) == [mode |-> mode, size |-> size, index |-> [i \in Slots |-> 0]]
Units(u) == [unit |-> u]
Index(e) == [to |-> e]

\* What a unit can hold: what no one wrote, data, or an entry of a directory.
Junk == [junk |-> TRUE]
Value(v) == [val |-> v]
Dirent(name, idx) == [name |-> name, idx |-> idx]
Hole == Dirent("", 0)

NoFile == [node |-> 0]

-----------------------------------------------------------------------------
(* Blocks                                                                  *)

\* The first block whose bit is off; 0 when there is none.
fs_findFreeSector(z) ==
  IF Blocks \subseteq z.marked THEN 0 ELSE Lowest(Blocks \ z.marked)

\* Mutant: the block is not marked.
allocUnmarked(z) == [z |-> z, blk |-> fs_findFreeSector(z)]

\* A block and the disk with its bit on.
fs_allocBlock(z) ==
  LET b == fs_findFreeSector(z)
  IN [z |-> [z EXCEPT !.marked = @ \cup {b}], blk |-> b]

fs_freeBlock(z, b) == [z EXCEPT !.marked = @ \ {b}]

\* The k-th block of inode n lies in entry SlotOf(k), directly or in entry
\* EntryOf(k) of the index block there.
IsDirect(k) == k < DIRECT_INDEXES_CNT
SlotOf(k) == IF IsDirect(k) THEN k
             ELSE DIRECT_INDEXES_CNT + (k - DIRECT_INDEXES_CNT) \div ENTRIES
EntryOf(k) == (k - DIRECT_INDEXES_CNT) % ENTRIES

\* The k-th block of inode n; 0 when it has none.
BlockAt(z, n, k) ==
  LET b == z.disk[n].index[SlotOf(k)]
  IN IF IsDirect(k) \/ b = 0 THEN b ELSE z.disk[b].to[EntryOf(k)]

\* The disk on which inode n has an index block for its k-th block: a new one
\* is cleared.
WithIndex(z, n, k) ==
  IF z.disk[n].index[SlotOf(k)] # 0 THEN z
  ELSE LET a == fs_allocBlock(z)
       IN [a.z EXCEPT !.disk[n].index[SlotOf(k)] = a.blk,
                      !.disk[a.blk] = Index([e \in 0 .. ENTRIES - 1 |-> 0])]

\* The block that holds unit off of inode n, allocated where it is missing.
getOrAllocBlockByOffset(z, n, off) ==
  LET k == off \div UNITS
      y == IF IsDirect(k) THEN z ELSE WithIndex(z, n, k)
      a == fs_allocBlock(y)
  IN IF BlockAt(y, n, k) # 0 THEN [z |-> y, blk |-> BlockAt(y, n, k)]
     ELSE [z |-> IF IsDirect(k) THEN [a.z EXCEPT !.disk[n].index[k] = a.blk]
                 ELSE [a.z EXCEPT !.disk[y.disk[n].index[SlotOf(k)]].to[EntryOf(k)] = a.blk],
           blk |-> a.blk]

-----------------------------------------------------------------------------
(* Reading and writing an inode                                            *)

\* A block seen as units of data.
UnitsOf(c) == IF "unit" \in DOMAIN c THEN c.unit ELSE [u \in 0 .. UNITS - 1 |-> Junk]

\* Unit off of inode n.  fs_read finds every block below the size allocated
\* (FilesMapped), so that reading changes nothing.
UnitAt(z, n, off) == UnitsOf(z.disk[BlockAt(z, n, off \div UNITS)])[off % UNITS]

\* How many units fs_read returns.
fs_read(z, n, off, size) ==
  LET have == z.disk[n].size - off
  IN IF have < 0 THEN 0 ELSE IF size > have THEN have ELSE size

\* Mutant: the block behind the end is not taken before the next write.
stepInPlace(y, n, v) ==
  [y EXCEPT !.off = @ + 1,
            !.z.disk[y.blk] = Units([UnitsOf(@) EXCEPT ![y.off % UNITS] = v])]

\* One unit of fs_write's loop: store it and take the block of the next, which
\* at the end of a block is a new one whether or not there is more to write.
writeStep(y, n, v) ==
  LET z == [y.z EXCEPT !.disk[y.blk] =
              Units([UnitsOf(@) EXCEPT ![y.off % UNITS] = v])]
      g == getOrAllocBlockByOffset(z, n, y.off + 1)
  IN [z |-> g.z, off |-> y.off + 1, blk |-> g.blk]

\* The disk after vals was written to inode n from unit off on.  Behind the end
\* fs_write returns at once and keeps the inode's buffer.
fs_write(z, n, off, vals) ==
  IF off > z.disk[n].size THEN [z EXCEPT !.kept = @ + 1]
  ELSE LET g == getOrAllocBlockByOffset(z, n, off)
           at[i \in 0 .. Len(vals)] ==
             IF i = 0 THEN [z |-> g.z, off |-> off, blk |-> g.blk]
             ELSE writeStep(at[i - 1], n, vals[i])
           y == at[Len(vals)]
       IN IF y.off > z.disk[n].size THEN [y.z EXCEPT !.disk[n].size = y.off] ELSE y.z

\* Data blocks up to the size, index blocks and the inode itself become free.
\* What the inode says stays, and so does a block taken behind the end.
fs_reset(z, n) ==
  LET blocks == (z.disk[n].size + UNITS - 1) \div UNITS
      freed[k \in 0 .. blocks] ==
        IF k = 0 THEN z
        ELSE LET g == getOrAllocBlockByOffset(freed[k - 1], n, (k - 1) * UNITS)
             IN fs_freeBlock(g.z, g.blk)
      y == freed[blocks]
      index == {y.disk[n].index[i] : i \in DIRECT_INDEXES_CNT .. DIRECT_INDEXES_CNT + INDEXES - 1}
  IN fs_freeBlock([y EXCEPT !.marked = @ \ (index \ {0})], n)

-----------------------------------------------------------------------------
(* Directories                                                             *)

\* The entries of inode n that have the name.  What programs write to a file is
\* never taken for an entry.
Named(z, n, name) ==
  {off \in 0 .. z.disk[n].size - 1 : LET u == UnitAt(z, n, off)
                                     IN "name" \in DOMAIN u /\ u.name = name}

\* fs_lookup: where a path leads, the directory it lies in and whether it is
\* there.  A name that is not found leaves the result at the directory.
Step(z, r, name) ==
  IF r.rv # "OK" THEN [r EXCEPT !.rv = "NO_DIR"]
  ELSE LET found == Named(z, r.node, name)
       IN IF found = {} THEN [rv |-> "NO_FILE", parent |-> r.node, node |-> r.node]
          ELSE [rv |-> "OK", parent |-> r.node,
                node |-> UnitAt(z, r.node, Lowest(found)).idx]
fs_lookup(z, path) ==
  LET at[i \in 0 .. Len(path)] ==
        IF i = 0 THEN [rv |-> "OK", parent |-> ROOT, node |-> ROOT]
        ELSE Step(z, at[i - 1], path[i])
  IN at[Len(path)]

\* Mutant: the new entry is written over the last one.
createOverLast(z, where, name, mode) ==
  LET a == fs_allocBlock(z)
      y == fs_write(a.z, where, z.disk[where].size - 1, <<Dirent(name, a.blk)>>)
  IN [z |-> [y EXCEPT !.disk[a.blk] = Node(mode, 0)], node |-> a.blk]

\* A new inode and, at the end of directory where, its entry: holes are not used
\* again.  Where that is no directory the error is returned, which no caller
\* looks at: the caller goes on with the node it has, where itself.
fs_create(z, where, name, mode) ==
  IF z.disk[where].mode # "DIR" THEN [z |-> z, node |-> where]
  ELSE LET a == fs_allocBlock(z)
           y == fs_write(a.z, where, z.disk[where].size, <<Dirent(name, a.blk)>>)
       IN [z |-> [y EXCEPT !.disk[a.blk] = Node(mode, 0)], node |-> a.blk]

-----------------------------------------------------------------------------
(* The calls                                                               *)

\* In an action \E x \in {e} names the value of e for the conjuncts that follow.
NameOf(path) == path[Len(path)]
OpenOn(n) == {f \in FILEs : files[f].node = n}

\* Bounds: after a call that allocates the disk is not full, and no directory
\* grows past MaxEntries, nor a file past MaxSize.
Room(z) == ~(Blocks \subseteq z.marked) \/ "full" \in Abuses
Fits(n) == fs.disk[n].size < MaxEntries

\* The lookups the programs of a run make: below directories, unless they abuse it.
Sound(r) == /\ r.rv # "NO_DIR"
            /\ fs.disk[r.parent].mode = "DIR" \/ "file_as_dir" \in Abuses

\* The FILE fs_open makes and the disk it leaves.
Opened(z, n, mode) ==
  LET size == IF z.disk[n].mode = "DEV" THEN 1 ELSE z.disk[n].size
  IN /\ files' = [files EXCEPT ![Lowest(OpenOn(0))] =
                    [node |-> n, size |-> size, pos |-> IF "APPEND" \in mode THEN size ELSE 0]]
     /\ fs' = IF mode = {"WRONLY"} /\ z.disk[n].mode # "DEV" THEN fs_reset(z, n) ELSE z

k_open(path, mode) ==
  LET r == fs_lookup(fs, path)
  IN /\ OpenOn(0) # {} /\ Sound(r)
     /\ mode # {"WRONLY"} \/ "wronly" \in Abuses
     /\ \/ r.rv = "OK" /\ Opened(fs, r.node, mode)
        \/ /\ r.rv = "NO_FILE" /\ mode \cap {"WRONLY", "APPEND", "CREAT"} # {}
           /\ Fits(r.parent)
           /\ \E made \in {fs_create(fs, r.parent, NameOf(path), "REG")} :
                Room(made.z) /\ Opened(made.z, made.node, mode)
        \/ /\ r.rv = "NO_FILE" /\ mode \cap {"WRONLY", "APPEND", "CREAT"} = {}
           /\ UNCHANGED <<fs, files>>

\* The last close: earlier ones only count down (module Files).
k_close(f) ==
  /\ files[f] # NoFile
  /\ files' = [files EXCEPT ![f] = NoFile]
  /\ UNCHANGED fs

\* The FILE is a file or a directory.  Character devices go to the operations of
\* their driver, block devices to blkdev_read and blkdev_write.
Plain(f) == files[f] # NoFile /\ fs.disk[files[f].node].mode # "DEV"

\* The programs of the runs write to files only: the code lets them write to a
\* directory too.
k_write(f, n, v) ==
  LET F == files[f]
  IN /\ Plain(f) /\ F.pos + n <= MaxSize
     /\ fs.disk[F.node].mode = "REG"
     /\ fs' = fs_write(fs, F.node, F.pos, [i \in 1 .. n |-> Value(v)])
     /\ Room(fs')
     /\ files' = IF F.pos > fs.disk[F.node].size THEN files
                 ELSE [files EXCEPT ![f].pos = @ + n]

\* A write to a block device, of another disk than this one: its buffer is neither
\* marked as modified nor given back.  Where the FILE then stands is left out.
blkdev_write(f) ==
  /\ files[f] # NoFile /\ fs.disk[files[f].node].mode = "DEV"
  /\ blkdev < MaxBlkdev
  /\ blkdev' = blkdev + 1
  /\ UNCHANGED <<fs, files>>

\* What a read of n units returns.  The size the FILE was opened with is taken
\* off without a look at the sign.
ReadCount(f, n) ==
  LET F == files[f]
      want == IF n + F.pos > F.size THEN (F.size - F.pos) % SIZE_RANGE ELSE n
  IN fs_read(fs, F.node, F.pos, want)

\* Behind the end of the file fs_read keeps the inode's buffer too.
k_read(f, n) ==
  /\ Plain(f)
  /\ files' = [files EXCEPT ![f].pos = @ + ReadCount(f, n)]
  /\ fs' = IF files[f].pos > fs.disk[files[f].node].size
           THEN [fs EXCEPT !.kept = @ + 1] ELSE fs

\* Mutant: the position is not held back.
seekAnywhere(f, pos) ==
  /\ Plain(f)
  /\ files' = [files EXCEPT ![f].pos = pos]
  /\ UNCHANGED fs

k_seek(f, pos) ==
  /\ Plain(f)
  /\ files' = [files EXCEPT ![f].pos = IF files[f].size < pos THEN files[f].size ELSE pos]
  /\ UNCHANGED fs

\* Entries are read one by one; holes are passed over.
k_readdir(f) ==
  LET F == files[f]
      entries == {off \in F.pos .. F.size - 1 : UnitAt(fs, F.node, off).idx # 0}
  IN /\ F # NoFile /\ fs.disk[F.node].mode = "DIR"
     /\ files' = [files EXCEPT ![f].pos = IF F.pos >= F.size THEN F.pos
                                          ELSE IF entries = {} THEN F.size
                                          ELSE Lowest(entries) + 1]
     /\ UNCHANGED fs

\* Mutant: the entry stays.
unlinkKeepsEntry(path) ==
  LET r == fs_lookup(fs, path)
  IN /\ Sound(r) /\ r.rv = "OK" /\ fs.disk[r.node].mode # "DIR"
     /\ OpenOn(r.node) = {}
     /\ fs' = fs_reset(fs, r.node)
     /\ UNCHANGED files

\* sys_unlink refuses directories.  The first entry with the inode's number is
\* cleared, after everything was freed.
k_unlink(path) ==
  LET r == fs_lookup(fs, path)
      y == fs_reset(fs, r.node)
      at == {off \in 0 .. fs.disk[r.parent].size - 1 : UnitAt(fs, r.parent, off).idx = r.node}
  IN /\ Sound(r) /\ r.rv = "OK" /\ fs.disk[r.node].mode # "DIR"
     /\ OpenOn(r.node) = {} \/ "unlink_open" \in Abuses
     /\ fs' = fs_write(y, r.parent, Lowest(at), <<Hole>>)
     /\ UNCHANGED files

\* A new directory starts with its own entry and its parent's.
Dotted(z, n, parent) ==
  fs_write(fs_write(z, n, 0, <<Dirent(".", n)>>), n, 1, <<Dirent("..", parent)>>)

\* Mutant: a name that exists is made again.
mkdirAgain(path) ==
  LET r == fs_lookup(fs, path)
  IN /\ Sound(r) /\ Fits(r.parent)
     /\ \E made \in {fs_create(fs, r.parent, NameOf(path), "DIR")} :
          fs' = Dotted(made.z, made.node, r.parent)
     /\ Room(fs')
     /\ UNCHANGED files

k_mkdir(path) ==
  LET r == fs_lookup(fs, path)
  IN /\ Sound(r) /\ r.rv = "NO_FILE" /\ Fits(r.parent)
     /\ \E made \in {fs_create(fs, r.parent, NameOf(path), "DIR")} :
          fs' = Dotted(made.z, made.node, r.parent)
     /\ Room(fs')
     /\ UNCHANGED files

\* The word behind the mode holds the device's number, which is the size of any
\* other inode: major device 1 reads as one block.
k_mknod(path) ==
  LET r == fs_lookup(fs, path)
  IN /\ Sound(r) /\ r.rv = "NO_FILE" /\ Fits(r.parent)
     /\ \E made \in {fs_create(fs, r.parent, NameOf(path), "DEV")} :
          Room(made.z) /\ fs' = [made.z EXCEPT !.disk[made.node].size = UNITS]
     /\ UNCHANGED files

-----------------------------------------------------------------------------
(* The specification                                                       *)

\* A disk fs_mkfs has formatted.
fs_mkfs ==
  Dotted([marked |-> 0 .. ROOT, kept |-> 0,
          disk |-> [b \in Blocks |-> IF b = ROOT THEN Node("DIR", 2)
                                     ELSE Units([u \in 0 .. UNITS - 1 |-> Junk])]],
         ROOT, ROOT)

\* The disk is larger than what fs_mkfs puts on it.
ASSUME DiskAssumption == Room(fs_mkfs)

Init == fs = fs_mkfs /\ files = [f \in FILEs |-> NoFile] /\ blkdev = 0

\* The calls on files, directories and names.
FsCall ==
  \/ \E path \in Paths, mode \in Modes : k_open(path, mode)
  \/ \E path \in Paths : k_unlink(path) \/ k_mkdir(path) \/ k_mknod(path)
  \/ \E f \in FILEs : \/ k_close(f) \/ k_readdir(f)
                      \/ \E pos \in 0 .. MaxSize : k_seek(f, pos)
                      \/ \E n \in Sizes : \/ k_read(f, n)
                                          \/ \E v \in Vals : k_write(f, n, v)

Next ==
  \/ FsCall /\ UNCHANGED blkdev
  \/ \E f \in FILEs : blkdev_write(f)

Spec == Init /\ [][Next]_vars

-----------------------------------------------------------------------------
(* Properties                                                              *)

\* The inodes a path leads to: one, or none.
NodesAt(path) ==
  LET below(n, name) == {UnitAt(fs, n, off).idx : off \in Named(fs, n, name)}
      at[i \in 0 .. Len(path)] ==
        IF i = 0 THEN {ROOT} ELSE UNION {below(n, path[i]) : n \in at[i - 1]}
  IN at[Len(path)]
Present == {<<>>} \cup {p \in Paths : NodesAt(p) # {}}
Nodes == UNION {NodesAt(p) : p \in Present}

\* What each inode in the tree has a block for, and the block: itself, the
\* entries of the inode, the entries of its index blocks.
Claims ==
  UNION {LET ix == fs.disk[n].index
         IN {[of |-> <<n>>, blk |-> n]}
              \cup {[of |-> <<n, i>>, blk |-> ix[i]] : i \in {i \in Slots : ix[i] # 0}}
              \cup UNION {{[of |-> <<n, i, e>>, blk |-> fs.disk[ix[i]].to[e]]
                             : e \in {e \in 0 .. ENTRIES - 1 : fs.disk[ix[i]].to[e] # 0}}
                            : i \in {i \in Slots : i >= DIRECT_INDEXES_CNT /\ ix[i] # 0}}
         : n \in Nodes}

\* The bitmap, the tree and the FILEs keep their types.
FsTypeOK ==
  /\ fs.marked \subseteq Blocks /\ DOMAIN fs.disk = Blocks /\ fs.kept \in Nat
  /\ blkdev \in 0 .. MaxBlkdev
  /\ \A n \in Nodes : /\ DOMAIN fs.disk[n] = {"mode", "size", "index"}
                       /\ fs.disk[n].mode \in {"REG", "DIR", "DEV"}
                       /\ fs.disk[n].size \in 0 .. MaxSize \cup 0 .. MaxEntries \cup 0 .. UNITS
  /\ \A f \in FILEs : files[f] # NoFile =>
       files[f].node \in Nodes /\ files[f].pos \in 0 .. MaxSize \cup 0 .. MaxEntries

\* A name is in use once: every path leads to one inode, and no two paths lead
\* to the same one.
OneNode ==
  /\ \A p \in Present : Cardinality(NodesAt(p)) = 1
  /\ Cardinality(Nodes) = Cardinality(Present)

\* The directories form a tree of sound inodes: every name leads to one inode of
\* a known kind and size, no inode has two names, and every open FILE stands on
\* one of them at a position inside it, after any creations and removals.
TreeSound == FsTypeOK /\ OneNode

\* No block has two uses: whatever was created, written, removed and allocated
\* again, no two inodes, index blocks or pieces of data lie on one block.
BlocksPrivate ==
  Cardinality({c.blk : c \in Claims}) = Cardinality(Claims)

\* Every block the tree uses is marked in the bitmap, so that fs_findFreeSector
\* never hands it out again, and none is the superblock or the bitmap itself.
UsedIsMarked == \A c \in Claims : c.blk \in fs.marked /\ c.blk >= ROOT

\* Every file has its blocks up to its size: a read never has to allocate, which
\* it would do without writing the inode back.
FilesMapped ==
  \A n \in Nodes : fs.disk[n].mode # "DEV" =>
    \A off \in 0 .. fs.disk[n].size - 1 :
      BlockAt(fs, n, off \div UNITS) # 0 /\ UnitAt(fs, n, off) # Junk

\* Calls on files, directories and names give every buffer back: the early returns
\* of fs_read and fs_write, which never return the inode's buffer, are not taken,
\* because no position runs ahead of the file it is in.  (Of the uses of buffers
\* that are kept all are then counted in blkdev: those of blkdev_write, which
\* keeps one each time it is called.)  Sixteen blocks kept and bread() loops for
\* ever.
FileCallsKeepNone == fs.kept = 0

\* What the programs see of the disk.
Shown(p) ==
  LET at(n) == [mode |-> fs.disk[n].mode,
                data |-> IF fs.disk[n].mode # "REG" THEN <<>>
                         ELSE [i \in 1 .. fs.disk[n].size |-> UnitAt(fs, n, i - 1).val]]
      seen[S \in SUBSET Blocks] ==
        IF S = {} THEN [mode |-> "none", data |-> <<>>] ELSE at(CHOOSE n \in S : TRUE)
  IN seen[NodesAt(p)]

Store == INSTANCE FileStore WITH store <- [p \in Paths |-> Shown(p)]

\* The bitmap, inodes and directories implement a tree of files that do not
\* touch each other.
IsFileStore == Store!Spec

=============================================================================
