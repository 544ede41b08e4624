----------------------------- MODULE BlockCache -----------------------------
(***************************************************************************)
(* The block cache (blk.c) under the file system: bread, bfree and         *)
(* block_sync, with the writes to a held block that its callers make: they *)
(* store into b->data and most of them set b->flags = BLOCK_MODIFIED, but  *)
(* the write to a block device and the direct entry of an inode under      *)
(* fs_reset do not.                                                        *)
(*                                                                         *)
(* The kernel calls it with interrupts off, so a call is one step.  The    *)
(* driver is a disk: read and write move one block (external).  Callers    *)
(* hold blocks between the calls, several at a time: fs_write holds the    *)
(* inode, an indirect block and a data block.  A write to a block device   *)
(* never gives its block back: that caller makes no bfree step.            *)
(***************************************************************************)
EXTENDS Integers, FirstFit

CONSTANTS
  BLOCK_CACHE_SIZE,  \* 16 in blk.h
  Blocks,            \* the blocks of the devices, as (device, n)
  Data,              \* what a block can hold
  Blank,             \* what every block of a fresh disk holds
  MaxHolds           \* bound on the times a run holds one block at once

ASSUME CacheAssumption ==
  /\ BLOCK_CACHE_SIZE \in Nat \ {0}
  /\ Blank \in Data
  /\ MaxHolds \in Nat \ {0}

Buffers == 0 .. BLOCK_CACHE_SIZE - 1

VARIABLES
  flags,  \* blockCache[].flags
  blk,    \* blockCache[].device and .n
  cnt,    \* blockCache[].cnt
  data,   \* blockCache[].data
  disk,   \* what the devices hold
  held,   \* the pointers handed out by bread and not yet given to bfree:
          \* held[i][b] of them for buffer i, by callers that asked for block b
  seen,   \* the block last obtained with bread and what it held
  hung    \* bread turns in its loop for ever

vars == <<flags, blk, cnt, data, disk, held, seen, hung>>

-----------------------------------------------------------------------------
(* Operations                                                              *)

\* Mutant: the search takes clean buffers only.
CachedClean(b) == {i \in Buffers : flags[i] = "USED" /\ blk[i] = b}

Cached(b) == {i \in Buffers : flags[i] # "FREE" /\ blk[i] = b}

\* Mutants: a buffer with one holder left is dropped; a modified buffer is not
\* written back.
DroppedEarly == {i \in Buffers : cnt[i] <= 1}
SyncedNothing == disk

\* The buffers block_sync frees: those nobody holds.
Dropped == {i \in Buffers : cnt[i] = 0}

\* What the devices hold after block_sync: the modified ones are written, in
\* the order of the buffers.
Synced ==
  LET writers(b) == {i \in Dropped : flags[i] = "MODIFIED" /\ blk[i] = b}
      last(b) == CHOOSE i \in writers(b) : \A j \in writers(b) : j <= i
  IN [b \in Blocks |-> IF writers(b) = {} THEN disk[b] ELSE data[last(b)]]

FlagsSynced == [i \in Buffers |-> IF i \in Dropped THEN "FREE" ELSE flags[i]]

block_sync ==
  /\ ~hung
  /\ disk' = Synced /\ flags' = FlagsSynced
  /\ UNCHANGED <<blk, cnt, data, held, seen, hung>>

Hold(i, b) == held' = [held EXCEPT ![i][b] = @ + 1]

\* A buffer that has the block is shared.
ReadCached(b) ==
  LET i == Lowest(Cached(b))
  IN /\ Cached(b) # {}
     /\ cnt' = [cnt EXCEPT ![i] = @ + 1]
     /\ seen' = <<b, data[i]>>
     /\ Hold(i, b)
     /\ UNCHANGED <<flags, blk, data, disk, hung>>

\* The block is read into the lowest free buffer, on the flags fl and the disk d
\* that the search for a free buffer leaves.
ReadInto(b, fl, d) ==
  LET i == Lowest({j \in Buffers : fl[j] = "FREE"})
  IN /\ flags' = [fl EXCEPT ![i] = "USED"]
     /\ blk' = [blk EXCEPT ![i] = b]
     /\ cnt' = [cnt EXCEPT ![i] = 1]
     /\ data' = [data EXCEPT ![i] = d[b]]
     /\ disk' = d
     /\ seen' = <<b, d[b]>>
     /\ Hold(i, b)
     /\ UNCHANGED hung

\* With no buffer free, bread syncs and looks again; with every buffer held it
\* does so for ever.
bread(b) ==
  /\ ~hung /\ \A i \in Buffers : held[i][b] < MaxHolds
  /\ \/ ReadCached(b)
     \/ /\ Cached(b) = {} /\ \E i \in Buffers : flags[i] = "FREE"
        /\ ReadInto(b, flags, disk)
     \/ /\ Cached(b) = {} /\ \A i \in Buffers : flags[i] # "FREE"
        /\ Dropped # {}
        /\ ReadInto(b, FlagsSynced, Synced)
     \/ /\ Cached(b) = {} /\ \A i \in Buffers : flags[i] # "FREE"
        /\ Dropped = {}
        /\ hung' = TRUE
        /\ UNCHANGED <<flags, blk, cnt, data, disk, held, seen>>

\* A caller gives back the pointer it got for block b.
bfree(i, b) ==
  /\ ~hung /\ held[i][b] > 0
  /\ cnt' = [cnt EXCEPT ![i] = @ - 1]
  /\ held' = [held EXCEPT ![i][b] = @ - 1]
  /\ UNCHANGED <<flags, blk, data, disk, seen, hung>>

\* A caller that holds block b writes it and marks it.
modify(i, b, v) ==
  /\ ~hung /\ held[i][b] > 0
  /\ data' = [data EXCEPT ![i] = v]
  /\ flags' = [flags EXCEPT ![i] = "MODIFIED"]
  /\ UNCHANGED <<blk, cnt, disk, held, seen, hung>>

\* A caller that holds block b writes it and does not mark it.
scribble(i, b, v) ==
  /\ ~hung /\ held[i][b] > 0
  /\ data' = [data EXCEPT ![i] = v]
  /\ UNCHANGED <<flags, blk, cnt, disk, held, seen, hung>>

\* bread turns in its loop.
spin == hung /\ UNCHANGED vars

block_init ==
  /\ flags = [i \in Buffers |-> "FREE"]
  /\ blk \in [Buffers -> Blocks]
  /\ \A i, j \in Buffers : blk[i] = blk[j]
  /\ cnt = [i \in Buffers |-> 0]
  /\ data = [i \in Buffers |-> Blank]

Init ==
  /\ block_init
  /\ disk = [b \in Blocks |-> Blank]
  /\ held = [i \in Buffers |-> [b \in Blocks |-> 0]]
  /\ seen = <<>>
  /\ hung = FALSE

Next ==
  \/ block_sync
  \/ \E b \in Blocks : bread(b)
  \/ \E i \in Buffers, b \in Blocks : bfree(i, b)
  \/ \E i \in Buffers, b \in Blocks, v \in Data : modify(i, b, v) \/ scribble(i, b, v)
  \/ spin

Spec == Init /\ [][Next]_vars

-----------------------------------------------------------------------------
(* Properties                                                              *)

\* The variables keep their types.
CacheTypeOK ==
  /\ flags \in [Buffers -> {"FREE", "USED", "MODIFIED"}]
  /\ blk \in [Buffers -> Blocks]
  /\ cnt \in [Buffers -> Nat]
  /\ data \in [Buffers -> Data]
  /\ disk \in [Blocks -> Data]
  /\ held \in [Buffers -> [Blocks -> 0 .. MaxHolds]]
  /\ hung \in BOOLEAN

\* A pointer bread handed out keeps pointing at the block it was asked for,
\* until its holder gives it back: no sync and no bread of another caller takes
\* the buffer away, however the calls are mixed.
HeldStays ==
  \A i \in Buffers, b \in Blocks : held[i][b] > 0 => flags[i] # "FREE" /\ blk[i] = b

\* No block is in the cache twice: two callers never write different copies.
OneCopy ==
  \A i, j \in Buffers :
    flags[i] # "FREE" /\ flags[j] # "FREE" /\ blk[i] = blk[j] => i = j

\* cnt counts the holders: a buffer block_sync drops has none, and one without
\* holders can be dropped.
CountsHolders ==
  \A i \in Buffers : /\ flags[i] # "FREE" => cnt[i] = held[i][blk[i]]
                     /\ flags[i] = "FREE" => cnt[i] = 0

\* The inductive invariant, the four above together: buffers, flags and counts
\* stay in step through every order of bread, bfree, write and eviction.
CacheInv ==
  CacheTypeOK /\ HeldStays /\ OneCopy /\ CountsHolders

\* What the file system reads in block b.
Content == [b \in Blocks |->
              IF Cached(b) = {} THEN disk[b] ELSE data[Lowest(Cached(b))]]

\* What block b holds once the cache has forgotten it.
Marked(b) == {i \in Buffers : flags[i] = "MODIFIED" /\ blk[i] = b}
Kept == [b \in Blocks |->
           IF Marked(b) = {} THEN disk[b] ELSE data[Lowest(Marked(b))]]

TheDisk == INSTANCE CachedDisk WITH content <- Content, kept <- Kept

\* The cache behaves as the disk of module CachedDisk: every read shows the last
\* write, a marked write outlives every eviction and sync, and an unmarked one is
\* lost as a whole or not at all, never with a marked one made before it.
IsDisk == TheDisk!DSpec

=============================================================================
