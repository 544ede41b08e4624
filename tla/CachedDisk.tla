----------------------------- MODULE CachedDisk -----------------------------
(***************************************************************************)
(* What the block cache promises the file system: a disk whose blocks      *)
(* change only when a holder writes them, and whose reads show the last    *)
(* write.  A write made with the flag BLOCK_MODIFIED is kept; one made     *)
(* without it is seen until the cache forgets it, and the block then holds *)
(* again what was last kept.                                               *)
(***************************************************************************)
CONSTANTS
  Blocks,   \* the blocks of the devices, as (device, n)
  Data,     \* what a block can hold
  Blank     \* what every block of a fresh disk holds

VARIABLES
  content,  \* what each block holds, as the file system sees it
  kept,     \* what each block goes back to when the cache forgets it
  seen      \* the block last obtained with bread and what it held

dvars == <<content, kept, seen>>

DInit ==
  /\ content = [b \in Blocks |-> Blank] /\ kept = content
  /\ seen = <<>>

\* The blocks of S go back to what was kept of them.
Forgotten(S) == [b \in Blocks |-> IF b \in S THEN kept[b] ELSE content[b]]

Forget(S) == content' = Forgotten(S) /\ UNCHANGED kept

Get(b, S) == Forget(S) /\ seen' = <<b, Forgotten(S)[b]>>

\* A write with the flag.
Put(b, v) ==
  /\ content' = [content EXCEPT ![b] = v] /\ kept' = [kept EXCEPT ![b] = v]
  /\ UNCHANGED seen

\* A write without it: kept only if the block has the flag from an earlier one.
Poke(b, v) ==
  /\ content' = [content EXCEPT ![b] = v]
  /\ \/ UNCHANGED kept
     \/ kept[b] = content[b] /\ kept' = [kept EXCEPT ![b] = v]
  /\ UNCHANGED seen

DNext ==
  \/ \E S \in SUBSET Blocks : (Forget(S) /\ UNCHANGED seen) \/ \E b \in Blocks : Get(b, S)
  \/ \E b \in Blocks, v \in Data : Put(b, v) \/ Poke(b, v)

DSpec == DInit /\ [][DNext]_dvars

=============================================================================
