-------------------------------- MODULE Disk --------------------------------
(***************************************************************************)
(* What the block cache promises the file system: a disk whose blocks      *)
(* change only when a holder of the block writes it, and whose every read  *)
(* shows the last write.                                                   *)
(***************************************************************************)
CONSTANTS
  Blocks,   \* the blocks of the devices, as (device, n)
  Data,     \* what a block can hold
  Blank     \* what every block of a fresh disk holds

VARIABLES
  content,  \* what each block holds, as the file system sees it
  seen      \* the block last obtained with bread and what it held

dvars == <<content, seen>>

DInit == content = [b \in Blocks |-> Blank] /\ seen = <<>>

Get(b) == seen' = <<b, content[b]>> /\ UNCHANGED content
Put(b, v) == content' = [content EXCEPT ![b] = v] /\ UNCHANGED seen

DNext == \E b \in Blocks : Get(b) \/ \E v \in Data : Put(b, v)

DSpec == DInit /\ [][DNext]_dvars

=============================================================================
