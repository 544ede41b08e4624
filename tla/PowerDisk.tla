----------------------------- MODULE PowerDisk -----------------------------
(***************************************************************************)
(* What the drives promise across power cycles: the disk of module Disk,   *)
(* with the copy of it that outlives the machine.  An orderly stop keeps   *)
(* everything but one block, which it may tear; without one, the machine   *)
(* comes back to the copy kept by the last orderly stop.                   *)
(***************************************************************************)
EXTENDS Disk

VARIABLE saved   \* what the host keeps of each block while the machine is off

pvars == <<content, seen, saved>>

PInit == DInit /\ saved = content

Use == DNext /\ UNCHANGED saved

\* An orderly stop may tear one block.  That it is the one being written, if any,
\* and none otherwise, this module cannot say; AtaInv says it.
Stop ==
  /\ \E b \in Blocks, torn \in Data : content' = [content EXCEPT ![b] = torn]
  /\ saved' = content'
  /\ UNCHANGED seen

Lose == content' = saved /\ UNCHANGED <<seen, saved>>

PSpec == PInit /\ [][Use \/ Stop \/ Lose]_pvars

=============================================================================
