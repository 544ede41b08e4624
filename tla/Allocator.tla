----------------------------- MODULE Allocator -----------------------------
(***************************************************************************)
(* What malloc and free promise a program: a block that is handed out lies *)
(* in the heap, is as long as was asked for, and shares no word with any   *)
(* other block in use.  The promise ends for good with a realloc that has  *)
(* no memory to move its block to.                                         *)
(***************************************************************************)
EXTENDS Integers

CONSTANTS
  BEGIN, END,  \* the heap: addresses BEGIN .. END - 1
  Pointers,    \* the variables of the program that hold pointers
  Requests     \* the sizes it asks for

VARIABLES
  blocks,      \* the block each pointer points to
  ended        \* a realloc found no memory

avars == <<blocks, ended>>

Null == [at |-> 0, len |-> 0]

Words(b) == b.at .. b.at + b.len - 1
InUse(p) == blocks[p] # Null

\* A block that p may be given while the others keep theirs.
Grantable(p, b) ==
  /\ Words(b) \subseteq BEGIN .. END - 1
  /\ \A q \in Pointers \ {p} : InUse(q) => Words(b) \cap Words(blocks[q]) = {}

Alloc(p) ==
  /\ ~InUse(p)
  /\ \E at \in BEGIN .. END, len \in Requests :
       /\ Grantable(p, [at |-> at, len |-> len])
       /\ blocks' = [blocks EXCEPT ![p] = [at |-> at, len |-> len]]

Release(p) == InUse(p) /\ blocks' = [blocks EXCEPT ![p] = Null]

\* realloc moves a block.
Move(p) ==
  /\ InUse(p)
  /\ \E at \in BEGIN .. END, len \in Requests :
       /\ Grantable(p, [at |-> at, len |-> len])
       /\ blocks' = [blocks EXCEPT ![p] = [at |-> at, len |-> len]]

Break(p) == InUse(p) /\ ended' = TRUE /\ UNCHANGED blocks

Init == blocks = [p \in Pointers |-> Null] /\ ended = FALSE
Next ==
  /\ ~ended
  /\ \E p \in Pointers : \/ (Alloc(p) \/ Release(p) \/ Move(p)) /\ UNCHANGED ended
                         \/ Break(p)

Spec == Init /\ [][Next]_avars

=============================================================================
