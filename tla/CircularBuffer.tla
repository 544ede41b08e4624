--------------------------- MODULE CircularBuffer ---------------------------
(***************************************************************************)
(* struct circular_buffer (cb.c).  Every caller runs with interrupts off,  *)
(* so a call is one step.                                                  *)
(***************************************************************************)
EXTENDS Integers, Sequences

CONSTANTS
  Capacity,  \* cb->capacity: 200, 256 and 500 in the kernel
  Words      \* the words pushed

ASSUME BufferAssumption == Capacity \in Nat \ {0} /\ Words \subseteq Nat

VARIABLES
  data,      \* cb->data
  r, w,      \* cb->r, cb->w: where the next pop reads and the next push writes
  size,      \* cb->size
  rval       \* what the last cb_pop returned

cbVars == <<data, r, w, size, rval>>

Cells == 0 .. Capacity - 1

\* cb_create_static leaves data as the arena was: zeroes, for a static array.
cb_create_static ==
  /\ data = [c \in Cells |-> 0]
  /\ r = 0 /\ w = 0 /\ size = 0 /\ rval = 0

\* The cell behind i.
NextCell(i) == IF i + 1 >= Capacity THEN 0 ELSE i + 1

cb_pop ==
  IF size # 0
  THEN /\ rval' = data[r]
       /\ r' = NextCell(r)
       /\ size' = size - 1
       /\ UNCHANGED <<data, w>>
  ELSE rval' = 0 /\ UNCHANGED <<data, r, w, size>>

\* Mutant: a push into a full buffer leaves the read index where it was.
PushKeepsRead(v) ==
  /\ data' = [data EXCEPT ![w] = v]
  /\ w' = NextCell(w)
  /\ size' = IF size < Capacity THEN size + 1 ELSE size
  /\ UNCHANGED <<r, rval>>

cb_push(v) ==
  /\ data' = [data EXCEPT ![w] = v]
  /\ w' = NextCell(w)
  /\ IF size < Capacity THEN size' = size + 1 /\ UNCHANGED r
     ELSE r' = NextCell(w) /\ UNCHANGED size
  /\ UNCHANGED rval

cb_clear ==
  /\ r' = 0 /\ w' = 0 /\ size' = 0
  /\ UNCHANGED <<data, rval>>

cbNext == (\E v \in Words : cb_push(v)) \/ cb_pop \/ cb_clear
cbSpec == cb_create_static /\ [][cbNext]_cbVars

-----------------------------------------------------------------------------
\* The cell i places behind the read index.
Cell(i) == IF r + i >= Capacity THEN r + i - Capacity ELSE r + i

\* The indexes stay inside the arena, whatever the sequence of calls, and the
\* write index is size cells ahead of the read index: the three fields of the
\* buffer never disagree, in particular not when it is full and r = w.
BufferInv ==
  /\ data \in [Cells -> Words \cup {0}]
  /\ r \in Cells /\ size \in 0 .. Capacity
  /\ w = Cell(size)
  /\ rval \in Words \cup {0}

\* The words a caller still has to pop, oldest first.
Contents == [i \in 1 .. size |-> data[Cell(i - 1)]]

Queue == INSTANCE Fifo WITH queue <- Contents

\* The buffer behaves as the queue of module Fifo.
IsFifo == Queue!FSpec

=============================================================================
