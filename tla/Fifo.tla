-------------------------------- MODULE Fifo --------------------------------
(***************************************************************************)
(* What a circular buffer promises its users (the UART receive buffers,    *)
(* the pipes and the pending notifications of the wait queue): a queue of  *)
(* at most Capacity words, first in first out, in which a push into a full *)
(* queue costs the oldest word and a pop of an empty one yields 0.         *)
(***************************************************************************)
EXTENDS Integers, Sequences

CONSTANTS
  Capacity,  \* words the buffer holds
  Words      \* the words pushed

VARIABLES
  queue,     \* the words in the buffer, oldest first
  rval       \* what the last pop returned

fvars == <<queue, rval>>

FInit == queue = <<>> /\ rval = 0

Push(v) ==
  /\ queue' = IF Len(queue) < Capacity THEN Append(queue, v)
              ELSE Append(Tail(queue), v)
  /\ UNCHANGED rval

Pop ==
  IF queue = <<>> THEN rval' = 0 /\ UNCHANGED queue
  ELSE rval' = Head(queue) /\ queue' = Tail(queue)

Clear == queue' = <<>> /\ UNCHANGED rval

FNext == (\E v \in Words : Push(v)) \/ Pop \/ Clear

FSpec == FInit /\ [][FNext]_fvars

=============================================================================
