------------------------------- MODULE WaitQ -------------------------------
(***************************************************************************)
(* The entries of the wait queue (waitq.c).                                *)
(***************************************************************************)
EXTENDS Integers, FirstFit

CONSTANT
  WAITQ_LENGTH   \* 15 in waitq.h

Entries == 0 .. WAITQ_LENGTH - 1

\* pid 0 never waits: NoEntry is an entry of type NONE.
NoEntry == [pid |-> 0]
Waiting(wq, i) == wq[i] # NoEntry
FreeEntries(wq) == {i \in Entries : ~Waiting(wq, i)}

waitq_init == [i \in Entries |-> NoEntry]
waitqAddEntry(wq, entry) == [wq EXCEPT ![Lowest(FreeEntries(wq))] = entry]

FewerOf(a, b) == IF a < b THEN a ELSE b

=============================================================================
