---------------------------- MODULE PrivateMemory ----------------------------
(***************************************************************************)
(* What the memory manager promises programs: each address space has its   *)
(* own contents.  fork gives the child what the parent has at that moment, *)
(* a store changes the space of the program that makes it and no other,    *)
(* execve replaces the whole space and exit ends it.                       *)
(***************************************************************************)
CONSTANTS
  Spaces,   \* the address spaces
  Kernel,   \* the kernel's own, which init is first made from
  Entries,  \* the places of a space, page by page
  Values,   \* what a page can hold
  Nothing   \* what an unmapped place holds

VARIABLES
  live,     \* the spaces in use
  content   \* what each space holds

pvars == <<live, content>>

Images == [Entries -> Values \cup {Nothing}]
Empty == [e \in Entries |-> Nothing]

PInit ==
  /\ live = {Kernel}
  /\ content \in [Spaces -> Images]
  /\ \A s \in Spaces \ {Kernel} : content[s] = Empty

\* Nothing but the spaces of S changes.
Only(S) ==
  /\ content' \in [Spaces -> Images]
  /\ \A s \in Spaces \ S : content'[s] = content[s]

\* Some places of space s, or none, take one new value.
Written(s) ==
  \E v \in Values : \A e \in Entries : content'[s][e] \in {content[s][e], v}

\* The first process starts as a copy of a part of the kernel.
Boot(n) ==
  /\ live = {Kernel} /\ n \notin live
  /\ live' = live \cup {n} /\ Only({n})
  /\ \A e \in Entries : content'[n][e] \in {content[Kernel][e], Nothing}

\* The child gets what the parent has; the parent then gets its return value.
Fork(p, n) ==
  /\ p \in live /\ n \notin live
  /\ live' = live \cup {n} /\ Only({p, n})
  /\ content'[n] = content[p] /\ Written(p)

Store(s) == s \in live /\ UNCHANGED live /\ Only({s}) /\ Written(s)

Exec(s) == s \in live /\ UNCHANGED live /\ Only({s})

Exit(s) == s \in live /\ live' = live \ {s} /\ Only({s}) /\ content'[s] = Empty

PNext ==
  \E s \in Spaces \ {Kernel} :
    \/ Boot(s) \/ Store(s) \/ Exec(s) \/ Exit(s)
    \/ \E n \in Spaces \ {Kernel} : Fork(s, n)

PSpec == PInit /\ [][PNext]_pvars

=============================================================================
