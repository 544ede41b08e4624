------------------------------- MODULE Malloc -------------------------------
(***************************************************************************)
(* The allocator of the C library (malloc.c): a list of markers, each at   *)
(* the start of its block, that covers the heap.  malloc takes the first   *)
(* free block, splitting it, and free joins a block with its neighbours.   *)
(* One thread; addresses and sizes count words.                            *)
(***************************************************************************)
EXTENDS Integers, FiniteSets, FirstFit

CONSTANTS
  BEGIN, END,  \* what malloc_init is called with
  HDR,         \* sizeof(Marker_t), 4
  SIZE_RANGE,  \* number of values of a size_t (2^16)
  Pointers,    \* the variables of the program that hold pointers
  Requests,    \* the sizes it asks for
  Abuses       \* what else it does: see below

\* tight: go on while a block that fitted closely is in use.  grow: realloc to
\* more than the block has.
ASSUME MallocAssumption ==
  /\ HDR \in Nat \ {0} /\ BEGIN \in Nat \ {0} /\ END \in Nat
  /\ BEGIN + HDR < END /\ END + 2 * HDR < SIZE_RANGE /\ SIZE_RANGE \in Nat
  /\ Requests \subseteq Nat \ {0} /\ \A sz \in Requests : sz + 2 * HDR < SIZE_RANGE
  /\ Abuses \subseteq {"tight", "grow"}

VARIABLES
  marker,  \* the markers of the list, by address
  ptr,     \* the block each pointer of the program points to
  ruined   \* a realloc copied its block to NULL

vars == <<marker, ptr, ruined>>

Null == [at |-> 0, len |-> 0]
InUse(p) == ptr[p] # Null

\* The marker of a block.
MarkerOf(b) == b.at - HDR

malloc_init ==
  [a \in {BEGIN} |-> [next |-> 0, prev |-> 0, size |-> END - BEGIN, free |-> TRUE]]

-----------------------------------------------------------------------------
(* The list                                                                *)

\* The list is in the order of the addresses (ListCoversHeap), so this is where
\* a walk from the head first meets a free block.
FreeBlocks(m) == {a \in DOMAIN m : m[a].free}
FirstFree(m) == Lowest(FreeBlocks(m))

\* Mutant: the block behind the new marker keeps its back pointer.
splitOneWay(m, a, sz) ==
  LET n == a + sz + HDR
  IN [b \in DOMAIN m \cup {n} |->
        IF b = a THEN [m[a] EXCEPT !.next = n, !.size = sz + HDR, !.free = FALSE]
        ELSE IF b = n THEN [next |-> m[a].next, prev |-> a,
                            size |-> m[a].size - sz - HDR, free |-> TRUE]
        ELSE m[b]]

\* Mutant: the new marker lies on the last words of the block handed out.
splitInside(m, a, sz) ==
  LET n == a + sz
  IN [b \in DOMAIN m \cup {n} |->
        IF b = a THEN [m[a] EXCEPT !.next = n, !.size = sz, !.free = FALSE]
        ELSE IF b = n THEN [next |-> m[a].next, prev |-> a,
                            size |-> m[a].size - sz, free |-> TRUE]
        ELSE IF b = m[a].next THEN [m[b] EXCEPT !.prev = n]
        ELSE m[b]]

\* The list with block a cut to sz words of data and a new free block behind it.
Split(m, a, sz) ==
  LET n == a + sz + HDR
  IN [b \in DOMAIN m \cup {n} |->
        IF b = a THEN [m[a] EXCEPT !.next = n, !.size = sz + HDR, !.free = FALSE]
        ELSE IF b = n THEN [next |-> m[a].next, prev |-> a,
                            size |-> m[a].size - sz - HDR, free |-> TRUE]
        ELSE IF b = m[a].next THEN [m[b] EXCEPT !.prev = n]
        ELSE m[b]]

\* The list with block a and the one behind it made one.
Join(m, a) ==
  LET n == m[a].next
  IN [b \in DOMAIN m \ {n} |->
        IF b = a THEN [m[a] EXCEPT !.size = @ + m[n].size, !.next = m[n].next]
        ELSE IF b = m[n].next THEN [m[b] EXCEPT !.prev = a]
        ELSE m[b]]

\* Mutant: a close fit need not have room for the marker.
takenOverEnd(m, sz) ==
  LET a == FirstFree(m)
  IN IF FreeBlocks(m) = {} THEN [m |-> m, at |-> 0]
     ELSE IF m[a].size > sz + 2 * HDR THEN [m |-> Split(m, a, sz), at |-> a + HDR]
     ELSE IF m[a].size >= sz THEN [m |-> m, at |-> a + HDR]
     ELSE [m |-> m, at |-> 0]

\* What malloc returns (0 for NULL) and the list it leaves.  A block that is not
\* worth splitting is handed out and stays marked free; a first free block that
\* is too small ends the search.
Taken(m, sz) ==
  LET a == FirstFree(m)
  IN IF FreeBlocks(m) = {} THEN [m |-> m, at |-> 0]
     ELSE IF m[a].size > sz + 2 * HDR THEN [m |-> Split(m, a, sz), at |-> a + HDR]
     ELSE IF m[a].size >= sz + HDR THEN [m |-> m, at |-> a + HDR]
     ELSE [m |-> m, at |-> 0]

\* Mutant: a block is not joined with the one before it.
freedForward(m, a) ==
  LET x == [m EXCEPT ![a].free = TRUE]
  IN IF x[a].next # 0 /\ x[x[a].next].free THEN Join(x, a) ELSE x

\* The list after block a was freed: joined with the block behind it if that is
\* free, then with the one before it.
Freed(m, a) ==
  LET x == [m EXCEPT ![a].free = TRUE]
      y == IF x[a].next # 0 /\ x[x[a].next].free THEN Join(x, a) ELSE x
  IN IF y[a].prev # 0 /\ y[y[a].prev].free THEN Join(y, y[a].prev) ELSE y

-----------------------------------------------------------------------------
(* The calls                                                               *)

\* The pointers to blocks that are marked free though they are in use.
Tight == {p \in Pointers : InUse(p) /\ marker[MarkerOf(ptr[p])].free}
Usable(p) == Tight \subseteq {p} \/ "tight" \in Abuses

malloc(p, sz) ==
  /\ ~InUse(p) /\ Usable(p)
  /\ \E r \in {Taken(marker, sz)} :
       /\ marker' = r.m
       /\ ptr' = IF r.at = 0 THEN ptr ELSE [ptr EXCEPT ![p] = [at |-> r.at, len |-> sz]]
  /\ UNCHANGED ruined

free(p) ==
  /\ InUse(p) /\ Usable(p)
  /\ marker' = Freed(marker, MarkerOf(ptr[p]))
  /\ ptr' = [ptr EXCEPT ![p] = Null]
  /\ UNCHANGED ruined

\* The size asked for is replaced by the size of the old block, marker included:
\* that is what is asked of malloc, for a smaller size too.
OldSize(p) == marker[MarkerOf(ptr[p])].size
Reallocs(p, size) ==
  InUse(p) /\ Usable(p) /\ Tight = {} /\ (size <= OldSize(p) \/ "grow" \in Abuses)

realloc(p, size) ==
  /\ Reallocs(p, size)
  /\ \E r \in {Taken(marker, OldSize(p))} :
       /\ r.at # 0
       /\ r.m[r.at - HDR].free => "tight" \in Abuses
       /\ marker' = Freed(r.m, MarkerOf(ptr[p]))
       /\ ptr' = [ptr EXCEPT ![p] = [at |-> r.at, len |-> size]]
  /\ UNCHANGED ruined

\* With no memory left realloc copies the block to NULL: over the first words of
\* the program's data, malloc_head and perhaps markers among them.  What it and
\* later calls then do is not modelled.
reallocToNull(p, size) ==
  /\ Reallocs(p, size) /\ Taken(marker, OldSize(p)).at = 0
  /\ ruined' = TRUE
  /\ UNCHANGED <<marker, ptr>>

Init == marker = malloc_init /\ ptr = [p \in Pointers |-> Null] /\ ruined = FALSE

Calls ==
  \E p \in Pointers :
    \/ free(p)
    \/ \E sz \in Requests : malloc(p, sz) \/ realloc(p, sz) \/ reallocToNull(p, sz)

Next == (~ruined /\ Calls) \/ (ruined /\ UNCHANGED vars)

Spec == Init /\ [][Next]_vars

-----------------------------------------------------------------------------
(* Properties                                                              *)

Markers == [next : Nat, prev : Nat, size : Nat \ {0}, free : BOOLEAN]

\* Each block of the list ends where the next one begins, the last one at the
\* heap's end; the pointers back agree; and no block reaches into another.
Chained(m) ==
  /\ BEGIN \in DOMAIN m /\ m[BEGIN].prev = 0
  /\ \A a \in DOMAIN m :
       /\ IF m[a].next = 0 THEN a + m[a].size = END
          ELSE m[a].next = a + m[a].size /\ m[a].next \in DOMAIN m
       /\ a # BEGIN => m[a].prev \in DOMAIN m /\ m[m[a].prev].next = a
       /\ \A b \in DOMAIN m : a < b => a + m[a].size <= b

\* Until a realloc finds no memory, the list covers the heap from end to end.
ListCoversHeap ==
  ~ruined =>
    /\ DOMAIN marker \subseteq BEGIN .. END - 1
    /\ marker \in [DOMAIN marker -> Markers]
    /\ Chained(marker)

\* Until a realloc finds no memory, every block in use is a block of the list with
\* room for what was asked, and no two pointers share one: nothing the program
\* writes through a pointer reaches a marker or another block.
BlocksInUse ==
  ~ruined =>
    /\ ptr \in [Pointers -> [at : Nat, len : Nat]]
    /\ \A p \in Pointers : InUse(p) =>
         /\ MarkerOf(ptr[p]) \in DOMAIN marker
         /\ ptr[p].len \in Requests
         /\ ptr[p].len + HDR <= marker[MarkerOf(ptr[p])].size
    /\ \A p, q \in Pointers : InUse(p) /\ ptr[p].at = ptr[q].at => p = q

\* Until a realloc finds no memory, free blocks never lie side by side, and a block
\* that is not free is in use: what was freed can be handed out again as one piece.
Coalesced ==
  ~ruined =>
    /\ \A a \in FreeBlocks(marker) : marker[a].next # 0 => ~marker[marker[a].next].free
    /\ \A a \in DOMAIN marker \ FreeBlocks(marker) :
         \E p \in Pointers : InUse(p) /\ MarkerOf(ptr[p]) = a

Heap == INSTANCE Allocator WITH blocks <- ptr, ended <- ruined

\* The list of markers implements the promise of malloc and free, which a realloc
\* without memory ends.
IsAllocator == Heap!Spec

=============================================================================
