---------------------------- MODULE MemoryProofs ----------------------------
(***************************************************************************)
(* Theorems about Memory, for every number of processes, pages and         *)
(* entries: counts, flags and tables stay in step, and the pages implement *)
(* the private memories of PrivateMemory.                                  *)
(*                                                                         *)
(* The operations of mm.c work on records, so the proof first says what    *)
(* each does to a sound record, to the entries that are mapped and to what *)
(* is seen through them; an action is then one or two operations.          *)
(***************************************************************************)
EXTENDS Memory, FirstFitProofs

-----------------------------------------------------------------------------
(* Sound records                                                           *)

Programs == Spaces \ {Kernel}
Memories ==
  [pageMap : [Pages -> Nat], table : [Spaces -> [Entries -> Pages \cup {FREE_PAGE_MARK}]],
   readOnly : [Spaces -> SUBSET Entries], mem : [Pages -> Values]]

\* The entries of a table that map a page, and the users of a page.
Mapped(tab) == {e \in Entries : tab[e] # FREE_PAGE_MARK}
UsersIn(m, p) == {u \in Programs \X Entries : m.table[u[1]][u[2]] = p}

\* No entry is mapped behind a free one.
Closed(tab) == \A e \in Mapped(tab) : \A j \in 0 .. e[2] : tab[<<e[1], j>>] # FREE_PAGE_MARK

\* The parts of the invariant that speak of a record.
Counted(m) ==
  \A p \in Pages : IF p \in KernelPages THEN m.pageMap[p] = 1 /\ UsersIn(m, p) = {}
                   ELSE m.pageMap[p] = Cardinality(UsersIn(m, p))
Guarded(m) ==
  \A p \in Pages : \A u, w \in UsersIn(m, p) : u # w => u[2] \in m.readOnly[u[1]]
Shaped(m) ==
  \A s \in Programs : Closed(m.table[s]) /\ m.readOnly[s] \subseteq Mapped(m.table[s])
Rooted(m) == m.table[Kernel] = KernelTable /\ m.readOnly[Kernel] = {}
Sound(m) == m \in Memories /\ Counted(m) /\ Guarded(m) /\ Shaped(m) /\ Rooted(m)

\* What is seen through an entry, and the contents of all spaces.
View(m, s, e) ==
  IF m.table[s][e] = FREE_PAGE_MARK THEN Nothing ELSE m.mem[m.table[s][e]]
ViewAll(m) == [s \in Spaces |-> [e \in Entries |-> View(m, s, e)]]

\* The first a entries of the code and the first b of the data segment, and the
\* place of each when they are taken in this order.
Block(a, b) == {e \in Entries : e[2] < IF e[1] = 1 THEN a ELSE b}
Position(a, e) == IF e[1] = 1 THEN e[2] ELSE a + e[2]

-----------------------------------------------------------------------------
(* Constants                                                               *)

\* What the assumption says of the constants, but for the size of pageMap.
LEMMA Constants ==
  /\ NCODE_PAGES \in Nat /\ NDATA_PAGES \in Nat \ {0}
  /\ KERNEL_PAGES \in Nat /\ WINDOW \in Nat
  /\ WINDOW <= KERNEL_PAGES /\ WINDOW <= NDATA_PAGES
  /\ pageMapSize \in Nat /\ KERNEL_PAGES <= pageMapSize
  /\ Values # {} /\ Nothing \notin Values
  /\ MAXPROC \in Nat /\ MAXPROC >= 2 /\ Kernel \in Spaces
<1> DEFINE P == (MAXPROC - 1) * (NCODE_PAGES + NDATA_PAGES)
<1>1. MAXPROC - 1 \in Nat /\ NCODE_PAGES + NDATA_PAGES \in Nat
  BY MemoryAssumption
<1>2. P \in Nat
  BY <1>1
<1>3. pageMapSize >= KERNEL_PAGES + P
  BY MemoryAssumption
<1> HIDE DEF P
<1>4. /\ NCODE_PAGES \in Nat /\ NDATA_PAGES \in Nat \ {0}
      /\ KERNEL_PAGES \in Nat /\ WINDOW \in Nat
      /\ WINDOW <= KERNEL_PAGES /\ WINDOW <= NDATA_PAGES
      /\ pageMapSize \in Nat
      /\ Values # {} /\ Nothing \notin Values /\ MAXPROC \in Nat \ {0, 1}
  BY MemoryAssumption
<1> QED
  BY <1>2, <1>3, <1>4 DEF Kernel, Spaces

\* An array of n elements has n indexes.
LEMMA IndexesBelow ==
  ASSUME NEW n \in Nat
  PROVE  IsFiniteSet(0 .. n - 1) /\ Cardinality(0 .. n - 1) = n
<1>1. n - 1 \in Int /\ (0 > n - 1 <=> n = 0)
  OBVIOUS
<1>2. /\ IsFiniteSet(0 .. n - 1)
      /\ Cardinality(0 .. n - 1) = IF 0 > n - 1 THEN 0 ELSE (n - 1) - 0 + 1
  BY <1>1, FS_Interval
<1> QED
  BY <1>1, <1>2

\* Entries are pairs within the limits of their segments.
LEMMA EntryIs ==
  ASSUME NEW e \in Entries
  PROVE  /\ e = <<e[1], e[2]>> /\ e[1] \in {0, 1} /\ e[2] \in Nat
         /\ e[2] < Limit(e[1]) /\ Limit(e[1]) \in Nat
         /\ \A j \in 0 .. e[2] : <<e[1], j>> \in Entries
  BY Constants DEF Entries, Limit

\* A free entry is no page.
LEMMA FreeIsNoPage == FREE_PAGE_MARK \notin Pages /\ Pages \subseteq Nat
  BY Constants DEF FREE_PAGE_MARK, Pages

\* The entries and the pages are finite; entries are enough for their segments.
LEMMA Finite ==
  /\ IsFiniteSet(Entries) /\ Cardinality(Entries) = NCODE_PAGES + NDATA_PAGES
  /\ IsFiniteSet(Pages) /\ Cardinality(Pages) = pageMapSize
  /\ IsFiniteSet(KernelPages) /\ Cardinality(KernelPages) = KERNEL_PAGES
  /\ KernelPages \subseteq Pages
  /\ IsFiniteSet(Programs) /\ Cardinality(Programs) = MAXPROC - 1
<1>1. \A n \in Nat : IsFiniteSet(0 .. n - 1) /\ Cardinality(0 .. n - 1) = n
  BY IndexesBelow
<1> DEFINE C == {1} \X (0 .. NCODE_PAGES - 1)
           D == {0} \X (0 .. NDATA_PAGES - 1)
<1>2. \A x : \A n \in Nat : /\ IsFiniteSet({x} \X (0 .. n - 1))
                            /\ Cardinality({x} \X (0 .. n - 1)) = n
  <2> SUFFICES ASSUME NEW x, NEW n \in Nat
               PROVE  /\ IsFiniteSet({x} \X (0 .. n - 1))
                      /\ Cardinality({x} \X (0 .. n - 1)) = n
    OBVIOUS
  <2>1. IsFiniteSet({x}) /\ Cardinality({x}) = 1
    BY FS_Singleton
  <2>2. /\ IsFiniteSet({x} \X (0 .. n - 1))
        /\ Cardinality({x} \X (0 .. n - 1)) = Cardinality({x}) * Cardinality(0 .. n - 1)
    BY <1>1, <2>1, FS_Product
  <2> QED
    BY <1>1, <2>1, <2>2
<1>3. IsFiniteSet(C) /\ Cardinality(C) = NCODE_PAGES
  BY <1>2, Constants
<1>4. IsFiniteSet(D) /\ Cardinality(D) = NDATA_PAGES
  BY <1>2, Constants
<1>5. C \cap D = {} /\ Entries = C \cup D
  BY DEF Entries
<1> HIDE DEF C, D
<1>6. IsFiniteSet(Entries) /\ Cardinality(Entries) = NCODE_PAGES + NDATA_PAGES
  <2>1. Cardinality(C \cap D) = 0
    BY <1>5, FS_EmptySet
  <2>2. /\ IsFiniteSet(C \cup D)
        /\ Cardinality(C \cup D) = Cardinality(C) + Cardinality(D) - Cardinality(C \cap D)
    BY <1>3, <1>4, FS_Union
  <2> QED
    BY <1>3, <1>4, <1>5, <2>1, <2>2, Constants
<1>7. IsFiniteSet(Spaces) /\ Cardinality(Spaces) = MAXPROC
  BY <1>1, Constants DEF Spaces
<1>8. IsFiniteSet(Programs) /\ Cardinality(Programs) = MAXPROC - 1
  BY <1>7, Constants, FS_RemoveElement DEF Programs
<1>9. KernelPages \subseteq Pages
  BY Constants DEF KernelPages, Pages
<1> QED
  BY <1>1, <1>6, <1>8, <1>9, Constants DEF Pages, KernelPages

-----------------------------------------------------------------------------
(* Loops over a segment                                                    *)

\* A set that has with each index all that come before it has the indexes up to
\* its size.
LEMMA InitialSegment ==
  ASSUME NEW L \in Nat, NEW D \in SUBSET (0 .. L - 1),
         \A i \in D : \A j \in 0 .. i : j \in D
  PROVE  /\ Cardinality(D) \in 0 .. L
         /\ \A i \in 0 .. L - 1 : i \in D <=> i < Cardinality(D)
<1>1. \A n \in Nat : IsFiniteSet(0 .. n - 1) /\ Cardinality(0 .. n - 1) = n
  BY IndexesBelow
<1>2. IsFiniteSet(D) /\ Cardinality(D) \in Nat /\ Cardinality(D) <= L
  <2>1. IsFiniteSet(D) /\ Cardinality(D) <= Cardinality(0 .. L - 1)
    BY <1>1, FS_Subset
  <2> QED
    BY <1>1, <2>1, FS_CardinalityType
<1>3. ASSUME NEW i \in D PROVE i < Cardinality(D)
  <2>1. i \in Nat /\ i + 1 \in Nat /\ (i + 1) - 1 = i
    OBVIOUS
  <2>2. Cardinality(0 .. i) = i + 1
    BY <1>1, <2>1
  <2>3. 0 .. i \in SUBSET D
    BY <1>3
  <2>4. Cardinality(0 .. i) <= Cardinality(D)
    BY <1>2, <2>3, FS_Subset
  <2> QED
    BY <1>2, <2>1, <2>2, <2>4
<1>4. ASSUME NEW i \in 0 .. L - 1, i \notin D PROVE Cardinality(D) <= i
  <2>1. D \in SUBSET (0 .. i - 1)
    <3>1. \A k \in D : k >= i => i \in 0 .. k
      OBVIOUS
    <3>2. \A k \in D : k < i
      BY <1>4, <3>1
    <3> QED
      BY <3>2
  <2>2. IsFiniteSet(0 .. i - 1) /\ Cardinality(0 .. i - 1) = i
    BY <1>1
  <2>3. Cardinality(D) <= Cardinality(0 .. i - 1)
    BY <2>1, <2>2, FS_Subset
  <2> QED
    BY <2>2, <2>3
<1> QED
  BY <1>2, <1>3, <1>4

\* A loop over a segment stops at its first free entry.
LEMMA SegmentIs ==
  ASSUME NEW tab, NEW c \in {0, 1}
  PROVE  /\ SegmentSize(tab, c) \in 0 .. Limit(c)
         /\ \A i \in 0 .. Limit(c) - 1 :
              i < SegmentSize(tab, c) <=> \A j \in 0 .. i : tab[<<c, j>>] # FREE_PAGE_MARK
<1> DEFINE D == {i \in 0 .. Limit(c) - 1 : \A j \in 0 .. i : tab[<<c, j>>] # FREE_PAGE_MARK}
<1>1. Limit(c) \in Nat
  BY Constants DEF Limit
<1>2. D \in SUBSET (0 .. Limit(c) - 1) /\ \A i \in D : \A j \in 0 .. i : j \in D
  <2> SUFFICES ASSUME NEW i \in D, NEW j \in 0 .. i PROVE j \in D
    OBVIOUS
  <2>1. j \in 0 .. Limit(c) - 1 /\ \A k \in 0 .. j : k \in 0 .. i
    BY <1>1
  <2> QED
    BY <2>1
<1>3. SegmentSize(tab, c) = Cardinality(D)
  BY DEF SegmentSize
<1>4. \A i \in 0 .. Limit(c) - 1 :
        i \in D <=> \A j \in 0 .. i : tab[<<c, j>>] # FREE_PAGE_MARK
  OBVIOUS
<1> HIDE DEF D
<1> QED
  BY <1>1, <1>2, <1>3, <1>4, InitialSegment

\* What the loops over a table see, and that they see all of it when it is closed.
LEMMA SeenIs ==
  ASSUME NEW tab
  PROVE  /\ Seen(tab) \subseteq Mapped(tab)
         /\ (\A e \in Entries : tab[e] # FREE_PAGE_MARK => e \in Seen(tab)) <=> Closed(tab)
         /\ Closed(tab) => Seen(tab) = Mapped(tab)
<1>1. ASSUME NEW e \in Entries
      PROVE  e \in Seen(tab) <=> \A j \in 0 .. e[2] : tab[<<e[1], j>>] # FREE_PAGE_MARK
  <2>1. e[1] \in {0, 1} /\ e[2] \in 0 .. Limit(e[1]) - 1
    BY EntryIs
  <2>2. e \in Seen(tab) <=> e[2] < SegmentSize(tab, e[1])
    BY DEF Seen
  <2> QED
    BY <2>1, <2>2, SegmentIs
<1>2. \A e \in Entries : e = <<e[1], e[2]>> /\ e[2] \in 0 .. e[2]
  BY EntryIs
<1>3. Seen(tab) \subseteq Entries
  BY DEF Seen
<1> QED
  BY <1>1, <1>2, <1>3 DEF Mapped, Closed

\* The entries seen are a block, visited in the order of their positions.
LEMMA SeenIsBlock ==
  ASSUME NEW tab
  PROVE  /\ SegmentSize(tab, 1) \in 0 .. NCODE_PAGES
         /\ SegmentSize(tab, 0) \in 0 .. NDATA_PAGES
         /\ Seen(tab) = Block(SegmentSize(tab, 1), SegmentSize(tab, 0))
         /\ \A e \in Entries : Before(tab, e) = Position(SegmentSize(tab, 1), e)
<1>1. \A c \in {0, 1} : SegmentSize(tab, c) \in 0 .. Limit(c)
  BY SegmentIs
<1>2. \A e \in Entries : e[1] \in {0, 1}
  BY EntryIs
<1> QED
  BY <1>1, <1>2 DEF Limit, Seen, Block, Before, Position

\* A block is closed, and has as many entries as its two parts.
LEMMA BlockSize ==
  ASSUME NEW a \in 0 .. NCODE_PAGES, NEW b \in 0 .. NDATA_PAGES
  PROVE  /\ IsFiniteSet(Block(a, b)) /\ Cardinality(Block(a, b)) = a + b
         /\ \A e \in Block(a, b) : Position(a, e) \in 0 .. (a + b) - 1
         /\ \A e, f \in Block(a, b) : Position(a, e) = Position(a, f) => e = f
<1> DEFINE N == a + b
           pos == [e \in Block(a, b) |-> Position(a, e)]
<1>0. a \in Nat /\ b \in Nat /\ N \in Nat /\ a <= NCODE_PAGES /\ b <= NDATA_PAGES
  BY Constants
<1>1. \A e \in Block(a, b) : Position(a, e) \in 0 .. N - 1
  BY <1>0, EntryIs DEF Block, Position
<1>2. \A e, f \in Block(a, b) : Position(a, e) = Position(a, f) => e = f
  <2> SUFFICES ASSUME NEW e \in Block(a, b), NEW f \in Block(a, b),
                      Position(a, e) = Position(a, f)
               PROVE  e = f
    OBVIOUS
  <2>1. e \in Entries /\ f \in Entries
    BY DEF Block
  <2>2. e[1] = f[1] /\ e[2] = f[2]
    BY <1>0, <2>1, EntryIs DEF Block, Position
  <2> QED
    BY <2>1, <2>2, EntryIs
<1>3. \A k \in 0 .. N - 1 : \E e \in Block(a, b) : Position(a, e) = k
  <2> SUFFICES ASSUME NEW k \in 0 .. N - 1
               PROVE  \E e \in Block(a, b) : Position(a, e) = k
    OBVIOUS
  <2>1. CASE k < a
    <3>1. k \in 0 .. NCODE_PAGES - 1
      BY <1>0, <2>1, Constants
    <3>2. <<1, k>> \in Entries
      BY <3>1 DEF Entries
    <3> QED
      BY <2>1, <3>2 DEF Block, Position
  <2>2. CASE k >= a
    <3>1. k - a \in 0 .. NDATA_PAGES - 1 /\ k - a < b /\ a + (k - a) = k
      BY <1>0, <2>2, Constants
    <3>2. <<0, k - a>> \in Entries
      BY <3>1 DEF Entries
    <3> QED
      BY <3>1, <3>2 DEF Block, Position
  <2> QED
    BY <1>0, <2>1, <2>2
<1>4. pos \in Bijection(Block(a, b), 0 .. N - 1)
  BY <1>1, <1>2, <1>3 DEF Bijection, Injection, Surjection, IsInjective
<1>5. IsFiniteSet(0 .. N - 1) /\ Cardinality(0 .. N - 1) = N
  BY <1>0, IndexesBelow
<1>6. IsFiniteSet(Block(a, b)) /\ Cardinality(Block(a, b)) = N
  <2>1. pos \in Injection(Block(a, b), 0 .. N - 1) /\ pos \in Surjection(Block(a, b), 0 .. N - 1)
    BY <1>4 DEF Bijection
  <2> HIDE DEF pos, N
  <2> QED
    BY <1>5, <2>1, FS_Injection
<1> QED
  BY <1>1, <1>2, <1>6

-----------------------------------------------------------------------------
(* Free pages                                                              *)

Places == Programs \X Entries
PageAt(m, u) == m.table[u[1]][u[2]]

\* The free pages are numbered from 0 by the allocations that take them.
LEMMA NthFreeIs ==
  ASSUME NEW m, NEW k \in Nat, k < Cardinality(FreePages(m))
  PROVE  /\ NthFreePage(m, k) \in FreePages(m)
         /\ Rank(FreePages(m), NthFreePage(m, k)) = k
<1>1. FreePages(m) \in SUBSET Nat /\ FreePages(m) \in SUBSET Pages
  BY FreeIsNoPage DEF FreePages
<1>2. IsFiniteSet(FreePages(m))
  BY <1>1, Finite, FS_Subset
<1> DEFINE F == FreePages(m)
<1>3. \E p \in F : Rank(F, p) = k
  BY <1>1, <1>2, RankOnto
<1> QED
  BY <1>3 DEF NthFreePage

\* The page a search for a free page finds.
LEMMA GetFreeIs ==
  ASSUME NEW m, FreePages(m) # {}
  PROVE  mmu_get_free_page(m) \in FreePages(m)
<1>1. FreePages(m) \in SUBSET Nat
  BY FreeIsNoPage DEF FreePages
<1> QED
  BY <1>1, LowestIsLeast DEF mmu_get_free_page

\* The places are finite, and as many as there are pages behind the kernel's.
LEMMA PlacesFit ==
  /\ IsFiniteSet(Places)
  /\ Cardinality(Places) + KERNEL_PAGES <= pageMapSize
<1> DEFINE P == (MAXPROC - 1) * (NCODE_PAGES + NDATA_PAGES)
<1>1. IsFiniteSet(Places) /\ Cardinality(Places) = Cardinality(Programs) * Cardinality(Entries)
  BY Finite, FS_Product DEF Places
<1>2. Cardinality(Places) = P
  BY <1>1, Finite
<1>3. pageMapSize >= KERNEL_PAGES + P
  BY MemoryAssumption
<1>4. P \in Nat
  <2>1. MAXPROC - 1 \in Nat /\ NCODE_PAGES + NDATA_PAGES \in Nat
    BY Constants
  <2> QED
    BY <2>1
<1> HIDE DEF P
<1> QED
  BY <1>1, <1>2, <1>3, <1>4, Constants

\* A page is free, or the kernel's, or mapped at some place.
LEMMA FreeOrUsed ==
  ASSUME NEW m, Counted(m), NEW p \in Pages
  PROVE  /\ p \in FreePages(m) <=> p \notin KernelPages /\ UsersIn(m, p) = {}
         /\ IsFiniteSet(UsersIn(m, p)) /\ Cardinality(UsersIn(m, p)) \in Nat
<1>1. UsersIn(m, p) \in SUBSET Places
  BY DEF UsersIn, Places
<1>2. IsFiniteSet(UsersIn(m, p)) /\ Cardinality(UsersIn(m, p)) \in Nat
  BY <1>1, PlacesFit, FS_Subset, FS_CardinalityType
<1>3. Cardinality(UsersIn(m, p)) = 0 <=> UsersIn(m, p) = {}
  BY <1>2, FS_EmptySet
<1> QED
  BY <1>2, <1>3 DEF Counted, FreePages

\* The pages that are neither the kernel's nor free.
UsedPages(m) == (Pages \ KernelPages) \ FreePages(m)

\* Free and used pages together are as many as there are places.
LEMMA FreeAndUsed ==
  ASSUME NEW m, Counted(m)
  PROVE  /\ IsFiniteSet(FreePages(m)) /\ Cardinality(FreePages(m)) \in Nat
         /\ IsFiniteSet(UsedPages(m)) /\ Cardinality(UsedPages(m)) \in Nat
         /\ Cardinality(FreePages(m)) + Cardinality(UsedPages(m)) >= Cardinality(Places)
<1> DEFINE R == Pages \ KernelPages
           F == FreePages(m)
           W == UsedPages(m)
<1>1. IsFiniteSet(R) /\ Cardinality(R) = pageMapSize - KERNEL_PAGES
  <2>1. /\ IsFiniteSet(Pages) /\ Cardinality(Pages) = pageMapSize
        /\ Pages \cap KernelPages = KernelPages /\ Cardinality(KernelPages) = KERNEL_PAGES
    BY Finite
  <2>2. IsFiniteSet(R) /\ Cardinality(R) = Cardinality(Pages) - Cardinality(Pages \cap KernelPages)
    BY <2>1, FS_Difference
  <2> HIDE DEF R, F, W
  <2> QED
    BY <2>1, <2>2, Zenon
<1>2. F \in SUBSET R /\ W = R \ F /\ R \cap F = F
  BY FreeOrUsed DEF FreePages, UsedPages
<1> HIDE DEF R, F, W
<1>3. IsFiniteSet(F) /\ Cardinality(F) \in Nat
  BY <1>1, <1>2, FS_Subset, FS_CardinalityType
<1>4. IsFiniteSet(W) /\ Cardinality(W) = Cardinality(R) - Cardinality(F)
  BY <1>1, <1>2, FS_Difference
<1>5. Cardinality(W) \in Nat
  BY <1>4, FS_CardinalityType
<1>6. Cardinality(Places) \in Nat
  BY PlacesFit, FS_CardinalityType
<1> HIDE DEF R, F, W
<1> QED
  BY <1>1, <1>3, <1>4, <1>5, <1>6, PlacesFit, Constants DEF F, W

\* As long as the places outside U map every page in use, there are enough free
\* pages to give each place of U one.
LEMMA PagesEnough ==
  ASSUME NEW m, Counted(m), NEW U \in SUBSET Places,
         \A u \in U : \/ PageAt(m, u) \notin Pages
                      \/ \E w \in Places \ U : PageAt(m, w) = PageAt(m, u)
  PROVE  /\ IsFiniteSet(U) /\ Cardinality(U) \in Nat
         /\ Cardinality(U) <= Cardinality(FreePages(m))
         /\ Cardinality(FreePages(m)) \in Nat
<1> DEFINE W == UsedPages(m)
           V == {u \in Places \ U : PageAt(m, u) \in W}
           f == [u \in V |-> PageAt(m, u)]
<1>1. f \in Surjection(V, W)
  <2>1. \A p \in W : \E u \in Places : PageAt(m, u) = p
    <3>1. \A p \in W : UsersIn(m, p) # {}
      BY FreeOrUsed DEF UsedPages
    <3> HIDE DEF W
    <3> QED
      BY <3>1 DEF UsersIn, PageAt, Places
  <2>2. \A p \in W : \E u \in Places \ U : PageAt(m, u) = p
    BY <2>1 DEF UsedPages
  <2>3. \A p \in W : \E u \in V : f[u] = p
    BY <2>2
  <2> QED
    BY <2>3 DEF Surjection
<1>2. IsFiniteSet(U) /\ Cardinality(U) \in Nat /\ IsFiniteSet(Places \ U)
  BY PlacesFit, FS_Subset, FS_CardinalityType
<1>3. Cardinality(Places \ U) = Cardinality(Places) - Cardinality(U)
  <2>1. Places \cap U = U
    OBVIOUS
  <2> QED
    BY <2>1, PlacesFit, FS_Difference
<1>4. V \in SUBSET (Places \ U)
  OBVIOUS
<1> HIDE DEF V, f, W
<1>5. /\ IsFiniteSet(V) /\ Cardinality(V) \in Nat
      /\ Cardinality(V) <= Cardinality(Places \ U)
  BY <1>2, <1>4, FS_Subset, FS_CardinalityType
<1>6. Cardinality(W) <= Cardinality(V)
  BY <1>1, <1>5, FS_Surjection
<1>7. Cardinality(Places) \in Nat
  BY PlacesFit, FS_CardinalityType
<1> QED
  BY <1>2, <1>3, <1>5, <1>6, <1>7, FreeAndUsed DEF W

\* One space gets pages for a block of its entries.
LEMMA BlockFits ==
  ASSUME NEW m, Counted(m), NEW n \in Programs, Mapped(m.table[n]) = {},
         NEW a \in 0 .. NCODE_PAGES, NEW b \in 0 .. NDATA_PAGES
  PROVE  /\ a + b <= Cardinality(FreePages(m))
         /\ Cardinality(FreePages(m)) \in Nat
<1> DEFINE B == Block(a, b)
           U == {n} \X B
<1>1. IsFiniteSet(B) /\ Cardinality(B) = a + b
  BY BlockSize
<1>2. Cardinality(U) = a + b
  <2>1. IsFiniteSet({n}) /\ Cardinality({n}) = 1
    BY FS_Singleton
  <2> HIDE DEF B
  <2>2. Cardinality(U) = Cardinality({n}) * Cardinality(B)
    BY <1>1, <2>1, FS_Product
  <2> QED
    BY <1>1, <2>1, <2>2, Constants
<1>3. U \in SUBSET Places
  BY DEF Places, Block
<1>4. \A u \in U : PageAt(m, u) \notin Pages
  BY FreeIsNoPage DEF PageAt, Mapped, Block
<1> HIDE DEF U
<1>5. Cardinality(U) <= Cardinality(FreePages(m)) /\ Cardinality(FreePages(m)) \in Nat
  BY <1>3, <1>4, PagesEnough
<1> QED
  BY <1>2, <1>5

\* Users are programs and their entries; the kernel maps its own pages only.
LEMMA UserIs ==
  ASSUME NEW m, NEW q
  PROVE  /\ UsersIn(m, q) \subseteq Programs \X Entries
         /\ \A s \in Programs, e \in Entries : <<s, e>> \in UsersIn(m, q) <=> m.table[s][e] = q
         /\ \A u \in UsersIn(m, q) : /\ u = <<u[1], u[2]>> /\ u[1] \in Programs /\ u[2] \in Entries
                                     /\ m.table[u[1]][u[2]] = q
         /\ Rooted(m) => \A e \in Entries : m.table[Kernel][e] = q => q \in KernelPages \cup {FREE_PAGE_MARK}
<1>1. \A u \in Programs \X Entries : u = <<u[1], u[2]>> /\ u[1] \in Programs /\ u[2] \in Entries
  OBVIOUS
<1>2. \A s \in Programs, e \in Entries : <<s, e>> \in UsersIn(m, q) <=> m.table[s][e] = q
  BY DEF UsersIn
<1>3. Rooted(m) => \A e \in Entries : m.table[Kernel][e] = q => q \in KernelPages \cup {FREE_PAGE_MARK}
  BY EntryIs, Constants DEF Rooted, KernelTable, KernelPages
<1> QED
  BY <1>1, <1>2, <1>3 DEF UsersIn

-----------------------------------------------------------------------------
(* Giving pages                                                            *)

\* A space without a page.
Vacant(m, n) == Mapped(m.table[n]) = {} /\ m.readOnly[n] = {}

\* The free page that each entry of a block gets.
Grant(m, a, b) == [e \in Block(a, b) |-> NthFreePage(m, Position(a, e))]
Granted(m, a, b) == {Grant(m, a, b)[e] : e \in Block(a, b)}

\* r is m with the block of space n mapped to the pages granted.
Gives(m, r, n, a, b) ==
  /\ r \in Memories
  /\ \A q \in Pages : r.pageMap[q] = IF q \in Granted(m, a, b) THEN 1 ELSE m.pageMap[q]
  /\ \A s \in Spaces \ {n} : r.table[s] = m.table[s] /\ r.readOnly[s] = m.readOnly[s]
  /\ \A e \in Entries :
       r.table[n][e] = IF e \in Block(a, b) THEN Grant(m, a, b)[e] ELSE m.table[n][e]
  /\ r.readOnly[n] = m.readOnly[n] \ Block(a, b)
  /\ \A q \in Pages \ Granted(m, a, b) : r.mem[q] = m.mem[q]

\* Each entry is granted a free page of its own.
LEMMA GrantIs ==
  ASSUME NEW m, Counted(m), NEW n \in Programs, Vacant(m, n),
         NEW a \in 0 .. NCODE_PAGES, NEW b \in 0 .. NDATA_PAGES
  PROVE  /\ Grant(m, a, b) \in [Block(a, b) -> FreePages(m)]
         /\ \A e, f \in Block(a, b) : Grant(m, a, b)[e] = Grant(m, a, b)[f] => e = f
<1> DEFINE N == Cardinality(FreePages(m))
<1>1. a + b <= N /\ N \in Nat
  BY BlockFits DEF Vacant
<1>2. a + b \in Nat
  BY Constants
<1>3. \A e \in Block(a, b) : Position(a, e) \in Nat /\ Position(a, e) < N
  <2> SUFFICES ASSUME NEW e \in Block(a, b) PROVE Position(a, e) \in Nat /\ Position(a, e) < N
    OBVIOUS
  <2>1. Position(a, e) \in 0 .. (a + b) - 1
    BY BlockSize
  <2> HIDE DEF N
  <2> QED
    BY <1>1, <1>2, <2>1
<1>4. \A e \in Block(a, b) : /\ NthFreePage(m, Position(a, e)) \in FreePages(m)
                             /\ Rank(FreePages(m), NthFreePage(m, Position(a, e))) = Position(a, e)
  BY <1>3, NthFreeIs
<1>5. \A e, f \in Block(a, b) : Position(a, e) = Position(a, f) => e = f
  BY BlockSize
<1> QED
  BY <1>4, <1>5 DEF Grant

\* Pages granted to a vacant space keep a record sound, and what is seen through
\* every other space.
LEMMA GivesSound ==
  ASSUME NEW m, Sound(m), NEW n \in Programs, Vacant(m, n),
         NEW a \in 0 .. NCODE_PAGES, NEW b \in 0 .. NDATA_PAGES,
         NEW r, Gives(m, r, n, a, b)
  PROVE  /\ Sound(r)
         /\ Mapped(r.table[n]) = Block(a, b)
         /\ \A s \in Spaces \ {n} : /\ r.table[s] = m.table[s]
                                    /\ \A e \in Entries : View(r, s, e) = View(m, s, e)
         /\ \A e \in Block(a, b) : View(r, n, e) = r.mem[Grant(m, a, b)[e]]
         /\ \A e \in Entries \ Block(a, b) : View(r, n, e) = Nothing
<1> DEFINE B == Block(a, b)
           g == Grant(m, a, b)
           G == Granted(m, a, b)
<1>1. /\ \A e \in B : g[e] \in FreePages(m) /\ g[e] \in Pages /\ g[e] \notin KernelPages
                      /\ UsersIn(m, g[e]) = {}
      /\ \A e, f \in B : g[e] = g[f] => e = f
  <2>1. FreePages(m) \subseteq Pages
    BY DEF FreePages
  <2> QED
    BY <2>1, GrantIs, FreeOrUsed DEF Sound
<1>2. B \subseteq Entries
  BY DEF Block
<1>3. /\ r \in Memories
      /\ \A q \in Pages : r.pageMap[q] = IF q \in G THEN 1 ELSE m.pageMap[q]
      /\ \A s \in Spaces \ {n} : r.table[s] = m.table[s] /\ r.readOnly[s] = m.readOnly[s]
      /\ \A e \in Entries : r.table[n][e] = IF e \in B THEN g[e] ELSE m.table[n][e]
      /\ r.readOnly[n] = m.readOnly[n] \ B
      /\ \A q \in Pages \ G : r.mem[q] = m.mem[q]
  BY DEF Gives
<1>4. \A q : q \in G <=> \E e \in B : q = g[e]
  BY DEF Granted
<1> HIDE DEF B, g, G
<1>5. \A e \in Entries : m.table[n][e] = FREE_PAGE_MARK
  BY DEF Vacant, Mapped
<1>6. Mapped(r.table[n]) = B
  BY <1>1, <1>2, <1>3, <1>5, FreeIsNoPage DEF Mapped
<1>7. n \in Spaces /\ n # Kernel
  BY DEF Programs
<1>8. \A q \in Pages : UsersIn(r, q) = IF q \in G THEN {u \in {n} \X B : g[u[2]] = q}
                                       ELSE UsersIn(m, q)
  <2> SUFFICES ASSUME NEW q \in Pages
               PROVE  UsersIn(r, q) = IF q \in G THEN {u \in {n} \X B : g[u[2]] = q}
                                      ELSE UsersIn(m, q)
    OBVIOUS
  <2>1. \A s \in Programs : \A e \in Entries :
          r.table[s][e] = q <=> IF q \in G THEN s = n /\ e \in B /\ g[e] = q
                                ELSE m.table[s][e] = q
    <3> SUFFICES ASSUME NEW s \in Programs, NEW e \in Entries
                 PROVE  r.table[s][e] = q <=> IF q \in G THEN s = n /\ e \in B /\ g[e] = q
                                              ELSE m.table[s][e] = q
      OBVIOUS
    <3>1. CASE s = n
      BY <3>1, <1>3, <1>4, <1>5, FreeIsNoPage
    <3>2. CASE s # n
      <4>1. r.table[s][e] = m.table[s][e]
        BY <3>2, <1>3 DEF Programs
      <4>2. q \in G => UsersIn(m, q) = {}
        BY <1>1, <1>4
      <4>3. q \in G => m.table[s][e] # q
        BY <4>2, UserIs
      <4> QED
        BY <3>2, <4>1, <4>3
    <3> QED
      BY <3>1, <3>2
  <2>2. CASE q \in G
    BY <2>1, <2>2, <1>2 DEF UsersIn
  <2>3. CASE q \notin G
    BY <2>1, <2>3 DEF UsersIn
  <2> QED
    BY <2>2, <2>3
<1>9. \A q \in G : \E e \in B : UsersIn(r, q) = {<<n, e>>}
  <2> SUFFICES ASSUME NEW q \in G PROVE \E e \in B : UsersIn(r, q) = {<<n, e>>}
    OBVIOUS
  <2>1. PICK e \in B : q = g[e]
    BY <1>4
  <2>2. UsersIn(r, q) = {u \in {n} \X B : g[u[2]] = q}
    BY <1>1, <1>8, <2>1
  <2>3. {u \in {n} \X B : g[u[2]] = q} = {<<n, e>>}
    BY <1>1, <2>1
  <2> QED
    BY <2>2, <2>3
<1>10. Counted(r)
  <2> SUFFICES ASSUME NEW q \in Pages
               PROVE  IF q \in KernelPages THEN r.pageMap[q] = 1 /\ UsersIn(r, q) = {}
                      ELSE r.pageMap[q] = Cardinality(UsersIn(r, q))
    BY DEF Counted
  <2>1. CASE q \in G
    <3>1. PICK e \in B : UsersIn(r, q) = {<<n, e>>}
      BY <2>1, <1>9
    <3>2. Cardinality({<<n, e>>}) = 1
      BY FS_Singleton
    <3>3. r.pageMap[q] = 1 /\ q \notin KernelPages
      BY <2>1, <1>1, <1>3, <1>4
    <3> QED
      BY <3>1, <3>2, <3>3
  <2>2. CASE q \notin G
    BY <2>2, <1>3, <1>8 DEF Sound, Counted
  <2> QED
    BY <2>1, <2>2
<1>11. Guarded(r)
  <2> SUFFICES ASSUME NEW q \in Pages, NEW u \in UsersIn(r, q), NEW w \in UsersIn(r, q), u # w
               PROVE  u[2] \in r.readOnly[u[1]]
    BY DEF Guarded
  <2>1. q \notin G
    BY <1>9
  <2>2. u \in UsersIn(m, q) /\ w \in UsersIn(m, q)
    BY <2>1, <1>8
  <2>3. u[2] \in m.readOnly[u[1]] /\ u[1] \in Programs /\ m.table[u[1]][u[2]] = q
        /\ u[2] \in Entries
    BY <2>2 DEF Sound, Guarded, UsersIn
  <2>4. u[1] # n
    BY <2>3, <1>5, FreeIsNoPage
  <2> QED
    BY <2>3, <2>4, <1>3 DEF Programs
<1>12. Shaped(r)
  <2>1. Closed(r.table[n])
    <3>1. \A e \in B : \A j \in 0 .. e[2] : <<e[1], j>> \in B
      <4> SUFFICES ASSUME NEW e \in B, NEW j \in 0 .. e[2] PROVE <<e[1], j>> \in B
        OBVIOUS
      <4>1. <<e[1], j>> \in Entries /\ e[2] \in Nat /\ e[1] \in {0, 1}
        BY EntryIs, <1>2
      <4>2. a \in Nat /\ b \in Nat /\ e[2] < IF e[1] = 1 THEN a ELSE b
        BY Constants DEF B, Block
      <4>3. j < IF e[1] = 1 THEN a ELSE b
        BY <4>1, <4>2
      <4> QED
        BY <4>1, <4>3 DEF B, Block
    <3> QED
      BY <3>1, <1>6, <1>2 DEF Closed, Mapped
  <2>2. r.readOnly[n] = {}
    BY <1>3 DEF Vacant
  <2> QED
    BY <2>1, <2>2, <1>3 DEF Shaped, Sound, Programs
<1>13. Rooted(r)
  BY <1>3, <1>7, Constants DEF Sound, Rooted
<1>14. \A s \in Spaces \ {n} : \A e \in Entries : m.table[s][e] \in Pages => m.table[s][e] \notin G
  <2> SUFFICES ASSUME NEW s \in Spaces \ {n}, NEW e \in Entries, m.table[s][e] \in Pages,
                      m.table[s][e] \in G
               PROVE  FALSE
    OBVIOUS
  <2>1. m.table[s][e] \notin KernelPages /\ UsersIn(m, m.table[s][e]) = {}
    BY <1>1, <1>4
  <2>2. CASE s = Kernel
    BY <2>1, <2>2, FreeIsNoPage, UserIs DEF Sound
  <2>3. CASE s # Kernel
    BY <2>1, <2>3, UserIs DEF Programs
  <2> QED
    BY <2>2, <2>3
<1>15. \A s \in Spaces \ {n} : \A e \in Entries : View(r, s, e) = View(m, s, e)
  <2>1. \A s \in Spaces \ {n} : \A e \in Entries : m.table[s][e] \in Pages \cup {FREE_PAGE_MARK}
    BY DEF Sound, Memories
  <2> QED
    BY <1>3, <1>14, <2>1 DEF View
<1>16. \A e \in B : View(r, n, e) = r.mem[g[e]]
  BY <1>1, <1>2, <1>3, FreeIsNoPage DEF View
<1>17. \A e \in Entries \ B : View(r, n, e) = Nothing
  BY <1>3, <1>5 DEF View
<1> QED
  BY <1>3, <1>6, <1>10, <1>11, <1>12, <1>13, <1>15, <1>16, <1>17 DEF Sound, B, g

\* A copy gives each entry of the child a page that holds what the parent has.
LEMMA CopyGives ==
  ASSUME NEW m, Sound(m), NEW n \in Programs, Vacant(m, n), NEW p \in Spaces, p # n,
         NEW a \in 0 .. NCODE_PAGES, NEW b \in 0 .. NDATA_PAGES,
         Block(a, b) \subseteq Mapped(m.table[p]),
         \A e \in Entries : Before(m.table[p], e) = Position(a, e)
  PROVE  LET r == CopyPages(m, p, n, Block(a, b))
         IN /\ Gives(m, r, n, a, b)
            /\ \A e \in Block(a, b) : r.mem[Grant(m, a, b)[e]] = View(m, p, e)
<1> DEFINE B == Block(a, b)
           g == Grant(m, a, b)
           G == Granted(m, a, b)
           pg(e) == NthFreePage(m, Before(m.table[p], e))
           of(q) == CHOOSE e \in B : pg(e) = q
           r == CopyPages(m, p, n, B)
<1>1. \A e \in B : pg(e) = g[e]
  BY DEF Grant, Block
<1>2. G = {g[e] : e \in B}
  BY DEF Granted
<1>3. B \subseteq Entries /\ n \in Spaces
  BY DEF Block, Programs
<1>4. g \in [B -> Pages] /\ \A e, f \in B : g[e] = g[f] => e = f
  BY GrantIs DEF FreePages, Sound
<1>5. G \subseteq Pages
  BY <1>2, <1>4
<1>6. m \in Memories
  BY DEF Sound
<1>7. r = [m EXCEPT
             !.pageMap = [q \in Pages |-> IF q \in {pg(e) : e \in B} THEN 1 ELSE @[q]],
             !.mem = [q \in Pages |-> IF q \in {pg(e) : e \in B} THEN @[m.table[p][of(q)]] ELSE @[q]],
             !.table[n] = [e \in Entries |-> IF e \in B THEN pg(e) ELSE @[e]],
             !.readOnly[n] = @ \ B]
  BY DEF CopyPages
<1> HIDE DEF B, g, G, r, of
<1>8. {pg(e) : e \in B} = G
  BY <1>1, <1>2
<1>9. /\ r.pageMap = [q \in Pages |-> IF q \in G THEN 1 ELSE m.pageMap[q]]
      /\ r.mem = [q \in Pages |-> IF q \in G THEN m.mem[m.table[p][of(q)]] ELSE m.mem[q]]
      /\ r.table = [m.table EXCEPT ![n] = [e \in Entries |-> IF e \in B THEN pg(e) ELSE @[e]]]
      /\ r.readOnly = [m.readOnly EXCEPT ![n] = @ \ B]
      /\ r = [pageMap |-> r.pageMap, table |-> r.table, readOnly |-> r.readOnly, mem |-> r.mem]
  BY <1>6, <1>7, <1>8 DEF Memories
<1>10. /\ r.pageMap \in [Pages -> Nat]
       /\ \A q \in Pages : r.pageMap[q] = IF q \in G THEN 1 ELSE m.pageMap[q]
  BY <1>6, <1>9 DEF Memories
<1>11. /\ r.mem \in [Pages -> Values]
       /\ \A q \in Pages : r.mem[q] = IF q \in G THEN m.mem[m.table[p][of(q)]] ELSE m.mem[q]
  <2>1. m.mem \in [Pages -> Values]
    BY <1>6 DEF Memories
  <2>2. \A q \in G : of(q) \in B
    BY <1>8 DEF of
  <2>3. \A q \in G : m.mem[m.table[p][of(q)]] \in Values
    <3>1. \A e \in B : m.table[p][e] \in Pages
      BY <1>6, FreeIsNoPage DEF Memories, Mapped, B
    <3> QED
      BY <2>1, <2>2, <3>1
  <2>4. r.mem = [q \in Pages |-> IF q \in G THEN m.mem[m.table[p][of(q)]] ELSE m.mem[q]]
    BY <1>9
  <2>5. \A q \in Pages :
          (IF q \in G THEN m.mem[m.table[p][of(q)]] ELSE m.mem[q]) \in Values
    BY <2>1, <2>3
  <2> QED
    BY <2>4, <2>5
<1>12. /\ r.table \in [Spaces -> [Entries -> Pages \cup {FREE_PAGE_MARK}]]
       /\ \A s \in Spaces \ {n} : r.table[s] = m.table[s]
       /\ \A e \in Entries : r.table[n][e] = IF e \in B THEN g[e] ELSE m.table[n][e]
  <2>1. m.table \in [Spaces -> [Entries -> Pages \cup {FREE_PAGE_MARK}]]
    BY <1>6 DEF Memories
  <2> QED
    BY <1>1, <1>3, <1>4, <1>9, <2>1
<1>13. /\ r.readOnly \in [Spaces -> SUBSET Entries]
       /\ \A s \in Spaces \ {n} : r.readOnly[s] = m.readOnly[s]
       /\ r.readOnly[n] = m.readOnly[n] \ B
  BY <1>3, <1>6, <1>9 DEF Memories
<1>14. r \in Memories
  BY <1>9, <1>10, <1>11, <1>12, <1>13 DEF Memories
<1>15. Gives(m, r, n, a, b)
  BY <1>10, <1>11, <1>12, <1>13, <1>14 DEF Gives, B, g, G
<1>16. ASSUME NEW e \in B PROVE r.mem[g[e]] = View(m, p, e)
  <2>1. of(g[e]) = e
    BY <1>1, <1>4 DEF of
  <2>2. g[e] \in G /\ g[e] \in Pages
    BY <1>2, <1>5
  <2>3. m.table[p][e] # FREE_PAGE_MARK
    BY DEF B, Mapped
  <2> QED
    BY <1>11, <2>1, <2>2, <2>3 DEF View
<1> QED
  BY <1>15, <1>16 DEF B, g, r

\* A program is loaded into pages granted to its code and a whole data segment.
LEMMA LoadGives ==
  ASSUME NEW m, Sound(m), NEW n \in Programs, Vacant(m, n),
         NEW text \in 0 .. NCODE_PAGES, NEW data, NEW file \in Values
  PROVE  Gives(m, LoadPages(m, n, text, data, file), n, text, NDATA_PAGES)
<1> DEFINE B == Block(text, NDATA_PAGES)
           g == Grant(m, text, NDATA_PAGES)
           G == Granted(m, text, NDATA_PAGES)
           pg(e) == NthFreePage(m, IF e[1] = 1 THEN e[2] ELSE text + e[2])
           E == {e \in Entries : e[1] = 1 => e[2] < text}
           R == {pg(e) : e \in {f \in E : f[1] = 0 => f[2] < data}}
           r == LoadPages(m, n, text, data, file)
<1>0. NDATA_PAGES \in 0 .. NDATA_PAGES
  BY Constants
<1>1. E = B
  BY EntryIs DEF Block, Limit
<1>2. \A e \in B : pg(e) = g[e]
  BY DEF Grant, Block, Position
<1>3. G = {g[e] : e \in B}
  BY DEF Granted
<1>4. B \subseteq Entries /\ n \in Spaces
  BY DEF Block, Programs
<1>5. g \in [B -> Pages]
  BY <1>0, GrantIs DEF FreePages, Sound
<1>6. m \in Memories
  BY DEF Sound
<1>7. r = [m EXCEPT
             !.pageMap = [q \in Pages |-> IF q \in {pg(e) : e \in E} THEN 1 ELSE @[q]],
             !.mem = [q \in Pages |-> IF q \in R THEN file ELSE @[q]],
             !.table[n] = [e \in Entries |-> IF e \in E THEN pg(e) ELSE @[e]],
             !.readOnly[n] = @ \ E]
  BY DEF LoadPages
<1>8. R \subseteq G
  <2>1. {f \in E : f[1] = 0 => f[2] < data} \subseteq B
    BY <1>1
  <2> HIDE DEF B, E, g, G, pg
  <2> QED
    BY <2>1, <1>2, <1>3
<1> HIDE DEF B, E, R, g, G, r
<1>9. {pg(e) : e \in B} = G
  BY <1>2, <1>3
<1>10. r = [m EXCEPT
             !.pageMap = [q \in Pages |-> IF q \in G THEN 1 ELSE @[q]],
             !.mem = [q \in Pages |-> IF q \in R THEN file ELSE @[q]],
             !.table[n] = [e \in Entries |-> IF e \in B THEN pg(e) ELSE @[e]],
             !.readOnly[n] = @ \ B]
  BY <1>1, <1>7, <1>9
<1>11. /\ r.pageMap = [q \in Pages |-> IF q \in G THEN 1 ELSE m.pageMap[q]]
       /\ r.mem = [q \in Pages |-> IF q \in R THEN file ELSE m.mem[q]]
       /\ r.table = [m.table EXCEPT ![n] = [e \in Entries |-> IF e \in B THEN pg(e) ELSE @[e]]]
       /\ r.readOnly = [m.readOnly EXCEPT ![n] = @ \ B]
       /\ r = [pageMap |-> r.pageMap, table |-> r.table, readOnly |-> r.readOnly, mem |-> r.mem]
  BY <1>6, <1>10 DEF Memories
<1>12. /\ r.pageMap \in [Pages -> Nat]
       /\ \A q \in Pages : r.pageMap[q] = IF q \in G THEN 1 ELSE m.pageMap[q]
  BY <1>6, <1>11 DEF Memories
<1>13. r.mem \in [Pages -> Values] /\ \A q \in Pages \ G : r.mem[q] = m.mem[q]
  BY <1>6, <1>8, <1>11 DEF Memories
<1>14. /\ r.table \in [Spaces -> [Entries -> Pages \cup {FREE_PAGE_MARK}]]
       /\ \A s \in Spaces \ {n} : r.table[s] = m.table[s]
       /\ \A e \in Entries : r.table[n][e] = IF e \in B THEN g[e] ELSE m.table[n][e]
  <2>1. m.table \in [Spaces -> [Entries -> Pages \cup {FREE_PAGE_MARK}]]
    BY <1>6 DEF Memories
  <2> QED
    BY <1>2, <1>4, <1>5, <1>11, <2>1
<1>15. /\ r.readOnly \in [Spaces -> SUBSET Entries]
       /\ \A s \in Spaces \ {n} : r.readOnly[s] = m.readOnly[s]
       /\ r.readOnly[n] = m.readOnly[n] \ B
  BY <1>4, <1>6, <1>11 DEF Memories
<1>16. r \in Memories
  BY <1>11, <1>12, <1>13, <1>14, <1>15 DEF Memories
<1>17. Gives(m, r, n, text, NDATA_PAGES)
  BY <1>12, <1>13, <1>14, <1>15, <1>16 DEF Gives, B, g, G
<1> QED
  BY <1>17 DEF r

-----------------------------------------------------------------------------
(* Taking pages                                                            *)

\* Places of one space are as many as its entries in them.
LEMMA PlacesOf ==
  ASSUME NEW s, NEW X \in SUBSET Entries
  PROVE  /\ IsFiniteSet({s} \X X) /\ Cardinality({s} \X X) = Cardinality(X)
         /\ Cardinality(X) \in Nat
<1>1. IsFiniteSet(X) /\ Cardinality(X) \in Nat
  BY Finite, FS_Subset, FS_CardinalityType
<1>2. IsFiniteSet({s}) /\ Cardinality({s}) = 1
  BY FS_Singleton
<1>3. IsFiniteSet({s} \X X) /\ Cardinality({s} \X X) = Cardinality({s}) * Cardinality(X)
  BY <1>1, <1>2, FS_Product
<1> QED
  BY <1>1, <1>2, <1>3

\* The entries of space s that map page q.
Own(m, s, q) == {e \in Entries : m.table[s][e] = q}

\* freeProcessPages leaves the space vacant and every other one as it was.
LEMMA FreeSound ==
  ASSUME NEW m, Sound(m), NEW s \in Programs,
         NEW r, r = freeProcessPages(m, s)
  PROVE  /\ Sound(r) /\ Vacant(r, s)
         /\ \A t \in Spaces \ {s} : /\ r.table[t] = m.table[t]
                                    /\ \A e \in Entries : View(r, t, e) = View(m, t, e)
         /\ \A e \in Entries : View(r, s, e) = Nothing
<1> DEFINE gone == Mapped(m.table[s])
           pages == {m.table[s][e] : e \in gone}
           uses(q) == Cardinality({e \in gone : m.table[s][e] = q})
<1>0. m \in Memories /\ s \in Spaces /\ gone \subseteq Entries /\ s # Kernel
  BY DEF Sound, Programs, Mapped
<1>1. Seen(m.table[s]) = gone
  BY SeenIs DEF Sound, Shaped
<1>2. r = [m EXCEPT !.pageMap = [p \in Pages |-> IF p \in pages THEN @[p] - uses(p) ELSE @[p]],
                    !.table[s] = [e \in Entries |-> IF e \in gone THEN FREE_PAGE_MARK ELSE @[e]],
                    !.readOnly[s] = @ \ gone]
  BY <1>1 DEF freeProcessPages
<1>3. \A q \in Pages : /\ {e \in gone : m.table[s][e] = q} = Own(m, s, q)
                       /\ q \in pages <=> Own(m, s, q) # {}
  BY FreeIsNoPage DEF Own, Mapped
<1> HIDE DEF gone, pages
<1>4. /\ r.pageMap = [p \in Pages |-> IF p \in pages THEN m.pageMap[p] - uses(p) ELSE m.pageMap[p]]
      /\ r.table = [m.table EXCEPT ![s] = [e \in Entries |-> IF e \in gone THEN FREE_PAGE_MARK ELSE @[e]]]
      /\ r.readOnly = [m.readOnly EXCEPT ![s] = @ \ gone]
      /\ r.mem = m.mem
      /\ r = [pageMap |-> r.pageMap, table |-> r.table, readOnly |-> r.readOnly, mem |-> r.mem]
  BY <1>0, <1>2 DEF Memories
<1>5. /\ r.table \in [Spaces -> [Entries -> Pages \cup {FREE_PAGE_MARK}]]
      /\ \A t \in Spaces \ {s} : r.table[t] = m.table[t]
      /\ \A e \in Entries : r.table[s][e] = FREE_PAGE_MARK
  <2>1. m.table \in [Spaces -> [Entries -> Pages \cup {FREE_PAGE_MARK}]]
    BY <1>0 DEF Memories
  <2> QED
    BY <1>0, <1>4, <2>1 DEF gone, Mapped
<1>6. /\ r.readOnly \in [Spaces -> SUBSET Entries]
      /\ \A t \in Spaces \ {s} : r.readOnly[t] = m.readOnly[t]
      /\ r.readOnly[s] = {}
  <2>1. m.readOnly[s] \subseteq gone
    BY DEF Sound, Shaped, gone
  <2> QED
    BY <2>1, <1>0, <1>4 DEF Memories
<1>7. \A q \in Pages : UsersIn(r, q) = UsersIn(m, q) \ ({s} \X Own(m, s, q))
  <2> SUFFICES ASSUME NEW q \in Pages
               PROVE  UsersIn(r, q) = UsersIn(m, q) \ ({s} \X Own(m, s, q))
    OBVIOUS
  <2>1. \A t \in Programs, e \in Entries :
          r.table[t][e] = q <=> m.table[t][e] = q /\ ~(t = s /\ e \in Own(m, s, q))
    BY <1>5, FreeIsNoPage DEF Own, Programs
  <2> QED
    BY <2>1 DEF UsersIn, Own
<1>8. \A q \in Pages : /\ {s} \X Own(m, s, q) \in SUBSET UsersIn(m, q)
                       /\ Cardinality(UsersIn(r, q))
                            = Cardinality(UsersIn(m, q)) - Cardinality(Own(m, s, q))
                       /\ Cardinality(UsersIn(r, q)) \in Nat
  <2> SUFFICES ASSUME NEW q \in Pages
               PROVE  /\ {s} \X Own(m, s, q) \in SUBSET UsersIn(m, q)
                      /\ Cardinality(UsersIn(r, q))
                            = Cardinality(UsersIn(m, q)) - Cardinality(Own(m, s, q))
                      /\ Cardinality(UsersIn(r, q)) \in Nat
    OBVIOUS
  <2>1. {s} \X Own(m, s, q) \in SUBSET UsersIn(m, q)
    BY DEF Own, UsersIn
  <2>2. IsFiniteSet(UsersIn(m, q))
    BY FreeOrUsed DEF Sound
  <2>3. UsersIn(m, q) \cap ({s} \X Own(m, s, q)) = {s} \X Own(m, s, q)
    BY <2>1
  <2>4. Cardinality({s} \X Own(m, s, q)) = Cardinality(Own(m, s, q))
    BY PlacesOf DEF Own
  <2>5. /\ IsFiniteSet(UsersIn(r, q))
        /\ Cardinality(UsersIn(r, q))
             = Cardinality(UsersIn(m, q)) - Cardinality(UsersIn(m, q) \cap ({s} \X Own(m, s, q)))
    <3>1. UsersIn(r, q) = UsersIn(m, q) \ ({s} \X Own(m, s, q))
      BY <1>7
    <3>2. \A T : /\ IsFiniteSet(UsersIn(m, q) \ T)
                 /\ Cardinality(UsersIn(m, q) \ T)
                      = Cardinality(UsersIn(m, q)) - Cardinality(UsersIn(m, q) \cap T)
      BY <2>2, FS_Difference
    <3> QED
      BY <3>1, <3>2
  <2>6. Cardinality(UsersIn(r, q)) \in Nat
    BY <2>5, FS_CardinalityType
  <2> QED
    BY <2>1, <2>3, <2>4, <2>5, <2>6
<1>9. \A q \in Pages : Own(m, s, q) = {} => UsersIn(r, q) = UsersIn(m, q)
  BY <1>7
<1>10. \A q \in Pages :
         /\ r.pageMap[q] \in Nat
         /\ IF q \in KernelPages THEN r.pageMap[q] = 1 /\ UsersIn(r, q) = {}
            ELSE r.pageMap[q] = Cardinality(UsersIn(r, q))
  <2> SUFFICES ASSUME NEW q \in Pages
               PROVE  /\ r.pageMap[q] \in Nat
                      /\ IF q \in KernelPages THEN r.pageMap[q] = 1 /\ UsersIn(r, q) = {}
                         ELSE r.pageMap[q] = Cardinality(UsersIn(r, q))
    OBVIOUS
  <2>0. /\ m.pageMap[q] \in Nat
        /\ IF q \in KernelPages THEN m.pageMap[q] = 1 /\ UsersIn(m, q) = {}
           ELSE m.pageMap[q] = Cardinality(UsersIn(m, q))
    BY <1>0 DEF Sound, Counted, Memories
  <2>1. CASE q \in pages
    <3>1. r.pageMap[q] = m.pageMap[q] - Cardinality(Own(m, s, q))
      BY <2>1, <1>3, <1>4
    <3>2. q \notin KernelPages
      <4>1. PICK e \in Own(m, s, q) : TRUE
        BY <2>1, <1>3
      <4>2. <<s, e>> \in UsersIn(m, q)
        BY <4>1, <1>8
      <4> QED
        BY <4>2, <2>0
    <3> QED
      BY <3>1, <3>2, <2>0, <1>8
  <2>2. CASE q \notin pages
    <3>1. r.pageMap[q] = m.pageMap[q]
      BY <2>2, <1>4
    <3>2. UsersIn(r, q) = UsersIn(m, q)
      BY <2>2, <1>3, <1>9
    <3> QED
      BY <3>1, <3>2, <2>0
  <2> QED
    BY <2>1, <2>2
<1>11. r \in Memories
  BY <1>0, <1>4, <1>5, <1>6, <1>10 DEF Memories
<1>12. Counted(r)
  BY <1>10 DEF Counted
<1>13. Guarded(r)
  <2> SUFFICES ASSUME NEW q \in Pages, NEW u \in UsersIn(r, q), NEW w \in UsersIn(r, q), u # w
               PROVE  u[2] \in r.readOnly[u[1]]
    BY DEF Guarded
  <2>1. u \in UsersIn(m, q) /\ w \in UsersIn(m, q)
    BY <1>7
  <2>2. u[2] \in m.readOnly[u[1]]
    BY <2>1 DEF Sound, Guarded
  <2>3. u[1] # s /\ u[1] \in Programs
    BY <1>5, UserIs, FreeIsNoPage
  <2> QED
    BY <2>2, <2>3, <1>6 DEF Programs
<1>14. Mapped(r.table[s]) = {} /\ Vacant(r, s)
  BY <1>5, <1>6 DEF Mapped, Vacant
<1>15. Shaped(r)
  <2>1. Closed(r.table[s]) /\ r.readOnly[s] \subseteq Mapped(r.table[s])
    BY <1>6, <1>14 DEF Closed
  <2> QED
    BY <2>1, <1>5, <1>6 DEF Sound, Shaped, Programs
<1>16. Rooted(r)
  BY <1>0, <1>5, <1>6, Constants DEF Sound, Rooted
<1>17. \A t \in Spaces \ {s} : \A e \in Entries : View(r, t, e) = View(m, t, e)
  BY <1>4, <1>5 DEF View
<1>18. \A e \in Entries : View(r, s, e) = Nothing
  BY <1>5 DEF View
<1> QED
  BY <1>5, <1>11, <1>12, <1>13, <1>14, <1>15, <1>16, <1>17, <1>18 DEF Sound

-----------------------------------------------------------------------------
(* Writing through an entry                                                *)

\* The page of a mapped entry of a program.
LEMMA PageIs ==
  ASSUME NEW m, Sound(m), NEW s \in Programs, NEW e \in Mapped(m.table[s])
  PROVE  /\ s \in Spaces /\ s # Kernel /\ e \in Entries /\ <<s, e>> \in Places
         /\ m.table[s][e] \in Pages /\ m.table[s][e] \notin KernelPages
         /\ <<s, e>> \in UsersIn(m, m.table[s][e])
         /\ m.pageMap[m.table[s][e]] = Cardinality(UsersIn(m, m.table[s][e]))
         /\ m.pageMap[m.table[s][e]] \in Nat \ {0}
<1> DEFINE p == m.table[s][e]
<1>1. s \in Spaces /\ s # Kernel /\ e \in Entries /\ <<s, e>> \in Places
  BY DEF Programs, Mapped, Places
<1>2. p \in Pages
  BY <1>1 DEF Sound, Memories, Mapped
<1>3. <<s, e>> \in UsersIn(m, p)
  BY <1>1, UserIs
<1>4. p \notin KernelPages /\ m.pageMap[p] = Cardinality(UsersIn(m, p))
  BY <1>2, <1>3 DEF Sound, Counted
<1>5. p \notin FreePages(m)
  BY <1>2, <1>3, FreeOrUsed DEF Sound
<1>6. m.pageMap[p] \in Nat \ {0}
  BY <1>2, <1>5 DEF Sound, Memories, FreePages
<1> QED
  BY <1>1, <1>2, <1>3, <1>4, <1>6

\* A page with two users leaves a free page to copy it to.
LEMMA CopyFits ==
  ASSUME NEW m, Sound(m), NEW s \in Programs, NEW e \in Mapped(m.table[s]),
         m.pageMap[m.table[s][e]] > 1
  PROVE  FreePages(m) # {}
<1>0. m.pageMap[m.table[s][e]] = Cardinality(UsersIn(m, m.table[s][e]))
  <2>1. PICK q : q = m.table[s][e]
    OBVIOUS
  <2>2. q \in Pages /\ q \notin KernelPages
    BY <2>1, PageIs
  <2>3. Counted(m)
    BY DEF Sound
  <2> QED
    BY <2>1, <2>2, <2>3 DEF Counted
<1> DEFINE p == m.table[s][e]
           U == {<<s, e>>}
<1>1. \E w \in Places \ U : PageAt(m, w) = p
  <2>1. UsersIn(m, p) # U
    <3>1. Cardinality(U) = 1
      BY FS_Singleton
    <3>2. m.pageMap[p] = Cardinality(UsersIn(m, p))
      BY <1>0
    <3>3. m.pageMap[p] # 1
      <4>1. \A k : k > 1 /\ k = 1 => FALSE
        OBVIOUS
      <4> QED
        BY <4>1
    <3> QED
      BY <3>1, <3>2, <3>3
  <2>2. PICK w \in UsersIn(m, p) : w # <<s, e>>
    BY <2>1, PageIs
  <2> QED
    BY <2>2, UserIs DEF Places, PageAt
<1>2. \A u \in U : \E w \in Places \ U : PageAt(m, w) = PageAt(m, u)
  BY <1>1 DEF PageAt
<1>3. U \in SUBSET Places
  BY PageIs
<1> HIDE DEF U
<1>4. Cardinality(U) <= Cardinality(FreePages(m)) /\ Cardinality(FreePages(m)) \in Nat
  BY <1>2, <1>3, PagesEnough DEF Sound
<1>5. Cardinality(U) = 1
  BY FS_Singleton DEF U
<1>6. Cardinality({}) = 0
  BY FS_EmptySet
<1> QED
  BY <1>4, <1>5, <1>6

\* check_and_fix_page makes an entry writable, its page the entry's own, and
\* changes nothing anyone sees.
LEMMA FixSound ==
  ASSUME NEW m, Sound(m), NEW s \in Programs, NEW e \in Mapped(m.table[s]),
         NEW f, f = check_and_fix_page(m, s, e)
  PROVE  /\ Sound(f) /\ e \notin f.readOnly[s]
         /\ \A t \in Spaces : /\ Mapped(f.table[t]) = Mapped(m.table[t])
                              /\ \A x \in Entries : View(f, t, x) = View(m, t, x)
<1> DEFINE src == m.table[s][e]
           left == [m EXCEPT !.pageMap[src] = @ - 1]
           target == mmu_get_free_page(left)
           fixed == [m EXCEPT !.readOnly[s] = @ \ {e}]
<1>0. m \in Memories /\ s \in Spaces /\ s # Kernel /\ e \in Entries /\ src \in Pages
      /\ src \notin KernelPages /\ <<s, e>> \in UsersIn(m, src)
      /\ m.pageMap[src] = Cardinality(UsersIn(m, src)) /\ m.pageMap[src] \in Nat \ {0}
  BY PageIs DEF Sound
<1>1. CASE e \notin m.readOnly[s]
  <2>1. f = m
    BY <1>1 DEF check_and_fix_page
  <2> QED
    BY <1>1, <2>1
<1>2. CASE e \in m.readOnly[s] /\ m.pageMap[src] <= 1
  <2>1. f = fixed
    BY <1>2 DEF check_and_fix_page
  <2>2. /\ f.pageMap = m.pageMap /\ f.table = m.table /\ f.mem = m.mem
        /\ f.readOnly = [m.readOnly EXCEPT ![s] = @ \ {e}]
        /\ f = [pageMap |-> f.pageMap, table |-> f.table, readOnly |-> f.readOnly, mem |-> f.mem]
    BY <2>1, <1>0 DEF Memories
  <2>3. /\ f.readOnly \in [Spaces -> SUBSET Entries]
        /\ f.readOnly[s] = m.readOnly[s] \ {e}
        /\ \A t \in Spaces \ {s} : f.readOnly[t] = m.readOnly[t]
    BY <2>2, <1>0 DEF Memories
  <2>4. f \in Memories
    BY <2>2, <2>3, <1>0 DEF Memories
  <2>5. \A q : UsersIn(f, q) = UsersIn(m, q)
    BY <2>2 DEF UsersIn
  <2>6. Counted(f)
    BY <2>2, <2>5 DEF Sound, Counted
  <2>7. UsersIn(m, src) = {<<s, e>>}
    <3>1. Cardinality(UsersIn(m, src)) = 1
      BY <1>0, <1>2
    <3>2. IsFiniteSet(UsersIn(m, src))
      BY <1>0, FreeOrUsed DEF Sound
    <3>3. \E x : UsersIn(m, src) = {x}
      BY <3>1, <3>2, FS_Singleton
    <3> QED
      BY <3>3, <1>0
  <2>8. Guarded(f)
    <3> SUFFICES ASSUME NEW q \in Pages, NEW u \in UsersIn(m, q), NEW w \in UsersIn(m, q), u # w
                 PROVE  u[2] \in f.readOnly[u[1]]
      BY <2>5 DEF Guarded
    <3>1. u[2] \in m.readOnly[u[1]] /\ u[1] \in Programs /\ u = <<u[1], u[2]>>
          /\ m.table[u[1]][u[2]] = q
      BY UserIs DEF Sound, Guarded
    <3>2. ~(u[1] = s /\ u[2] = e)
      BY <3>1, <2>7
    <3> QED
      BY <3>1, <3>2, <2>3 DEF Programs
  <2>9. Shaped(f)
    BY <2>2, <2>3 DEF Sound, Shaped, Programs
  <2>10. Rooted(f)
    BY <2>2, <2>3, <1>0, Constants DEF Sound, Rooted
  <2>11. \A t \in Spaces, x \in Entries : View(f, t, x) = View(m, t, x)
    BY <2>2 DEF View
  <2> QED
    BY <2>2, <2>3, <2>4, <2>6, <2>8, <2>9, <2>10, <2>11 DEF Sound
<1>3. CASE e \in m.readOnly[s] /\ m.pageMap[src] > 1
  <2>1. f = [fixed EXCEPT !.pageMap[src] = @ - 1, !.pageMap[target] = 1,
                          !.table[s][e] = target, !.mem[target] = m.mem[src]]
    <3>1. ~(m.pageMap[src] <= 1)
      BY <1>0, <1>3
    <3> QED
      BY <3>1, <1>3 DEF check_and_fix_page
  <2>2. target \in FreePages(m)
    <3>1. FreePages(left) = FreePages(m)
      BY <1>0, <1>3 DEF FreePages, Memories
    <3>2. FreePages(left) # {}
      BY <3>1, <1>3, CopyFits
    <3> HIDE DEF left
    <3> QED
      BY <3>1, <3>2, GetFreeIs
  <2>3. /\ target \in Pages /\ m.pageMap[target] = 0 /\ target # src
        /\ target \notin KernelPages /\ UsersIn(m, target) = {}
    BY <2>2, <1>0, FreeOrUsed DEF FreePages, Sound
  <2> HIDE DEF target
  <2>4. /\ f.pageMap = [m.pageMap EXCEPT ![src] = m.pageMap[src] - 1, ![target] = 1]
        /\ f.table = [m.table EXCEPT ![s] = [m.table[s] EXCEPT ![e] = target]]
        /\ f.readOnly = [m.readOnly EXCEPT ![s] = @ \ {e}]
        /\ f.mem = [m.mem EXCEPT ![target] = m.mem[src]]
        /\ f = [pageMap |-> f.pageMap, table |-> f.table, readOnly |-> f.readOnly, mem |-> f.mem]
    BY <2>1, <1>0 DEF Memories
  <2>5. /\ f.readOnly \in [Spaces -> SUBSET Entries]
        /\ f.readOnly[s] = m.readOnly[s] \ {e}
        /\ \A t \in Spaces \ {s} : f.readOnly[t] = m.readOnly[t]
    BY <2>4, <1>0 DEF Memories
  <2>6. /\ f.table \in [Spaces -> [Entries -> Pages \cup {FREE_PAGE_MARK}]]
        /\ \A t \in Spaces, x \in Entries :
             f.table[t][x] = IF t = s /\ x = e THEN target ELSE m.table[t][x]
        /\ \A t \in Spaces \ {s} : f.table[t] = m.table[t]
    <3>1. m.table \in [Spaces -> [Entries -> Pages \cup {FREE_PAGE_MARK}]]
      BY <1>0 DEF Memories
    <3>2. f.table = [m.table EXCEPT ![s] = [m.table[s] EXCEPT ![e] = target]]
      BY <2>4
    <3>3. target \in Pages
      BY <2>3
    <3>4. s \in Spaces /\ e \in Entries
      BY <1>0
    <3> QED
      BY <3>1, <3>2, <3>3, <3>4
  <2>7. /\ f.pageMap \in [Pages -> Nat]
        /\ f.pageMap[src] = m.pageMap[src] - 1 /\ f.pageMap[target] = 1
        /\ \A q \in Pages \ {src, target} : f.pageMap[q] = m.pageMap[q]
    <3>1. m.pageMap \in [Pages -> Nat] /\ m.pageMap[src] - 1 \in Nat
      BY <1>0 DEF Memories
    <3>2. f.pageMap = [m.pageMap EXCEPT ![src] = m.pageMap[src] - 1, ![target] = 1]
      BY <2>4
    <3>3. src \in Pages /\ target \in Pages /\ target # src
      BY <1>0, <2>3
    <3> HIDE DEF src
    <3>4. PICK M, c : M = m.pageMap /\ c = m.pageMap[src] - 1
      OBVIOUS
    <3>5. M \in [Pages -> Nat] /\ c \in Nat /\ f.pageMap = [M EXCEPT ![src] = c, ![target] = 1]
      BY <3>1, <3>2, <3>4
    <3> QED
      BY <3>3, <3>4, <3>5
  <2>8. /\ f.mem \in [Pages -> Values] /\ f.mem[target] = m.mem[src]
        /\ \A q \in Pages \ {target} : f.mem[q] = m.mem[q]
    <3>1. m.mem \in [Pages -> Values]
      BY <1>0 DEF Memories
    <3> QED
      BY <3>1, <2>3, <2>4, <1>0
  <2>9. f \in Memories
    BY <2>4, <2>5, <2>6, <2>7, <2>8 DEF Memories
  <2>10. /\ UsersIn(f, src) = UsersIn(m, src) \ {<<s, e>>}
         /\ UsersIn(f, target) = {<<s, e>>}
         /\ \A q \in Pages \ {src, target} : UsersIn(f, q) = UsersIn(m, q)
    <3>1. \A t \in Programs, x \in Entries : m.table[t][x] # target
      BY <2>3, UserIs
    <3>2. \A q, t, x : t \in Programs /\ x \in Entries =>
            (<<t, x>> \in UsersIn(f, q) <=>
               IF t = s /\ x = e THEN target = q ELSE <<t, x>> \in UsersIn(m, q))
      BY <2>6, UserIs DEF Programs
    <3>3. UsersIn(f, src) = UsersIn(m, src) \ {<<s, e>>}
      BY <3>2, <2>3, <1>0, UserIs
    <3>4. UsersIn(f, target) = {<<s, e>>}
      <4>1. \A u \in UsersIn(f, target) : u = <<s, e>>
        BY <3>2, <2>3, UserIs
      <4>2. <<s, e>> \in UsersIn(f, target)
        BY <3>2, <1>0
      <4> QED
        BY <4>1, <4>2
    <3>5. ASSUME NEW q \in Pages \ {src, target} PROVE UsersIn(f, q) = UsersIn(m, q)
      <4>1. <<s, e>> \notin UsersIn(m, q)
        BY <3>5, <1>0, UserIs
      <4>2. \A t \in Programs, x \in Entries :
              <<t, x>> \in UsersIn(f, q) <=> <<t, x>> \in UsersIn(m, q)
        BY <3>2, <4>1, <3>5
      <4>3. \A n : UsersIn(n, q) \subseteq Programs \X Entries
        BY UserIs
      <4> QED
        BY <4>2, <4>3
    <3> QED
      BY <3>3, <3>4, <3>5
  <2>11. Counted(f)
    <3> SUFFICES ASSUME NEW q \in Pages
                 PROVE  IF q \in KernelPages THEN f.pageMap[q] = 1 /\ UsersIn(f, q) = {}
                        ELSE f.pageMap[q] = Cardinality(UsersIn(f, q))
      BY DEF Counted
    <3>1. CASE q = src
      <4>1. IsFiniteSet(UsersIn(m, src))
        BY <1>0, FreeOrUsed DEF Sound
      <4>2. Cardinality(UsersIn(m, src) \ {<<s, e>>}) = Cardinality(UsersIn(m, src)) - 1
        BY <4>1, <1>0, FS_RemoveElement
      <4> QED
        BY <3>1, <4>2, <2>7, <2>10, <1>0
    <3>2. CASE q = target
      <4>1. Cardinality({<<s, e>>}) = 1
        BY FS_Singleton
      <4> QED
        BY <4>1, <3>2, <2>3, <2>7, <2>10
    <3>3. CASE q \notin {src, target}
      BY <3>3, <2>7, <2>10 DEF Sound, Counted
    <3> QED
      BY <3>1, <3>2, <3>3
  <2>12. Guarded(f)
    <3> SUFFICES ASSUME NEW q \in Pages, NEW u \in UsersIn(f, q), NEW w \in UsersIn(f, q), u # w
                 PROVE  u[2] \in f.readOnly[u[1]]
      BY DEF Guarded
    <3>1. q # target
      BY <2>10
    <3>2. u \in UsersIn(m, q) /\ w \in UsersIn(m, q) /\ u # <<s, e>>
      <4>1. CASE q = src
        BY <4>1, <2>10
      <4>2. CASE q # src
        <5>1. u \in UsersIn(m, q) /\ w \in UsersIn(m, q)
          BY <3>1, <4>2, <2>10
        <5> QED
          BY <5>1, <4>2, UserIs
      <4> QED
        BY <4>1, <4>2
    <3>3. u[2] \in m.readOnly[u[1]] /\ u[1] \in Programs /\ u = <<u[1], u[2]>>
      BY <3>2, UserIs DEF Sound, Guarded
    <3>4. ~(u[1] = s /\ u[2] = e)
      BY <3>2, <3>3
    <3> QED
      BY <3>3, <3>4, <2>5 DEF Programs
  <2>13. \A t \in Spaces : Mapped(f.table[t]) = Mapped(m.table[t])
    <3>1. target # FREE_PAGE_MARK /\ m.table[s][e] # FREE_PAGE_MARK
      BY <2>3, <1>0, FreeIsNoPage
    <3> QED
      BY <3>1, <2>6 DEF Mapped
  <2>14. Shaped(f)
    <3> SUFFICES ASSUME NEW t \in Programs
                 PROVE  Closed(f.table[t]) /\ f.readOnly[t] \subseteq Mapped(f.table[t])
      BY DEF Shaped
    <3>1. t \in Spaces /\ Closed(m.table[t]) /\ m.readOnly[t] \subseteq Mapped(m.table[t])
      BY DEF Sound, Shaped, Programs
    <3>2. Closed(f.table[t])
      <4> SUFFICES ASSUME NEW x \in Mapped(f.table[t]), NEW j \in 0 .. x[2]
                   PROVE  <<x[1], j>> \in Mapped(f.table[t])
        BY DEF Closed, Mapped
      <4>1. x \in Mapped(m.table[t]) /\ x \in Entries
        BY <3>1, <2>13 DEF Mapped
      <4>2. <<x[1], j>> \in Mapped(m.table[t])
        BY <4>1, <3>1, EntryIs DEF Closed, Mapped
      <4> QED
        BY <4>2, <3>1, <2>13
    <3>3. f.readOnly[t] \subseteq m.readOnly[t]
      BY <3>1, <2>5
    <3> QED
      BY <3>1, <3>2, <3>3, <2>13
  <2>15. Rooted(f)
    BY <2>5, <2>6, <1>0, Constants DEF Sound, Rooted
  <2>16. ASSUME NEW t \in Spaces, NEW x \in Entries PROVE View(f, t, x) = View(m, t, x)
    <3>1. CASE t = s /\ x = e
      BY <3>1, <2>3, <2>6, <2>8, <1>0, FreeIsNoPage DEF View
    <3>2. CASE ~(t = s /\ x = e)
      <4>1. f.table[t][x] = m.table[t][x]
        BY <3>2, <2>6
      <4>2. m.table[t][x] # target
        <5>1. CASE t = Kernel
          BY <5>1, <2>3, UserIs, FreeIsNoPage DEF Sound
        <5>2. CASE t # Kernel
          BY <5>2, <2>3, UserIs DEF Programs
        <5> QED
          BY <5>1, <5>2
      <4>3. m.table[t][x] \in Pages \cup {FREE_PAGE_MARK}
        BY <1>0 DEF Memories
      <4> QED
        BY <4>1, <4>2, <4>3, <2>8 DEF View
    <3> QED
      BY <3>1, <3>2
  <2>17. e \notin f.readOnly[s]
    BY <2>5
  <2>18. Sound(f)
    BY <2>9, <2>11, <2>12, <2>14, <2>15 DEF Sound
  <2> QED
    BY <2>13, <2>16, <2>17, <2>18
<1>4. m.pageMap[src] <= 1 \/ m.pageMap[src] > 1
  BY <1>0
<1> QED
  BY <1>1, <1>2, <1>3, <1>4

\* A write through a writable entry is seen through that entry only.
LEMMA WriteSound ==
  ASSUME NEW m, Sound(m), NEW s \in Programs, NEW e \in Mapped(m.table[s]),
         e \notin m.readOnly[s], NEW v \in Values,
         NEW r, r = [m EXCEPT !.mem[m.table[s][e]] = v]
  PROVE  /\ Sound(r)
         /\ \A t \in Spaces : /\ Mapped(r.table[t]) = Mapped(m.table[t])
                              /\ \A x \in Entries :
                                   View(r, t, x) = IF t = s /\ x = e THEN v ELSE View(m, t, x)
<1> DEFINE p == m.table[s][e]
<1>0. m \in Memories /\ s \in Spaces /\ e \in Entries /\ p \in Pages /\ p \notin KernelPages
      /\ <<s, e>> \in UsersIn(m, p)
  BY PageIs DEF Sound
<1>1. /\ r.pageMap = m.pageMap /\ r.table = m.table /\ r.readOnly = m.readOnly
      /\ r.mem = [m.mem EXCEPT ![p] = v]
      /\ r = [pageMap |-> r.pageMap, table |-> r.table, readOnly |-> r.readOnly, mem |-> r.mem]
  BY <1>0 DEF Memories
<1>2. r.mem \in [Pages -> Values] /\ r.mem[p] = v /\ \A q \in Pages \ {p} : r.mem[q] = m.mem[q]
  <2>1. m.mem \in [Pages -> Values]
    BY <1>0 DEF Memories
  <2> QED
    BY <2>1, <1>0, <1>1
<1>3. r \in Memories
  BY <1>0, <1>1, <1>2 DEF Memories
<1>4. \A q : UsersIn(r, q) = UsersIn(m, q)
  BY <1>1 DEF UsersIn
<1>5. Counted(r) /\ Guarded(r) /\ Shaped(r) /\ Rooted(r)
  BY <1>1, <1>4 DEF Sound, Counted, Guarded, Shaped, Rooted
<1>6. ASSUME NEW t \in Spaces, NEW x \in Entries, ~(t = s /\ x = e)
      PROVE  m.table[t][x] # p
  <2>1. CASE t = Kernel
    BY <2>1, <1>0, UserIs, FreeIsNoPage DEF Sound
  <2>2. CASE t # Kernel
    <3> SUFFICES ASSUME m.table[t][x] = p PROVE FALSE
      OBVIOUS
    <3>1. <<t, x>> \in UsersIn(m, p) /\ <<t, x>> # <<s, e>>
      BY <2>2, <1>6, UserIs DEF Programs
    <3>2. \A u, w \in UsersIn(m, p) : u # w => u[2] \in m.readOnly[u[1]]
      BY <1>0 DEF Sound, Guarded
    <3>3. <<s, e>>[2] \in m.readOnly[<<s, e>>[1]]
      BY <3>1, <3>2, <1>0
    <3> QED
      BY <3>3
  <2> QED
    BY <2>1, <2>2
<1>7. ASSUME NEW t \in Spaces, NEW x \in Entries
      PROVE  View(r, t, x) = IF t = s /\ x = e THEN v ELSE View(m, t, x)
  <2>1. m.table[t][x] \in Pages \cup {FREE_PAGE_MARK}
    BY <1>0 DEF Memories
  <2> QED
    BY <2>1, <1>0, <1>1, <1>2, <1>6, FreeIsNoPage DEF View
<1> QED
  BY <1>1, <1>3, <1>5, <1>7 DEF Sound

\* So is a write of the kernel, through any entry that is mapped.
LEMMA PutSound ==
  ASSUME NEW m, Sound(m), NEW s \in Programs, NEW e \in Mapped(m.table[s]),
         NEW v \in Values, NEW r, r = PutPage(m, s, e, v)
  PROVE  /\ Sound(r)
         /\ \A t \in Spaces : /\ Mapped(r.table[t]) = Mapped(m.table[t])
                              /\ \A x \in Entries :
                                   View(r, t, x) = IF t = s /\ x = e THEN v ELSE View(m, t, x)
<1> DEFINE f == check_and_fix_page(m, s, e)
<1>1. /\ Sound(f) /\ e \notin f.readOnly[s]
      /\ \A t \in Spaces : /\ Mapped(f.table[t]) = Mapped(m.table[t])
                           /\ \A x \in Entries : View(f, t, x) = View(m, t, x)
  BY FixSound
<1>2. s \in Spaces /\ e \in Mapped(f.table[s])
  BY <1>1 DEF Programs
<1>3. r = [f EXCEPT !.mem[f.table[s][e]] = v]
  BY DEF PutPage
<1> HIDE DEF f
<1>4. /\ Sound(r)
      /\ \A t \in Spaces : /\ Mapped(r.table[t]) = Mapped(f.table[t])
                           /\ \A x \in Entries :
                                View(r, t, x) = IF t = s /\ x = e THEN v ELSE View(f, t, x)
  BY <1>1, <1>2, <1>3, WriteSound
<1> QED
  BY <1>1, <1>4

\* And of one or two entries that follow each other in the data segment.
LEMMA uputsSound ==
  ASSUME NEW m, Sound(m), NEW s \in Programs, DataEntries \subseteq Mapped(m.table[s]),
         NEW i \in 0 .. NDATA_PAGES - 1, NEW two \in BOOLEAN, NEW v \in Values,
         NEW r, r = uputs(m, s, i, two, v)
  PROVE  /\ Sound(r)
         /\ \A t \in Spaces : Mapped(r.table[t]) = Mapped(m.table[t])
         /\ \A t \in Spaces \ {s} : \A x \in Entries : View(r, t, x) = View(m, t, x)
         /\ \A x \in Entries : View(r, s, x) \in {View(m, s, x), v}
<1> DEFINE j == (i + 1) % NDATA_PAGES
           first == PutPage(m, s, <<0, i>>, v)
<1>1. <<0, i>> \in DataEntries /\ <<0, j>> \in DataEntries
  <2>1. \A a \in Int, b \in Nat \ {0} : a % b \in 0 .. b - 1
    OBVIOUS
  <2>2. i + 1 \in Int /\ NDATA_PAGES \in Nat \ {0}
    BY Constants
  <2>3. j \in 0 .. NDATA_PAGES - 1
    BY <2>1, <2>2
  <2> HIDE DEF j
  <2> QED
    BY <2>3 DEF DataEntries
<1>2. s \in Spaces
  BY DEF Programs
<1>3. /\ Sound(first)
      /\ \A t \in Spaces : /\ Mapped(first.table[t]) = Mapped(m.table[t])
                           /\ \A x \in Entries :
                                View(first, t, x)
                                  = IF t = s /\ x = <<0, i>> THEN v ELSE View(m, t, x)
  <2>1. <<0, i>> \in Mapped(m.table[s]) /\ first = PutPage(m, s, <<0, i>>, v)
    BY <1>1
  <2> HIDE DEF first
  <2> QED
    BY <2>1, PutSound
<1>4. r = IF two THEN PutPage(first, s, <<0, j>>, v) ELSE first
  BY DEF uputs
<1> HIDE DEF j, first
<1>5. CASE two
  <2>1. r = PutPage(first, s, <<0, j>>, v)
    BY <1>4, <1>5
  <2>2. <<0, j>> \in Mapped(first.table[s])
    BY <1>1, <1>2, <1>3
  <2>3. /\ Sound(r)
        /\ \A t \in Spaces : /\ Mapped(r.table[t]) = Mapped(first.table[t])
                             /\ \A x \in Entries :
                                  View(r, t, x)
                                    = IF t = s /\ x = <<0, j>> THEN v ELSE View(first, t, x)
    BY <2>1, <2>2, <1>3, PutSound
  <2> QED
    BY <2>3, <1>2, <1>3
<1>6. CASE ~two
  BY <1>2, <1>3, <1>4, <1>6
<1> QED
  BY <1>5, <1>6

-----------------------------------------------------------------------------
(* Sharing pages                                                           *)

\* With copy on write the child maps every page of its parent, and sees what the
\* parent sees.
LEMMA ShareSound ==
  ASSUME NEW m, Sound(m), NEW p \in Programs, NEW n \in Programs, p # n, Vacant(m, n),
         NEW r, r = SharePages(m, p, n, Seen(m.table[p]))
  PROVE  /\ Sound(r)
         /\ \A t \in Spaces \ {n} : /\ r.table[t] = m.table[t]
                                    /\ \A x \in Entries : View(r, t, x) = View(m, t, x)
         /\ Mapped(r.table[n]) = Mapped(m.table[p])
         /\ \A x \in Entries : View(r, n, x) = View(m, p, x)
<1> DEFINE E == Mapped(m.table[p])
           shared == {m.table[p][e] : e \in E}
           uses(q) == Cardinality({e \in E : m.table[p][e] = q})
<1>0. m \in Memories /\ p \in Spaces /\ n \in Spaces /\ n # Kernel /\ p # Kernel /\ E \subseteq Entries
  BY DEF Sound, Programs, Mapped
<1>1. Seen(m.table[p]) = E
  BY SeenIs DEF Sound, Shaped
<1>2. r = [m EXCEPT
             !.pageMap = [q \in Pages |-> IF q \in shared THEN @[q] + uses(q) ELSE @[q]],
             !.table[n] = [e \in Entries |-> IF e \in E THEN m.table[p][e] ELSE @[e]],
             !.readOnly = [s \in Spaces |->
                             IF s \in {p, n} THEN m.readOnly[s] \cup E ELSE m.readOnly[s]]]
  BY <1>1 DEF SharePages
<1>3. \A q \in Pages : /\ {e \in E : m.table[p][e] = q} = Own(m, p, q)
                       /\ q \in shared <=> Own(m, p, q) # {}
  BY FreeIsNoPage DEF Own, Mapped
<1>4. \A e \in Entries : m.table[n][e] = FREE_PAGE_MARK
  BY DEF Vacant, Mapped
<1>5. /\ \A e \in E : m.table[p][e] \in Pages
      /\ \A e \in Entries \ E : m.table[p][e] = FREE_PAGE_MARK
  BY <1>0 DEF Memories, Mapped
<1> HIDE DEF E, shared
<1>6. /\ r.pageMap = [q \in Pages |-> IF q \in shared THEN m.pageMap[q] + uses(q) ELSE m.pageMap[q]]
      /\ r.table = [m.table EXCEPT ![n] = [e \in Entries |-> IF e \in E THEN m.table[p][e] ELSE @[e]]]
      /\ r.readOnly = [s \in Spaces |->
                         IF s \in {p, n} THEN m.readOnly[s] \cup E ELSE m.readOnly[s]]
      /\ r.mem = m.mem
      /\ r = [pageMap |-> r.pageMap, table |-> r.table, readOnly |-> r.readOnly, mem |-> r.mem]
  BY <1>0, <1>2 DEF Memories
<1>7. /\ r.table \in [Spaces -> [Entries -> Pages \cup {FREE_PAGE_MARK}]]
      /\ \A t \in Spaces \ {n} : r.table[t] = m.table[t]
      /\ \A e \in Entries : r.table[n][e] = m.table[p][e]
  <2>1. m.table \in [Spaces -> [Entries -> Pages \cup {FREE_PAGE_MARK}]]
    BY <1>0 DEF Memories
  <2> QED
    BY <2>1, <1>0, <1>4, <1>5, <1>6
<1>8. /\ r.readOnly \in [Spaces -> SUBSET Entries]
      /\ \A t \in Spaces \ {p, n} : r.readOnly[t] = m.readOnly[t]
      /\ r.readOnly[n] = E /\ r.readOnly[p] = m.readOnly[p] \cup E
      /\ \A t \in Spaces : m.readOnly[t] \subseteq r.readOnly[t]
  <2>1. m.readOnly[n] = {}
    BY DEF Vacant
  <2> QED
    BY <2>1, <1>0, <1>6 DEF Memories
<1>9. \A q \in Pages : UsersIn(r, q) = UsersIn(m, q) \cup ({n} \X Own(m, p, q))
  <2> SUFFICES ASSUME NEW q \in Pages
               PROVE  UsersIn(r, q) = UsersIn(m, q) \cup ({n} \X Own(m, p, q))
    OBVIOUS
  <2>1. \A t \in Programs, e \in Entries :
          r.table[t][e] = q <=> m.table[t][e] = q \/ (t = n /\ e \in Own(m, p, q))
    BY <1>4, <1>7, FreeIsNoPage DEF Own, Programs
  <2> QED
    BY <2>1 DEF UsersIn, Own
<1>10. \A q \in Pages : /\ Cardinality(UsersIn(r, q))
                            = Cardinality(UsersIn(m, q)) + Cardinality(Own(m, p, q))
                        /\ Cardinality(Own(m, p, q)) \in Nat
                        /\ Cardinality(UsersIn(m, q)) \in Nat
  <2> SUFFICES ASSUME NEW q \in Pages
               PROVE  /\ Cardinality(UsersIn(r, q))
                           = Cardinality(UsersIn(m, q)) + Cardinality(Own(m, p, q))
                      /\ Cardinality(Own(m, p, q)) \in Nat
                      /\ Cardinality(UsersIn(m, q)) \in Nat
    OBVIOUS
  <2> DEFINE A == UsersIn(m, q)
             B == {n} \X Own(m, p, q)
  <2>1. IsFiniteSet(A) /\ Cardinality(A) \in Nat
    BY FreeOrUsed DEF Sound
  <2>2. IsFiniteSet(B) /\ Cardinality(B) = Cardinality(Own(m, p, q)) /\ Cardinality(B) \in Nat
    BY PlacesOf DEF Own
  <2>3. A \cap B = {}
    BY <1>4, UserIs, FreeIsNoPage
  <2>4. UsersIn(r, q) = A \cup B
    BY <1>9
  <2> HIDE DEF A, B
  <2>5. Cardinality(A \cup B) = Cardinality(A) + Cardinality(B) - Cardinality(A \cap B)
    BY <2>1, <2>2, FS_Union
  <2>6. Cardinality(A \cap B) = 0
    BY <2>3, FS_EmptySet
  <2> QED
    BY <2>1, <2>2, <2>4, <2>5, <2>6 DEF A
<1>11. \A q \in Pages :
         /\ r.pageMap[q] \in Nat
         /\ IF q \in KernelPages THEN r.pageMap[q] = 1 /\ UsersIn(r, q) = {}
            ELSE r.pageMap[q] = Cardinality(UsersIn(r, q))
  <2> SUFFICES ASSUME NEW q \in Pages
               PROVE  /\ r.pageMap[q] \in Nat
                      /\ IF q \in KernelPages THEN r.pageMap[q] = 1 /\ UsersIn(r, q) = {}
                         ELSE r.pageMap[q] = Cardinality(UsersIn(r, q))
    OBVIOUS
  <2>0. /\ m.pageMap[q] \in Nat
        /\ IF q \in KernelPages THEN m.pageMap[q] = 1 /\ UsersIn(m, q) = {}
           ELSE m.pageMap[q] = Cardinality(UsersIn(m, q))
    BY <1>0 DEF Sound, Counted, Memories
  <2>1. CASE q \in shared
    <3>1. r.pageMap[q] = m.pageMap[q] + Cardinality(Own(m, p, q))
      BY <2>1, <1>3, <1>6
    <3>2. PICK e \in Own(m, p, q) : TRUE
      BY <2>1, <1>3
    <3>3. <<p, e>> \in UsersIn(m, q)
      BY <3>2, UserIs DEF Own
    <3>4. q \notin KernelPages
      BY <3>3, <2>0
    <3> QED
      BY <3>1, <3>4, <2>0, <1>10
  <2>2. CASE q \notin shared
    <3>1. r.pageMap[q] = m.pageMap[q]
      BY <2>2, <1>6
    <3>2. UsersIn(r, q) = UsersIn(m, q)
      BY <2>2, <1>3, <1>9
    <3> QED
      BY <3>1, <3>2, <2>0
  <2> QED
    BY <2>1, <2>2
<1>12. r \in Memories
  BY <1>0, <1>6, <1>7, <1>8, <1>11 DEF Memories
<1>13. Counted(r)
  BY <1>11 DEF Counted
<1>14. Guarded(r)
  <2> SUFFICES ASSUME NEW q \in Pages, NEW u \in UsersIn(r, q), NEW w \in UsersIn(r, q), u # w
               PROVE  u[2] \in r.readOnly[u[1]]
    BY DEF Guarded
  <2>0. /\ u = <<u[1], u[2]>> /\ u[1] \in Programs /\ u[1] \in Spaces /\ u[2] \in Entries
        /\ r.table[u[1]][u[2]] = q
    BY UserIs DEF Programs
  <2>1. CASE u[1] \in {p, n}
    <3>1. u[2] \in E
      BY <2>0, <2>1, <1>0, <1>5, <1>7, FreeIsNoPage
    <3> QED
      BY <2>1, <3>1, <1>8
  <2>2. CASE u[1] \notin {p, n}
    <3>1. u \in UsersIn(m, q)
      BY <2>0, <2>2, <1>9
    <3>2. \E x \in UsersIn(m, q) : x # u
      <4>1. CASE w \in UsersIn(m, q)
        BY <4>1
      <4>2. CASE w \notin UsersIn(m, q)
        <5>1. w \in {n} \X Own(m, p, q)
          BY <4>2, <1>9
        <5>2. <<p, w[2]>> \in UsersIn(m, q)
          BY <5>1, UserIs DEF Own
        <5>3. <<p, w[2]>> # u
          BY <2>0, <2>2
        <5> QED
          BY <5>2, <5>3
      <4> QED
        BY <4>1, <4>2
    <3>3. u[2] \in m.readOnly[u[1]]
      BY <3>1, <3>2 DEF Sound, Guarded
    <3> QED
      BY <2>0, <3>3, <1>8
  <2> QED
    BY <2>1, <2>2
<1>15. Mapped(r.table[n]) = E
  BY <1>7 DEF E, Mapped
<1>16. Shaped(r)
  <2>1. Closed(r.table[n])
    <3>1. Closed(m.table[p])
      BY DEF Sound, Shaped
    <3> SUFFICES ASSUME NEW x \in E, NEW j \in 0 .. x[2]
                 PROVE  r.table[n][<<x[1], j>>] # FREE_PAGE_MARK
      BY <1>15 DEF Closed
    <3>2. m.table[p][<<x[1], j>>] # FREE_PAGE_MARK
      BY <3>1 DEF Closed, E
    <3>3. <<x[1], j>> \in Entries
      BY <1>0, EntryIs
    <3> QED
      BY <3>2, <3>3, <1>7
  <2>2. r.readOnly[n] \subseteq Mapped(r.table[n])
    BY <1>8, <1>15
  <2>3. Closed(r.table[p]) /\ r.readOnly[p] \subseteq Mapped(r.table[p])
    BY <1>0, <1>7, <1>8 DEF Sound, Shaped, E
  <2> QED
    BY <2>1, <2>2, <2>3, <1>7, <1>8 DEF Sound, Shaped, Programs
<1>17. Rooted(r)
  BY <1>0, <1>7, <1>8, Constants DEF Sound, Rooted
<1>18. \A t \in Spaces \ {n} : \A x \in Entries : View(r, t, x) = View(m, t, x)
  BY <1>6, <1>7 DEF View
<1>19. \A x \in Entries : View(r, n, x) = View(m, p, x)
  BY <1>6, <1>7 DEF View
<1> QED
  BY <1>7, <1>12, <1>13, <1>14, <1>15, <1>16, <1>17, <1>18, <1>19 DEF Sound, E

-----------------------------------------------------------------------------
(* fork                                                                    *)

\* A program's child maps as much as its parent and sees the same, in either
\* build; what others see is left alone.
LEMMA ForkSound ==
  ASSUME NEW m, Sound(m), NEW p \in Programs, NEW n \in Programs, p # n, Vacant(m, n),
         NEW r, r = do_fork(m, p, n)
  PROVE  /\ Sound(r)
         /\ \A t \in Spaces \ {n} : /\ r.table[t] = m.table[t]
                                    /\ \A x \in Entries : View(r, t, x) = View(m, t, x)
         /\ Mapped(r.table[n]) = Mapped(m.table[p])
         /\ \A x \in Entries : View(r, n, x) = View(m, p, x)
<1>0. p \in Spaces /\ p # Kernel
  BY DEF Programs
<1>1. CASE cow
  <2>1. r = SharePages(m, p, n, Seen(m.table[p]))
    BY <1>0, <1>1 DEF do_fork
  <2> QED
    BY <2>1, ShareSound
<1>2. CASE ~cow
  <2>1. r = CopyPages(m, p, n, Seen(m.table[p]))
    BY <1>0, <1>2 DEF do_fork
  <2>2. Seen(m.table[p]) = Mapped(m.table[p])
    BY SeenIs DEF Sound, Shaped
  <2>3. PICK a \in 0 .. NCODE_PAGES : a = SegmentSize(m.table[p], 1)
    BY SeenIsBlock
  <2>4. PICK b \in 0 .. NDATA_PAGES : b = SegmentSize(m.table[p], 0)
    BY SeenIsBlock
  <2>5. /\ Mapped(m.table[p]) = Block(a, b)
        /\ \A e \in Entries : Before(m.table[p], e) = Position(a, e)
    BY <2>2, <2>3, <2>4, SeenIsBlock
  <2>6. r = CopyPages(m, p, n, Block(a, b)) /\ Block(a, b) \subseteq Mapped(m.table[p])
    BY <2>1, <2>2, <2>5
  <2>7. /\ Gives(m, r, n, a, b)
        /\ \A e \in Block(a, b) : r.mem[Grant(m, a, b)[e]] = View(m, p, e)
    BY <1>0, <2>5, <2>6, CopyGives
  <2>8. /\ Sound(r)
        /\ Mapped(r.table[n]) = Block(a, b)
        /\ \A s \in Spaces \ {n} : /\ r.table[s] = m.table[s]
                                   /\ \A e \in Entries : View(r, s, e) = View(m, s, e)
        /\ \A e \in Block(a, b) : View(r, n, e) = r.mem[Grant(m, a, b)[e]]
        /\ \A e \in Entries \ Block(a, b) : View(r, n, e) = Nothing
    BY <2>7, GivesSound
  <2>9. \A e \in Entries \ Block(a, b) : View(m, p, e) = Nothing
    BY <2>5 DEF View, Mapped
  <2> QED
    BY <2>5, <2>7, <2>8, <2>9
<1> QED
  BY <1>1, <1>2

\* The first program gets copies of a part of what the kernel maps.
LEMMA BootForkSound ==
  ASSUME NEW m, Sound(m), NEW n \in Programs, Vacant(m, n), NEW r, r = do_fork(m, Kernel, n)
  PROVE  /\ Sound(r)
         /\ \A t \in Spaces \ {n} : /\ r.table[t] = m.table[t]
                                    /\ \A x \in Entries : View(r, t, x) = View(m, t, x)
         /\ \A x \in Entries : View(r, n, x) \in {View(m, Kernel, x), Nothing}
<1> DEFINE tab == m.table[Kernel]
           E == {e \in Seen(tab) : e[1] = 1 \/ e[2] < WINDOW}
<1>0. Kernel \in Spaces /\ Kernel # n
  BY Constants DEF Programs
<1>1. r = CopyPages(m, Kernel, n, E)
  BY DEF do_fork
<1> HIDE DEF tab
<1>2. PICK a \in 0 .. NCODE_PAGES : a = SegmentSize(tab, 1)
  BY SeenIsBlock
<1>3. PICK c \in 0 .. NDATA_PAGES : c = SegmentSize(tab, 0)
  BY SeenIsBlock
<1>4. PICK b \in 0 .. NDATA_PAGES : b = IF c < WINDOW THEN c ELSE WINDOW
  BY Constants
<1>5. Seen(tab) = Block(a, c) /\ \A e \in Entries : Before(tab, e) = Position(a, e)
  BY <1>2, <1>3, SeenIsBlock
<1>6. E = Block(a, b)
  <2>1. \A e \in Entries : (e \in Block(a, c) /\ (e[1] = 1 \/ e[2] < WINDOW)) <=> e \in Block(a, b)
    <3> SUFFICES ASSUME NEW e \in Entries
                 PROVE  (e \in Block(a, c) /\ (e[1] = 1 \/ e[2] < WINDOW)) <=> e \in Block(a, b)
      OBVIOUS
    <3>1. e[2] \in Nat
      BY EntryIs
    <3> QED
      BY <3>1, <1>4, Constants DEF Block
  <2> QED
    BY <2>1, <1>5 DEF Block
<1>7. Block(a, b) \subseteq Mapped(m.table[Kernel])
  BY <1>6, SeenIs DEF tab
<1>8. \A e \in Entries : Before(m.table[Kernel], e) = Position(a, e)
  BY <1>5 DEF tab
<1> HIDE DEF E
<1>9. r = CopyPages(m, Kernel, n, Block(a, b))
  BY <1>1, <1>6
<1>10. /\ Gives(m, r, n, a, b)
       /\ \A e \in Block(a, b) : r.mem[Grant(m, a, b)[e]] = View(m, Kernel, e)
  BY <1>0, <1>7, <1>8, <1>9, CopyGives
<1>11. /\ Sound(r)
       /\ \A s \in Spaces \ {n} : /\ r.table[s] = m.table[s]
                                  /\ \A e \in Entries : View(r, s, e) = View(m, s, e)
       /\ \A e \in Block(a, b) : View(r, n, e) = r.mem[Grant(m, a, b)[e]]
       /\ \A e \in Entries \ Block(a, b) : View(r, n, e) = Nothing
  BY <1>10, GivesSound
<1> QED
  BY <1>10, <1>11

-----------------------------------------------------------------------------
(* The invariant                                                           *)

\* What the selectors in use and the start of pid 1 have to do with the tables.
Owned(m, S, b) ==
  /\ S \in SUBSET Spaces /\ Kernel \in S
  /\ b \in {"init", "construct", "up"}
  /\ \A s \in Programs \ S : Mapped(m.table[s]) = {}
  /\ b = "up" => \A s \in S \ {Kernel} : DataEntries \subseteq Mapped(m.table[s])
  /\ b = "init" => S = {Kernel}
  /\ b = "construct" => \A s, t \in S \ {Kernel} : s = t

\* Whatever is shared, the free pages are enough.
LEMMA SoundSuffices ==
  ASSUME Sound(Now)
  PROVE  PagesSuffice
<1> DEFINE inUse == {table[u[1]][u[2]] : u \in Places} \ {FREE_PAGE_MARK}
           W == UsedPages(Now)
<1>0. Now.table = table
  BY DEF Now
<1>1. inUse = W
  <2>1. ASSUME NEW u \in Places, table[u[1]][u[2]] # FREE_PAGE_MARK
        PROVE  table[u[1]][u[2]] \in W
    <3> DEFINE q == table[u[1]][u[2]]
    <3>1. u[1] \in Programs /\ u[1] \in Spaces /\ u[2] \in Entries /\ u = <<u[1], u[2]>>
      BY DEF Places, Programs
    <3>2. q \in Pages
      BY <2>1, <3>1, <1>0 DEF Sound, Memories
    <3>3. u \in UsersIn(Now, q)
      BY <3>1, <1>0, UserIs
    <3>4. q \notin KernelPages
      BY <3>2, <3>3 DEF Sound, Counted
    <3>5. q \notin FreePages(Now)
      BY <3>2, <3>3, FreeOrUsed DEF Sound
    <3> QED
      BY <3>2, <3>4, <3>5 DEF UsedPages
  <2>2. ASSUME NEW q \in W PROVE \E u \in Places : table[u[1]][u[2]] = q /\ q # FREE_PAGE_MARK
    <3>1. q \in Pages /\ UsersIn(Now, q) # {} /\ q # FREE_PAGE_MARK
      BY FreeOrUsed, FreeIsNoPage DEF UsedPages, Sound
    <3> QED
      BY <3>1, <1>0 DEF UsersIn, Places
  <2> QED
    BY <2>1, <2>2
<1>2. Cardinality(FreePages(Now)) + Cardinality(W) >= Cardinality(Places)
      /\ Cardinality(FreePages(Now)) \in Nat /\ Cardinality(W) \in Nat
  BY FreeAndUsed DEF Sound
<1>3. Cardinality(Places) \in Nat
  BY PlacesFit, FS_CardinalityType
<1>4. Cardinality(FreePages(Now)) >= Cardinality(Places) - Cardinality(inUse)
  <2> HIDE DEF W, inUse
  <2> QED
    BY <1>1, <1>2, <1>3
<1> QED
  BY <1>4 DEF PagesSuffice, Places, Programs

\* The invariant, by the parts the operations keep.
LEMMA InvIs == MemInv <=> Sound(Now) /\ Owned(Now, selectorMap, boot) /\ cow \in CowBuilds
<1>0. /\ Now.pageMap = pageMap /\ Now.table = table /\ Now.readOnly = readOnly /\ Now.mem = mem
      /\ Now = [pageMap |-> pageMap, table |-> table, readOnly |-> readOnly, mem |-> mem]
  BY DEF Now
<1>1. MemTypeOK <=> /\ Now \in Memories /\ selectorMap \in SUBSET Spaces
                    /\ boot \in {"init", "construct", "up"} /\ cow \in CowBuilds
  BY <1>0 DEF MemTypeOK, Memories
<1>2. \A p : Users(p) = UsersIn(Now, p)
  BY <1>0 DEF Users, UsersIn, Programs
<1>3. (CountsUsers <=> Counted(Now)) /\ (SharedIsReadOnly <=> Guarded(Now))
  BY <1>0, <1>2 DEF CountsUsers, Counted, SharedIsReadOnly, Guarded
<1>4. TablesSound <=> /\ Shaped(Now)
                      /\ \A s \in Programs : s \notin selectorMap => Mapped(table[s]) = {}
                      /\ \A s \in Programs : Running(s) => DataEntries \subseteq Mapped(table[s])
  <2>1. \A s \in Programs :
          /\ Closed(table[s]) <=> \A e \in Entries : table[s][e] # FREE_PAGE_MARK => e \in Seen(table[s])
          /\ Closed(table[s]) => Seen(table[s]) = Mapped(table[s])
    BY SeenIs
  <2>2. TablesSound <=>
          \A s \in Programs :
            /\ \A e \in Entries : table[s][e] # FREE_PAGE_MARK => e \in Seen(table[s])
            /\ readOnly[s] \subseteq Seen(table[s])
            /\ s \notin selectorMap => Seen(table[s]) = {}
            /\ Running(s) => DataEntries \subseteq Seen(table[s])
    BY DEF TablesSound, Programs
  <2>3. Shaped(Now) <=> \A s \in Programs : Closed(table[s]) /\ readOnly[s] \subseteq Mapped(table[s])
    BY <1>0 DEF Shaped
  <2> QED
    BY <2>1, <2>2, <2>3
<1>5. KernelKept <=> Kernel \in selectorMap /\ Rooted(Now)
  BY <1>0 DEF KernelKept, Rooted
<1>6. Sound(Now) => PagesSuffice
  BY SoundSuffices
<1>7. ASSUME MemInv PROVE Sound(Now) /\ Owned(Now, selectorMap, boot) /\ cow \in CowBuilds
  <2>1. Sound(Now)
    BY <1>1, <1>3, <1>4, <1>5, <1>7 DEF MemInv, Sound
  <2>2. boot = "up" => \A s \in selectorMap \ {Kernel} : DataEntries \subseteq Mapped(table[s])
    BY <1>1, <1>4, <1>7 DEF MemInv, Running, Programs
  <2> QED
    BY <2>1, <2>2, <1>0, <1>1, <1>4, <1>5, <1>7 DEF MemInv, Owned, BootAlone
<1>8. ASSUME Sound(Now), Owned(Now, selectorMap, boot), cow \in CowBuilds PROVE MemInv
  <2>1. \A s \in Programs : Running(s) => DataEntries \subseteq Mapped(table[s])
    BY <1>0, <1>8 DEF Owned, Running
  <2>2. \A s \in Programs : s \notin selectorMap => Mapped(table[s]) = {}
    BY <1>0, <1>8 DEF Owned
  <2>3. MemTypeOK /\ CountsUsers /\ SharedIsReadOnly /\ TablesSound /\ KernelKept
    BY <1>1, <1>3, <1>4, <1>5, <1>8, <2>1, <2>2 DEF Sound, Owned
  <2>4. BootAlone
    BY <1>8 DEF Owned, BootAlone
  <2> QED
    BY <2>3, <2>4, <1>6, <1>8 DEF MemInv
<1> QED
  BY <1>7, <1>8

\* The same of the next state.
LEMMA InvIsNext ==
  MemInv' <=> Sound(Now)' /\ Owned(Now, selectorMap, boot)' /\ (cow \in CowBuilds)'
<1>1. (MemInv <=> Sound(Now) /\ Owned(Now, selectorMap, boot) /\ cow \in CowBuilds)'
  BY InvIs, PTL
<1> QED
  BY <1>1

-----------------------------------------------------------------------------
(* Steps                                                                   *)

\* What programs see, by the refinement mapping.
Content == [s \in Spaces |-> [e \in Entries |-> ugets(s, e)]]

\* A handler that becomes r leaves what the record says.
LEMMA BecomeIs ==
  ASSUME NEW r, Sound(r), Become(r)
  PROVE  /\ Now' = r /\ Sound(Now)' /\ (cow \in CowBuilds => (cow \in CowBuilds)')
         /\ \A S, b : Owned(r, S, b) /\ selectorMap' = S /\ boot' = b
                        => Owned(Now, selectorMap, boot)'
<1>1. r = [pageMap |-> r.pageMap, table |-> r.table, readOnly |-> r.readOnly, mem |-> r.mem]
  BY DEF Sound, Memories
<1>2. Now' = r
  BY <1>1 DEF Become, Now
<1>3. cow' = cow
  BY DEF Become
<1>4. CowBuilds' = CowBuilds
  OBVIOUS
<1> QED
  BY <1>2, <1>3

\* The mapping shows the views of the record.
LEMMA ContentIs == Content = ViewAll(Now) /\ Content' = ViewAll(Now')
<1>1. Content = ViewAll(Now)
  BY DEF Content, ViewAll, View, Now, ugets
<1>2. Content' = ViewAll(Now')
  BY DEF Content, ViewAll, View, Now, ugets
<1> QED
  BY <1>1, <1>2

\* Contents of a sound record.
LEMMA ImagesAre ==
  ASSUME NEW m, Sound(m)
  PROVE  ViewAll(m) \in [Spaces -> [Entries -> Values \cup {Nothing}]]
<1>1. \A s \in Spaces, e \in Entries : View(m, s, e) \in Values \cup {Nothing}
  BY DEF Sound, Memories, View
<1> QED
  BY <1>1 DEF ViewAll

\* What the contents of a space show.
LEMMA ViewAt ==
  ASSUME NEW m, NEW s \in Spaces
  PROVE  /\ ViewAll(m)[s] = [e \in Entries |-> View(m, s, e)]
         /\ \A e \in Entries : ViewAll(m)[s][e] = View(m, s, e)
  BY DEF ViewAll

\* Two spaces with the same views hold the same.
LEMMA ViewsAgree ==
  ASSUME NEW m, NEW r, NEW s \in Spaces, NEW t \in Spaces,
         \A e \in Entries : View(r, s, e) = View(m, t, e)
  PROVE  ViewAll(r)[s] = ViewAll(m)[t]
<1>1. [e \in Entries |-> View(r, s, e)] = [e \in Entries |-> View(m, t, e)]
  OBVIOUS
<1>2. ViewAll(r)[s] = [e \in Entries |-> View(r, s, e)]
  BY ViewAt
<1>3. ViewAll(m)[t] = [e \in Entries |-> View(m, t, e)]
  BY ViewAt
<1> QED
  BY <1>1, <1>2, <1>3

\* A step that is only seen in the spaces of S.
LEMMA OnlyIs ==
  ASSUME NEW m, NEW r, Now = m, Now' = r, Sound(r), NEW S,
         \A t \in Spaces \ S : \A x \in Entries : View(r, t, x) = View(m, t, x)
  PROVE  Private!Only(S)
<1>1. Content' \in [Spaces -> [Entries -> Values \cup {Nothing}]]
  BY ContentIs, ImagesAre
<1>2. \A t \in Spaces \ S : Content'[t] = Content[t]
  <2>1. \A t \in Spaces \ S : ViewAll(r)[t] = ViewAll(m)[t]
    BY ViewsAgree
  <2> QED
    BY <2>1, ContentIs
<1> QED
  BY <1>1, <1>2 DEF Private!Only, Private!Images, Content

\* A step in which space s sees one new value at some of its places.
LEMMA WrittenIs ==
  ASSUME NEW m, NEW r, Now = m, Now' = r, NEW s \in Spaces, NEW v \in Values,
         \A x \in Entries : View(r, s, x) \in {View(m, s, x), v}
  PROVE  Private!Written(s)
<1>1. \A x \in Entries : Content'[s][x] \in {Content[s][x], v}
  <2>1. \A x \in Entries : ViewAll(r)[s][x] = View(r, s, x) /\ ViewAll(m)[s][x] = View(m, s, x)
    BY ViewAt
  <2> QED
    BY <2>1, ContentIs
<1> QED
  BY <1>1 DEF Private!Written, Content

\* The selector a fork gets is a program's and has nothing mapped.
LEMMA FreeSelectorIs ==
  ASSUME MemInv, selectorMap # Spaces, NEW n, n = mmu_get_free_selector
  PROVE  n \in Programs /\ n \notin selectorMap /\ Vacant(Now, n)
<1>1. Owned(Now, selectorMap, boot) /\ Sound(Now)
  BY InvIs
<1>2. Spaces \ selectorMap \in SUBSET Nat /\ Spaces \ selectorMap # {}
  <2>1. selectorMap \in SUBSET Spaces
    BY <1>1 DEF Owned
  <2>2. Spaces \subseteq Nat
    BY Constants DEF Spaces
  <2> QED
    BY <2>1, <2>2
<1>3. n \in Spaces \ selectorMap
  BY <1>2, LowestIsLeast DEF mmu_get_free_selector
<1>4. n \in Programs
  BY <1>1, <1>3 DEF Owned, Programs
<1>5. Mapped(Now.table[n]) = {}
  BY <1>1, <1>3, <1>4 DEF Owned
<1>6. Now.readOnly[n] = {}
  BY <1>1, <1>4, <1>5 DEF Sound, Shaped
<1> QED
  BY <1>3, <1>4, <1>5, <1>6 DEF Vacant

\* What a step must do: keep the invariant, and be a step of PrivateMemory or
\* none that programs see.
Allowed == MemInv' /\ [Private!PNext]_(Private!pvars)

\* The space variables of the abstract specification.
LEMMA AbstractVars == Private!pvars = <<selectorMap, Content>>
  BY DEF Private!pvars, Content

LEMMA BootForkAllowed ==
  ASSUME MemInv, BootFork
  PROVE  Allowed
<1> DEFINE n == mmu_get_free_selector
           r == do_fork(Now, Kernel, n)
<1>1. Sound(Now) /\ Owned(Now, selectorMap, boot) /\ cow \in CowBuilds
  BY InvIs
<1>2. boot = "init" /\ boot' = "construct" /\ selectorMap' = selectorMap \cup {n} /\ Become(r)
  BY DEF BootFork
<1>3. selectorMap = {Kernel} /\ selectorMap # Spaces
  <2>1. 1 \in Spaces /\ 1 # Kernel
    BY Constants DEF Spaces, Kernel
  <2> QED
    BY <2>1, <1>1, <1>2 DEF Owned
<1>4. n \in Programs /\ n \notin selectorMap /\ Vacant(Now, n)
  BY <1>3, FreeSelectorIs
<1>5. /\ Sound(r)
      /\ \A t \in Spaces \ {n} : /\ r.table[t] = Now.table[t]
                                 /\ \A x \in Entries : View(r, t, x) = View(Now, t, x)
      /\ \A x \in Entries : View(r, n, x) \in {View(Now, Kernel, x), Nothing}
  BY <1>1, <1>4, BootForkSound
<1> HIDE DEF n, r
<1>6. n \in Spaces /\ Kernel \in Spaces /\ n # Kernel
  BY <1>4, Constants DEF Programs
<1>7. Owned(r, selectorMap', boot')
  BY <1>1, <1>2, <1>3, <1>5, <1>6 DEF Owned, Programs
<1>8. MemInv' /\ Now' = r
  BY <1>1, <1>2, <1>5, <1>7, BecomeIs, InvIsNext
<1>9. Private!Only({n})
  BY <1>5, <1>8, OnlyIs
<1>10. \A e \in Entries : Content'[n][e] \in {Content[Kernel][e], Nothing}
  <2>1. \A e \in Entries : ViewAll(r)[n][e] = View(r, n, e)
                           /\ ViewAll(Now)[Kernel][e] = View(Now, Kernel, e)
    BY <1>6, ViewAt
  <2> QED
    BY <2>1, <1>5, <1>8, ContentIs
<1>11. Private!Boot(n)
  BY <1>2, <1>3, <1>4, <1>9, <1>10 DEF Private!Boot, Content
<1> QED
  BY <1>8, <1>11, <1>6 DEF Allowed, Private!PNext

LEMMA ForkAllowed ==
  ASSUME MemInv, NEW p \in Spaces, do_kernel_task_fork(p)
  PROVE  Allowed
<1> DEFINE n == mmu_get_free_selector
           c == do_fork(Now, p, n)
<1>1. Sound(Now) /\ Owned(Now, selectorMap, boot) /\ cow \in CowBuilds
  BY InvIs
<1>2. /\ p \in selectorMap /\ p \in Programs /\ boot = "up" /\ boot' = boot /\ selectorMap # Spaces
      /\ selectorMap' = selectorMap \cup {n}
  BY DEF do_kernel_task_fork, Running, Programs
<1>3. PICK i \in 0 .. NDATA_PAGES - 1, two \in BOOLEAN, v \in Values :
        Become(uputs(c, p, i, two, v))
  BY DEF do_kernel_task_fork
<1> DEFINE r == uputs(c, p, i, two, v)
<1>4. n \in Programs /\ n \notin selectorMap /\ Vacant(Now, n)
  BY <1>2, FreeSelectorIs
<1>5. n \in Spaces /\ n # p /\ n # Kernel /\ p # Kernel
  BY <1>2, <1>4 DEF Programs
<1>6. /\ Sound(c)
      /\ \A t \in Spaces \ {n} : /\ c.table[t] = Now.table[t]
                                 /\ \A x \in Entries : View(c, t, x) = View(Now, t, x)
      /\ Mapped(c.table[n]) = Mapped(Now.table[p])
      /\ \A x \in Entries : View(c, n, x) = View(Now, p, x)
  BY <1>1, <1>2, <1>4, <1>5, ForkSound
<1> HIDE DEF n, c
<1>7. DataEntries \subseteq Mapped(Now.table[p])
  BY <1>1, <1>2, <1>5 DEF Owned
<1>8. DataEntries \subseteq Mapped(c.table[p])
  BY <1>5, <1>6, <1>7
<1>9. /\ Sound(r)
      /\ \A t \in Spaces : Mapped(r.table[t]) = Mapped(c.table[t])
      /\ \A t \in Spaces \ {p} : \A x \in Entries : View(r, t, x) = View(c, t, x)
      /\ \A x \in Entries : View(r, p, x) \in {View(c, p, x), v}
  BY <1>2, <1>6, <1>8, uputsSound
<1>10. Become(r)
  BY <1>3
<1> HIDE DEF r
<1>11. Owned(r, selectorMap', boot')
  <2>1. \A t \in Spaces \ {n} : Mapped(r.table[t]) = Mapped(Now.table[t])
    BY <1>6, <1>9
  <2>2. DataEntries \subseteq Mapped(r.table[n])
    BY <1>5, <1>6, <1>7, <1>9
  <2> QED
    BY <2>1, <2>2, <1>1, <1>2, <1>5 DEF Owned, Programs
<1>12. MemInv' /\ Now' = r
  BY <1>1, <1>9, <1>10, <1>11, BecomeIs, InvIsNext
<1>13. Private!Only({p, n})
  <2>1. \A t \in Spaces \ {p, n} : \A x \in Entries : View(r, t, x) = View(Now, t, x)
    BY <1>6, <1>9
  <2> QED
    BY <2>1, <1>9, <1>12, OnlyIs
<1>14. Content'[n] = Content[p]
  <2>1. \A x \in Entries : View(r, n, x) = View(Now, p, x)
    BY <1>5, <1>6, <1>9
  <2>2. ViewAll(r)[n] = ViewAll(Now)[p]
    BY <2>1, <1>5, ViewsAgree
  <2> QED
    BY <2>2, <1>12, ContentIs
<1>15. Private!Written(p)
  <2>1. \A x \in Entries : View(r, p, x) \in {View(Now, p, x), v}
    BY <1>5, <1>6, <1>9
  <2> QED
    BY <2>1, <1>12, WrittenIs
<1>16. Private!Fork(p, n)
  BY <1>2, <1>4, <1>13, <1>14, <1>15 DEF Private!Fork, Content
<1> QED
  BY <1>12, <1>16, <1>5 DEF Allowed, Private!PNext

LEMMA ExecAllowed ==
  ASSUME MemInv, NEW s \in Spaces, do_execve(s)
  PROVE  Allowed
<1> DEFINE c == freeProcessPages(Now, s)
<1>1. Sound(Now) /\ Owned(Now, selectorMap, boot) /\ cow \in CowBuilds
  BY InvIs
<1>2. /\ s \in selectorMap /\ s \in Programs /\ s # Kernel
      /\ boot \in {"construct", "up"} /\ boot' = "up" /\ selectorMap' = selectorMap
  BY DEF do_execve, Programs
<1>3. PICK text \in 0 .. NCODE_PAGES, data \in 0 .. NDATA_PAGES, file \in Values,
           i \in 0 .. NDATA_PAGES - 1, two \in BOOLEAN, v \in Values :
        Become(uputs(LoadPages(c, s, text, data, file), s, i, two, v))
  BY DEF do_execve
<1> DEFINE l == LoadPages(c, s, text, data, file)
           r == uputs(l, s, i, two, v)
<1>4. /\ Sound(c) /\ Vacant(c, s)
      /\ \A t \in Spaces \ {s} : /\ c.table[t] = Now.table[t]
                                 /\ \A x \in Entries : View(c, t, x) = View(Now, t, x)
  BY <1>1, <1>2, FreeSound
<1>5. Become(r)
  BY <1>3
<1> HIDE DEF c
<1>6. Gives(c, l, s, text, NDATA_PAGES)
  BY <1>2, <1>4, LoadGives
<1> HIDE DEF l
<1>7. /\ Sound(l)
      /\ Mapped(l.table[s]) = Block(text, NDATA_PAGES)
      /\ \A t \in Spaces \ {s} : /\ l.table[t] = c.table[t]
                                 /\ \A x \in Entries : View(l, t, x) = View(c, t, x)
  <2>1. NDATA_PAGES \in 0 .. NDATA_PAGES
    BY Constants
  <2> QED
    BY <2>1, <1>2, <1>4, <1>6, GivesSound
<1>8. DataEntries \subseteq Mapped(l.table[s])
  BY <1>7, Constants DEF DataEntries, Block, Entries
<1>9. /\ Sound(r)
      /\ \A t \in Spaces : Mapped(r.table[t]) = Mapped(l.table[t])
      /\ \A t \in Spaces \ {s} : \A x \in Entries : View(r, t, x) = View(l, t, x)
  BY <1>2, <1>7, <1>8, uputsSound
<1> HIDE DEF r
<1>10. Owned(r, selectorMap', boot')
  <2>1. \A t \in Spaces \ {s} : Mapped(r.table[t]) = Mapped(Now.table[t])
    BY <1>4, <1>7, <1>9
  <2>2. DataEntries \subseteq Mapped(r.table[s])
    BY <1>8, <1>9
  <2>3. \A t \in selectorMap \ {Kernel} : DataEntries \subseteq Mapped(r.table[t])
    BY <2>1, <2>2, <1>1, <1>2 DEF Owned
  <2> QED
    BY <2>1, <2>3, <1>1, <1>2 DEF Owned, Programs
<1>11. MemInv' /\ Now' = r
  BY <1>1, <1>5, <1>9, <1>10, BecomeIs, InvIsNext
<1>12. Private!Only({s})
  <2>1. \A t \in Spaces \ {s} : \A x \in Entries : View(r, t, x) = View(Now, t, x)
    BY <1>4, <1>7, <1>9
  <2> QED
    BY <2>1, <1>9, <1>11, OnlyIs
<1>13. Private!Exec(s)
  BY <1>2, <1>12 DEF Private!Exec
<1> QED
  BY <1>2, <1>11, <1>13 DEF Allowed, Private!PNext

LEMMA ExitAllowed ==
  ASSUME MemInv, NEW s \in Spaces, do_kernel_task_exit(s)
  PROVE  Allowed
<1> DEFINE r == freeProcessPages(Now, s)
<1>1. Sound(Now) /\ Owned(Now, selectorMap, boot) /\ cow \in CowBuilds
  BY InvIs
<1>2. /\ s \in selectorMap /\ s \in Programs /\ s # Kernel /\ boot = "up" /\ boot' = boot
      /\ selectorMap' = selectorMap \ {s} /\ Become(r)
  BY DEF do_kernel_task_exit, Running, Programs
<1>3. /\ Sound(r) /\ Vacant(r, s)
      /\ \A t \in Spaces \ {s} : /\ r.table[t] = Now.table[t]
                                 /\ \A x \in Entries : View(r, t, x) = View(Now, t, x)
      /\ \A x \in Entries : View(r, s, x) = Nothing
  BY <1>1, <1>2, FreeSound
<1> HIDE DEF r
<1>4. Owned(r, selectorMap', boot')
  BY <1>1, <1>2, <1>3 DEF Owned, Programs, Vacant
<1>5. MemInv' /\ Now' = r
  BY <1>1, <1>2, <1>3, <1>4, BecomeIs, InvIsNext
<1>6. Private!Only({s})
  BY <1>3, <1>5, OnlyIs
<1>7. Content'[s] = [e \in Entries |-> Nothing]
  <2>1. ViewAll(r)[s] = [e \in Entries |-> View(r, s, e)]
    BY ViewAt
  <2> QED
    BY <2>1, <1>3, <1>5, ContentIs
<1>8. Private!Exit(s)
  BY <1>2, <1>6, <1>7 DEF Private!Exit, Private!Empty, Content
<1> QED
  BY <1>2, <1>5, <1>8 DEF Allowed, Private!PNext

\* Steps that write to the memory of one program.
LEMMA WriteAllowed ==
  ASSUME MemInv, NEW s \in Spaces, Running(s), UNCHANGED <<selectorMap, boot>>,
         NEW r, Sound(r), Become(r), NEW v \in Values,
         \A t \in Spaces : Mapped(r.table[t]) = Mapped(Now.table[t]),
         \A t \in Spaces \ {s} : \A x \in Entries : View(r, t, x) = View(Now, t, x),
         \A x \in Entries : View(r, s, x) \in {View(Now, s, x), v}
  PROVE  Allowed
<1>1. Sound(Now) /\ Owned(Now, selectorMap, boot) /\ cow \in CowBuilds
  BY InvIs
<1>2. s \in selectorMap /\ s # Kernel
  BY DEF Running
<1>3. Owned(r, selectorMap', boot')
  <2>1. selectorMap \subseteq Spaces
    BY <1>1 DEF Owned
  <2> QED
    BY <2>1, <1>1 DEF Owned, Programs
<1>4. MemInv' /\ Now' = r
  BY <1>1, <1>3, BecomeIs, InvIsNext
<1>5. Private!Only({s})
  BY <1>4, OnlyIs
<1>6. Private!Written(s)
  BY <1>4, WrittenIs
<1>7. Private!Store(s)
  BY <1>2, <1>5, <1>6 DEF Private!Store
<1> QED
  BY <1>2, <1>4, <1>7 DEF Allowed, Private!PNext

LEMMA KernelWritesAllowed ==
  ASSUME MemInv, NEW s \in Spaces, KernelWrites(s)
  PROVE  Allowed
<1>1. Sound(Now) /\ Owned(Now, selectorMap, boot)
  BY InvIs
<1>2. Running(s) /\ s \in Programs /\ UNCHANGED <<selectorMap, boot>>
  BY DEF KernelWrites, Running, Programs
<1>3. PICK i \in 0 .. NDATA_PAGES - 1, two \in BOOLEAN, v \in Values :
        Become(uputs(Now, s, i, two, v))
  BY DEF KernelWrites
<1> DEFINE r == uputs(Now, s, i, two, v)
<1>4. DataEntries \subseteq Mapped(Now.table[s])
  BY <1>1, <1>2 DEF Owned, Running
<1>5. /\ Sound(r)
      /\ \A t \in Spaces : Mapped(r.table[t]) = Mapped(Now.table[t])
      /\ \A t \in Spaces \ {s} : \A x \in Entries : View(r, t, x) = View(Now, t, x)
      /\ \A x \in Entries : View(r, s, x) \in {View(Now, s, x), v}
  BY <1>1, <1>2, <1>4, uputsSound
<1>6. Become(r)
  BY <1>3
<1> HIDE DEF r
<1> QED
  BY <1>2, <1>5, <1>6, WriteAllowed

LEMMA InterruptAllowed ==
  ASSUME MemInv, NEW s \in Spaces, mmu_interrupt(s)
  PROVE  Allowed
<1>1. Sound(Now) /\ Owned(Now, selectorMap, boot)
  BY InvIs
<1>2. Running(s) /\ s \in Programs /\ UNCHANGED <<selectorMap, boot>>
  BY DEF mmu_interrupt, Running, Programs
<1>3. PICK e \in DataEntries \cap readOnly[s] : Become(check_and_fix_page(Now, s, e))
  BY DEF mmu_interrupt
<1> DEFINE r == check_and_fix_page(Now, s, e)
<1>4. e \in Mapped(Now.table[s])
  BY <1>1, <1>2 DEF Sound, Shaped, Now
<1>5. /\ Sound(r)
      /\ \A t \in Spaces : /\ Mapped(r.table[t]) = Mapped(Now.table[t])
                           /\ \A x \in Entries : View(r, t, x) = View(Now, t, x)
  BY <1>1, <1>2, <1>4, FixSound
<1>6. Become(r)
  BY <1>3
<1>7. \E v \in Values : TRUE
  BY Constants
<1> HIDE DEF r
<1> QED
  BY <1>2, <1>5, <1>6, <1>7, WriteAllowed

LEMMA StoreAllowed ==
  ASSUME MemInv, NEW s \in Spaces, Store(s)
  PROVE  Allowed
<1>1. Sound(Now) /\ Owned(Now, selectorMap, boot)
  BY InvIs
<1>2. Running(s) /\ s \in Programs /\ UNCHANGED <<selectorMap, boot>>
  BY DEF Store, Running, Programs
<1>3. PICK e \in DataEntries \ readOnly[s], v \in Values :
        mem' = [mem EXCEPT ![table[s][e]] = v]
  BY DEF Store
<1> DEFINE r == [Now EXCEPT !.mem[Now.table[s][e]] = v]
<1>4. Become(r)
  <2>1. UNCHANGED <<pageMap, table, readOnly, cow>>
    BY DEF Store
  <2> QED
    BY <2>1, <1>3 DEF Become, Now
<1>5. e \in Mapped(Now.table[s]) /\ e \notin Now.readOnly[s]
  BY <1>1, <1>2, <1>3 DEF Owned, Running, Now
<1>6. /\ Sound(r)
      /\ \A t \in Spaces : /\ Mapped(r.table[t]) = Mapped(Now.table[t])
                           /\ \A x \in Entries :
                                View(r, t, x) = IF t = s /\ x = e THEN v ELSE View(Now, t, x)
  BY <1>1, <1>2, <1>5, WriteSound
<1> HIDE DEF r
<1> QED
  BY <1>2, <1>4, <1>6, WriteAllowed

LEMMA InitAllowed == Init => MemInv /\ Private!PInit
<1> SUFFICES ASSUME Init PROVE MemInv /\ Private!PInit
  OBVIOUS
<1>1. PICK w \in Values : mem = [p \in Pages |-> w]
  BY DEF Init
<1>2. /\ pageMap = [p \in Pages |-> IF p \in KernelPages THEN 1 ELSE 0]
      /\ table = [s \in Spaces |-> IF s = Kernel THEN KernelTable
                                   ELSE [e \in Entries |-> FREE_PAGE_MARK]]
      /\ readOnly = [s \in Spaces |-> {}]
      /\ selectorMap = {Kernel} /\ boot = "init" /\ cow \in CowBuilds
  BY DEF Init
<1>3. /\ \A s \in Programs, e \in Entries : table[s][e] = FREE_PAGE_MARK
      /\ table[Kernel] = KernelTable
      /\ \A s \in Programs : Mapped(table[s]) = {}
  BY <1>2, Constants DEF Programs, Mapped
<1>4. /\ Now.pageMap = pageMap /\ Now.table = table /\ Now.readOnly = readOnly /\ Now.mem = mem
      /\ Now = [pageMap |-> pageMap, table |-> table, readOnly |-> readOnly, mem |-> mem]
  BY DEF Now
<1>5. KernelTable \in [Entries -> Pages \cup {FREE_PAGE_MARK}]
  BY EntryIs, Constants DEF KernelTable, Pages
<1>6. Now \in Memories
  <2>1. pageMap \in [Pages -> Nat]
    BY <1>1, <1>2
  <2>2. table \in [Spaces -> [Entries -> Pages \cup {FREE_PAGE_MARK}]]
    BY <1>2, <1>5
  <2>3. readOnly \in [Spaces -> SUBSET Entries] /\ mem \in [Pages -> Values]
    BY <1>1, <1>2
  <2> QED
    BY <1>4, <2>1, <2>2, <2>3 DEF Memories
<1>7. \A p \in Pages : UsersIn(Now, p) = {}
  BY <1>3, <1>4, FreeIsNoPage DEF UsersIn
<1>8. Counted(Now)
  <2>1. \A p \in Pages : Cardinality(UsersIn(Now, p)) = 0
    BY <1>7, FS_EmptySet
  <2>2. \A p \in Pages : Now.pageMap[p] = IF p \in KernelPages THEN 1 ELSE 0
    BY <1>2, <1>4
  <2> QED
    BY <2>1, <2>2, <1>7 DEF Counted
<1>9. Guarded(Now)
  BY <1>7 DEF Guarded
<1>10. Shaped(Now)
  BY <1>2, <1>3, <1>4 DEF Shaped, Closed, Programs
<1>11. Rooted(Now)
  BY <1>2, <1>3, <1>4, Constants DEF Rooted
<1>12. Owned(Now, selectorMap, boot)
  BY <1>2, <1>3, <1>4, Constants DEF Owned
<1>13. Sound(Now)
  BY <1>6, <1>8, <1>9, <1>10, <1>11 DEF Sound
<1>14. MemInv
  BY <1>2, <1>12, <1>13, InvIs
<1>15. Content \in [Spaces -> [Entries -> Values \cup {Nothing}]]
  BY <1>13, ContentIs, ImagesAre
<1>16. \A s \in Programs : Content[s] = [e \in Entries |-> Nothing]
  <2>1. \A s \in Programs : \A e \in Entries : View(Now, s, e) = Nothing
    BY <1>3, <1>4 DEF View
  <2>2. \A s \in Programs : ViewAll(Now)[s] = [e \in Entries |-> View(Now, s, e)]
    BY ViewAt DEF Programs
  <2> QED
    BY <2>1, <2>2, ContentIs
<1>17. Private!PInit
  BY <1>2, <1>15, <1>16 DEF Private!PInit, Private!Images, Private!Empty, Content, Programs
<1> QED
  BY <1>14, <1>17

\* Every step keeps the invariant and is one of PrivateMemory, or unseen.
LEMMA NextAllowed ==
  ASSUME MemInv, [Next]_vars
  PROVE  Allowed
<1>1. CASE UNCHANGED vars
  <2>1. MemInv'
    <3>1. Now' = Now
      BY <1>1 DEF vars, Now
    <3>2. Sound(Now) /\ Owned(Now, selectorMap, boot) /\ cow \in CowBuilds
      BY InvIs
    <3>3. selectorMap' = selectorMap /\ boot' = boot /\ cow' = cow
      BY <1>1 DEF vars
    <3> QED
      BY <3>1, <3>2, <3>3, InvIsNext
  <2>2. UNCHANGED <<selectorMap, Content>>
    BY <1>1, ContentIs DEF vars, Now
  <2> QED
    BY <2>1, <2>2, AbstractVars DEF Allowed, Private!pvars, Content
<1>2. CASE BootFork
  BY <1>2, BootForkAllowed
<1>3. ASSUME NEW s \in Spaces, do_kernel_task_fork(s) PROVE Allowed
  BY <1>3, ForkAllowed
<1>4. ASSUME NEW s \in Spaces, do_execve(s) PROVE Allowed
  BY <1>4, ExecAllowed
<1>5. ASSUME NEW s \in Spaces, do_kernel_task_exit(s) PROVE Allowed
  BY <1>5, ExitAllowed
<1>6. ASSUME NEW s \in Spaces, KernelWrites(s) PROVE Allowed
  BY <1>6, KernelWritesAllowed
<1>7. ASSUME NEW s \in Spaces, mmu_interrupt(s) PROVE Allowed
  BY <1>7, InterruptAllowed
<1>8. ASSUME NEW s \in Spaces, Store(s) PROVE Allowed
  BY <1>8, StoreAllowed
<1> QED
  BY <1>1, <1>2, <1>3, <1>4, <1>5, <1>6, <1>7, <1>8 DEF Next

-----------------------------------------------------------------------------
(* Theorems                                                                *)

\* Counts, flags and tables stay in step through every order of forks, traps,
\* stores, kernel writes, execves and exits, in both builds, and the search for
\* a free page always finds one.
THEOREM MemInvariant == Spec => []MemInv
<1>1. Init => MemInv
  BY InitAllowed
<1>2. MemInv /\ [Next]_vars => MemInv'
  BY NextAllowed DEF Allowed
<1> QED
  BY <1>1, <1>2, PTL DEF Spec

\* A page's count is the number of the entries that map it.
THEOREM CountsAreUsers == Spec => []CountsUsers
<1>1. MemInv => CountsUsers
  BY DEF MemInv
<1> QED
  BY <1>1, MemInvariant, PTL

\* No store reaches a page that two programs map.
THEOREM SharedPagesReadOnly == Spec => []SharedIsReadOnly
<1>1. MemInv => SharedIsReadOnly
  BY DEF MemInv
<1> QED
  BY <1>1, MemInvariant, PTL

\* Pages, counts, flags and traps implement memories that only their owners
\* change.
THEOREM MemoryIsPrivate == Spec => IsPrivate
<1>1. Init => Private!PInit
  BY InitAllowed
<1>2. MemInv /\ [Next]_vars => [Private!PNext]_(Private!pvars)
  BY NextAllowed DEF Allowed
<1> QED
  BY <1>1, <1>2, MemInvariant, PTL DEF Spec, IsPrivate, Private!PSpec

=============================================================================
