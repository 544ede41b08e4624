------------------------------- MODULE Memory -------------------------------
(***************************************************************************)
(* Physical pages and page tables (mm.c), and what fork (fork.c), execve   *)
(* (execve.c) and exit (kernel_worker.c) do to them.  An address space is  *)
(* the MMU selector of a process; it has a code and a data segment, and    *)
(* each loop over a segment stops at the first FREE_PAGE_MARK.             *)
(*                                                                         *)
(* fork copies every page, or with copy on write shares it read-only.  The *)
(* kernel writes a program's memory through a window (uputs), the program  *)
(* itself by stores, which trap on a read-only page; both end up in        *)
(* check_and_fix_page.  Handlers run with interrupts off and are one step; *)
(* a trap and the store that caused it are two.                            *)
(*                                                                         *)
(* A page is one value.  The window slots of the kernel's own table are    *)
(* left out, and threads, which share the selector of their process and    *)
(* have no pages of their own.                                             *)
(***************************************************************************)
EXTENDS Integers, FiniteSets, FirstFit

CONSTANTS
  MAXPROC,        \* processes with a space of their own (15 in sched.h)
  NCODE_PAGES,    \* entries of a code segment (128 in mm.h)
  NDATA_PAGES,    \* entries of a data segment (16 in mm.h)
  KERNEL_PAGES,   \* pages the kernel is loaded in (16 in mmu_init)
  WINDOW,         \* its data pages below the windows (14 in do_fork)
  pageMapSize,    \* physical pages (4096 in mm.c)
  CowBuilds,      \* the settings of ENABLE_COPY_ON_WRITE (0 in fork.h) to check
  Values,         \* what a page can hold
  Nothing         \* what is seen where no page is mapped

\* The pages are enough for every process to have both segments full.
ASSUME MemoryAssumption ==
  /\ MAXPROC \in Nat \ {0, 1}
  /\ NCODE_PAGES \in Nat /\ NDATA_PAGES \in Nat \ {0}
  /\ KERNEL_PAGES \in Nat /\ WINDOW \in Nat
  /\ WINDOW <= KERNEL_PAGES /\ WINDOW <= NDATA_PAGES
  /\ pageMapSize \in Nat
  /\ pageMapSize >= KERNEL_PAGES + (MAXPROC - 1) * (NCODE_PAGES + NDATA_PAGES)
  /\ CowBuilds \subseteq BOOLEAN
  /\ Values # {} /\ Nothing \notin Values

Pages == 0 .. pageMapSize - 1
KernelPages == 0 .. KERNEL_PAGES - 1
Spaces == 0 .. MAXPROC - 1
Kernel == 0

\* Entries of a page table, as (s_code, pageno).
Limit(c) == IF c = 1 THEN NCODE_PAGES ELSE NDATA_PAGES
Entries == ({1} \X (0 .. NCODE_PAGES - 1)) \cup ({0} \X (0 .. NDATA_PAGES - 1))
DataEntries == {0} \X (0 .. NDATA_PAGES - 1)

FREE_PAGE_MARK == -1   \* 0x1fff in mm.h: no page has this number

VARIABLES
  pageMap,      \* users of each physical page
  table,        \* table[s][e]: the page entry e of space s maps
  readOnly,     \* the entries of each space that have PAGE_FLAG_READ_ONLY
  mem,          \* what each page holds
  selectorMap,  \* the selectors marked in use
  boot,         \* pid 1: not forked yet, waiting for its execve, or started
  cow           \* ENABLE_COPY_ON_WRITE, which the build fixes

vars == <<pageMap, table, readOnly, mem, selectorMap, boot, cow>>

-----------------------------------------------------------------------------
(* Pages and tables.  The state the operations of mm.c work on is passed   *)
(* as a record, because a handler makes several of them in one step.       *)

Now == [pageMap |-> pageMap, table |-> table, readOnly |-> readOnly, mem |-> mem]

Become(m) ==
  /\ pageMap' = m.pageMap /\ table' = m.table
  /\ readOnly' = m.readOnly /\ mem' = m.mem /\ UNCHANGED cow

FreePages(m) == {p \in Pages : m.pageMap[p] = 0}
mmu_get_free_page(m) == Lowest(FreePages(m))

\* The page a run of allocations gets after k others.
NthFreePage(m, k) == CHOOSE p \in FreePages(m) : Rank(FreePages(m), p) = k

mmu_get_free_selector == Lowest(Spaces \ selectorMap)

\* How many entries of a segment a loop over it sees.
SegmentSize(tab, c) ==
  Cardinality({i \in 0 .. Limit(c) - 1 : \A j \in 0 .. i : tab[<<c, j>>] # FREE_PAGE_MARK})

\* The entries the loops over both segments see, code first, and how many of
\* them come before e.
Seen(tab) == {e \in Entries : e[2] < SegmentSize(tab, e[1])}
Before(tab, e) == IF e[1] = 1 THEN e[2] ELSE SegmentSize(tab, 1) + e[2]

\* Mutants: a shared page is written in place; the page the copy was made from
\* keeps its count.
FixInPlace(m, s, e) == [m EXCEPT !.readOnly[s] = @ \ {e}]
FixKeepsCount(m, s, e) ==
  LET src == m.table[s][e]
      target == mmu_get_free_page(m)
      fixed == [m EXCEPT !.readOnly[s] = @ \ {e}]
  IN IF e \notin m.readOnly[s] THEN m
     ELSE IF m.pageMap[src] <= 1 THEN fixed
     ELSE [fixed EXCEPT !.pageMap[target] = 1, !.table[s][e] = target,
                        !.mem[target] = m.mem[src]]

\* check_and_fix_page for a write: a read-only page that has other users is
\* replaced by a copy, and the entry becomes writable.
check_and_fix_page(m, s, e) ==
  LET src == m.table[s][e]
      left == [m EXCEPT !.pageMap[src] = @ - 1]
      target == mmu_get_free_page(left)
      fixed == [m EXCEPT !.readOnly[s] = @ \ {e}]
  IN IF e \notin m.readOnly[s] THEN m
     ELSE IF m.pageMap[src] <= 1 THEN fixed
     ELSE [fixed EXCEPT !.pageMap[src] = @ - 1, !.pageMap[target] = 1,
                        !.table[s][e] = target, !.mem[target] = m.mem[src]]

\* The kernel writes v to the page of an entry.
PutPage(m, s, e, v) ==
  LET f == check_and_fix_page(m, s, e) IN [f EXCEPT !.mem[f.table[s][e]] = v]

\* uputs, uputc and umemset: what they write is shorter than a page, so it lies
\* in one entry or in two that follow each other (addresses wrap).
uputs(m, s, i, two, v) ==
  LET first == PutPage(m, s, <<0, i>>, v)
  IN IF two THEN PutPage(first, s, <<0, (i + 1) % NDATA_PAGES>>, v) ELSE first

\* What ugets, ugetc and a load see.
ugets(s, e) == IF table[s][e] = FREE_PAGE_MARK THEN Nothing ELSE mem[table[s][e]]

\* Every entry the loops see gives up its page.
freeProcessPages(m, s) ==
  LET gone == Seen(m.table[s])
      pages == {m.table[s][e] : e \in gone}
      uses(p) == Cardinality({e \in gone : m.table[s][e] = p})
  IN [m EXCEPT !.pageMap = [p \in Pages |-> IF p \in pages THEN @[p] - uses(p) ELSE @[p]],
               !.table[s] = [e \in Entries |-> IF e \in gone THEN FREE_PAGE_MARK ELSE @[e]],
               !.readOnly[s] = @ \ gone]

-----------------------------------------------------------------------------
(* fork                                                                    *)

\* Each entry of E of space p gets a page of its own in space n, holding a copy.
CopyPages(m, p, n, E) ==
  LET page(e) == NthFreePage(m, Before(m.table[p], e))
      taken == {page(e) : e \in E}
  IN [m EXCEPT
        !.pageMap = [q \in Pages |-> IF q \in taken THEN 1 ELSE @[q]],
        !.mem = [q \in Pages |-> IF q \in taken THEN @[m.table[p][CHOOSE e \in E : page(e) = q]]
                                 ELSE @[q]],
        !.table[n] = [e \in Entries |-> IF e \in E THEN page(e) ELSE @[e]],
        !.readOnly[n] = @ \ E]

\* Mutant: only the child's entry is protected.
ShareChildOnly(m, p, n, E) ==
  LET shared == {m.table[p][e] : e \in E}
      uses(q) == Cardinality({e \in E : m.table[p][e] = q})
  IN [m EXCEPT
        !.pageMap = [q \in Pages |-> IF q \in shared THEN @[q] + uses(q) ELSE @[q]],
        !.table[n] = [e \in Entries |-> IF e \in E THEN m.table[p][e] ELSE @[e]],
        !.readOnly = [s \in Spaces |-> IF s = n THEN m.readOnly[s] \cup E ELSE m.readOnly[s]]]

\* Each entry of E of space p is mapped in space n too, read-only in both.
SharePages(m, p, n, E) ==
  LET shared == {m.table[p][e] : e \in E}
      uses(q) == Cardinality({e \in E : m.table[p][e] = q})
  IN [m EXCEPT
        !.pageMap = [q \in Pages |-> IF q \in shared THEN @[q] + uses(q) ELSE @[q]],
        !.table[n] = [e \in Entries |-> IF e \in E THEN m.table[p][e] ELSE @[e]],
        !.readOnly = [s \in Spaces |->
                        IF s \in {p, n} THEN m.readOnly[s] \cup E ELSE m.readOnly[s]]]

\* From pid 0 the data loop stops below the windows, and pages are copied.
do_fork(m, p, n) ==
  IF p = Kernel
  THEN CopyPages(m, p, n, {e \in Seen(m.table[p]) : e[1] = 1 \/ e[2] < WINDOW})
  ELSE IF cow THEN SharePages(m, p, n, Seen(m.table[p]))
  ELSE CopyPages(m, p, n, Seen(m.table[p]))

\* The fork kernel_main asks for; it has no syscall structure to write to.
BootFork ==
  LET n == mmu_get_free_selector
  IN /\ boot = "init" /\ boot' = "construct"
     /\ selectorMap' = selectorMap \cup {n}
     /\ Become(do_fork(Now, Kernel, n))

Running(s) == s \in selectorMap \ {Kernel} /\ boot = "up"

\* The new pid goes into the parent's structure after the child was made.
do_kernel_task_fork(p) ==
  LET n == mmu_get_free_selector
  IN /\ Running(p) /\ selectorMap # Spaces
     /\ selectorMap' = selectorMap \cup {n} /\ UNCHANGED boot
     /\ \E i \in 0 .. NDATA_PAGES - 1, two \in BOOLEAN, v \in Values :
          Become(uputs(do_fork(Now, p, n), p, i, two, v))

-----------------------------------------------------------------------------
(* execve and exit                                                         *)

\* Mutant: the data segment ends with the file's.
LoadPagesExact(m, s, text, data, file) ==
  LET page(e) == NthFreePage(m, IF e[1] = 1 THEN e[2] ELSE text + e[2])
      E == {e \in Entries : IF e[1] = 1 THEN e[2] < text ELSE e[2] < data}
      taken == {page(e) : e \in E}
  IN [m EXCEPT
        !.pageMap = [q \in Pages |-> IF q \in taken THEN 1 ELSE @[q]],
        !.mem = [q \in Pages |-> IF q \in taken THEN file ELSE @[q]],
        !.table[s] = [e \in Entries |-> IF e \in E THEN page(e) ELSE @[e]],
        !.readOnly[s] = @ \ E]

\* Pages for text pages of code and a whole data segment, in this order.  The
\* code and the first data pages are read from the file; the other data pages
\* keep what their last owner left in them.
LoadPages(m, s, text, data, file) ==
  LET page(e) == NthFreePage(m, IF e[1] = 1 THEN e[2] ELSE text + e[2])
      E == {e \in Entries : e[1] = 1 => e[2] < text}
      taken == {page(e) : e \in E}
      read == {page(e) : e \in {f \in E : f[1] = 0 => f[2] < data}}
  IN [m EXCEPT
        !.pageMap = [q \in Pages |-> IF q \in taken THEN 1 ELSE @[q]],
        !.mem = [q \in Pages |-> IF q \in read THEN file ELSE @[q]],
        !.table[s] = [e \in Entries |-> IF e \in E THEN page(e) ELSE @[e]],
        !.readOnly[s] = @ \ E]

\* A file that loads; one that does not leaves memory as it is.  The arguments
\* are put behind the data: on its last page or on the next one.  Bounds:
\* the code of a file fits its segment, which do_execve does not check, and the
\* pages of a file hold one value.
do_execve(s) ==
  /\ s \in selectorMap \ {Kernel} /\ boot \in {"construct", "up"}
  /\ boot' = "up" /\ UNCHANGED selectorMap
  /\ \E text \in 0 .. NCODE_PAGES, data \in 0 .. NDATA_PAGES, file \in Values,
        i \in 0 .. NDATA_PAGES - 1, two \in BOOLEAN, v \in Values :
       /\ i \in {data - 1, data}
       /\ Become(uputs(LoadPages(freeProcessPages(Now, s), s, text, data, file),
                       s, i, two, v))

do_kernel_task_exit(s) ==
  /\ Running(s)
  /\ Become(freeProcessPages(Now, s))
  /\ selectorMap' = selectorMap \ {s}
  /\ UNCHANGED boot

-----------------------------------------------------------------------------
(* The running programs                                                    *)

\* A system call, or the worker on behalf of a blocked program, stores results.
KernelWrites(s) ==
  /\ Running(s)
  /\ \E i \in 0 .. NDATA_PAGES - 1, two \in BOOLEAN, v \in Values :
       Become(uputs(Now, s, i, two, v))
  /\ UNCHANGED <<selectorMap, boot>>

\* The hardware refuses a store to a read-only page and raises the interrupt;
\* the store is tried again when the program next runs.
mmu_interrupt(s) ==
  /\ Running(s)
  /\ \E e \in DataEntries \cap readOnly[s] : Become(check_and_fix_page(Now, s, e))
  /\ UNCHANGED <<selectorMap, boot>>

Store(s) ==
  /\ Running(s)
  /\ \E e \in DataEntries \ readOnly[s], v \in Values :
       mem' = [mem EXCEPT ![table[s][e]] = v]
  /\ UNCHANGED <<pageMap, table, readOnly, selectorMap, boot, cow>>

-----------------------------------------------------------------------------
(* The specification                                                       *)

\* mmu_init: the kernel's pages, mapped one to one as code and as data.
KernelTable ==
  [e \in Entries |-> IF e[2] < KERNEL_PAGES THEN e[2] ELSE FREE_PAGE_MARK]

\* What mmu_init leaves: selector 0 is the kernel's, nothing else is mapped.
Init ==
  /\ pageMap = [p \in Pages |-> IF p \in KernelPages THEN 1 ELSE 0]
  /\ table = [s \in Spaces |-> IF s = Kernel THEN KernelTable
                               ELSE [e \in Entries |-> FREE_PAGE_MARK]]
  /\ readOnly = [s \in Spaces |-> {}]
  /\ \E v \in Values : mem = [p \in Pages |-> v]
  /\ selectorMap = {Kernel}
  /\ boot = "init"
  /\ cow \in CowBuilds

Next ==
  \/ BootFork
  \/ \E s \in Spaces :
       \/ do_kernel_task_fork(s) \/ do_execve(s) \/ do_kernel_task_exit(s)
       \/ KernelWrites(s) \/ mmu_interrupt(s) \/ Store(s)

Spec == Init /\ [][Next]_vars

-----------------------------------------------------------------------------
(* Properties                                                              *)

\* Counts, tables, flags and contents keep their types.
MemTypeOK ==
  /\ pageMap \in [Pages -> Nat]
  /\ table \in [Spaces -> [Entries -> Pages \cup {FREE_PAGE_MARK}]]
  /\ readOnly \in [Spaces -> SUBSET Entries]
  /\ mem \in [Pages -> Values]
  /\ selectorMap \in SUBSET Spaces
  /\ boot \in {"init", "construct", "up"}
  /\ cow \in CowBuilds

\* The places where programs map page p.
Users(p) == {u \in (Spaces \ {Kernel}) \X Entries : table[u[1]][u[2]] = p}

\* The count of a page is the number of entries that map it: a page is given
\* out again exactly when its last user is gone, through any order of forks,
\* copies, execves and exits, and no program maps a page of the kernel.
CountsUsers ==
  \A p \in Pages : IF p \in KernelPages THEN pageMap[p] = 1 /\ Users(p) = {}
                   ELSE pageMap[p] = Cardinality(Users(p))

\* A page with more than one user is read-only for each of them, so that no
\* store reaches a page another program sees.
SharedIsReadOnly ==
  \A p \in Pages : \A u, w \in Users(p) : u # w => u[2] \in readOnly[u[1]]

\* The loops over a segment see all of it: no entry is mapped behind a free one,
\* where fork would not copy it and exit not free it; what is flagged read-only is
\* mapped, so that a page is not refused for its last owner's sake; a free selector
\* has nothing mapped that its next owner would inherit; and a program has its
\* whole data segment, so that no address it can form is unmapped.
TablesSound ==
  \A s \in Spaces \ {Kernel} :
    /\ \A e \in Entries : table[s][e] # FREE_PAGE_MARK => e \in Seen(table[s])
    /\ readOnly[s] \subseteq Seen(table[s])
    /\ s \notin selectorMap => Seen(table[s]) = {}
    /\ Running(s) => DataEntries \subseteq Seen(table[s])

\* The search of mmu_get_free_page, which has no bound of its own, never runs
\* off pageMap: whatever is shared or leaked, the free pages are enough to give
\* every entry of every space a page to itself.
PagesSuffice ==
  LET places == (Spaces \ {Kernel}) \X Entries
      inUse == {table[u[1]][u[2]] : u \in places} \ {FREE_PAGE_MARK}
  IN Cardinality(FreePages(Now)) >= Cardinality(places) - Cardinality(inUse)

\* Nothing changes what mmu_init mapped for the kernel.
KernelKept ==
  Kernel \in selectorMap /\ table[Kernel] = KernelTable /\ readOnly[Kernel] = {}

\* Until its execve, pid 1 is the only program.
BootAlone ==
  /\ boot = "init" => selectorMap = {Kernel}
  /\ boot = "construct" => \A s, t \in selectorMap \ {Kernel} : s = t

\* Counts, flags, tables and free pages stay in step with each other through any
\* order of forks, traps, stores, kernel writes, execves and exits.
MemInv ==
  /\ MemTypeOK /\ CountsUsers /\ SharedIsReadOnly
  /\ TablesSound /\ PagesSuffice /\ KernelKept /\ BootAlone

\* Programs have memory of their own: the pages, counts, flags and traps
\* implement the private memories of module PrivateMemory.
Private == INSTANCE PrivateMemory
  WITH live <- selectorMap,
       content <- [s \in Spaces |-> [e \in Entries |-> ugets(s, e)]]
IsPrivate == Private!PSpec

=============================================================================
