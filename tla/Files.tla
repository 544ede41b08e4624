-------------------------------- MODULE Files --------------------------------
(***************************************************************************)
(* Open files: the descriptors of each process (procs[].openFiles), the    *)
(* system's FILE objects with their counts (rlfs3.c), the set that holds   *)
(* them (set.c), and the calls that make, share and drop them: open,       *)
(* close, dup, dup2 and pipe (sys_fs.c), fork and clone (fork.c), execve   *)
(* and exit (execve.c, kernel_worker.c).  Each is one step: calls and task *)
(* handlers run with interrupts off.                                       *)
(*                                                                         *)
(* A FILE is a place of the set's arena, and a descriptor a pointer to it, *)
(* which the code never checks: a place that was removed and inserted      *)
(* again is another file behind the same pointer.  A process is its        *)
(* descriptors; a zombie has none that anyone uses.                        *)
(***************************************************************************)
EXTENDS Integers, FiniteSets, FirstFit

CONSTANTS
  MAXPROC,             \* slots of procs[] (15 in sched.h)
  MAX_FILES_PER_PROC,  \* descriptors of a process (15 in sched.h)
  MAX_FILES,           \* places of the set openFiles (10 in rlfs3.h)
  STDIO,               \* descriptors kernel_main opens (3)
  UINT_RANGE,          \* number of values of an unsigned int (2^16)
  Names,               \* the files programs open
  Tty,                 \* the terminal
  Pipe,                \* the name pipe() makes
  MaxRefs,             \* bound on a count, for the calls that can lose references
  Calls                \* the calls the programs of a run make

AllCalls == {"open", "close", "dup", "dup2", "dup2_over", "pipe",
             "fork", "clone", "execve", "exit"}

ASSUME FilesAssumption ==
  /\ MAXPROC \in Nat \ {0, 1}
  /\ MAX_FILES_PER_PROC \in Nat /\ MAX_FILES \in Nat /\ STDIO \in Nat
  /\ STDIO <= MAX_FILES_PER_PROC /\ STDIO <= MAX_FILES
  /\ UINT_RANGE \in Nat /\ MAX_FILES < UINT_RANGE
  /\ MaxRefs \in Nat /\ MaxRefs + 2 * (MAXPROC * MAX_FILES_PER_PROC) < UINT_RANGE
  /\ Tty # Pipe
  /\ Calls \subseteq AllCalls

Procs == 0 .. MAXPROC - 1
Fds == 0 .. MAX_FILES_PER_PROC - 1
Places == 0 .. MAX_FILES - 1
NULL == -1
Nodes == Names \cup {Tty, Pipe}

VARIABLES
  kind,       \* what is in a process slot: nothing alive, a process, a thread
  openFiles,  \* procs[].openFiles[]
  used,       \* the marks of the set: the places that hold a FILE
  size,       \* the set's size
  refcnt,     \* FILE.refcnt
  node,       \* FILE.node: the file it was opened on
  leaked,     \* not in the code: references counted that nobody has
  halted      \* "no", or which panic of the set stopped the machine

vars == <<kind, openFiles, used, size, refcnt, node, leaked, halted>>

-----------------------------------------------------------------------------
(* The set of FILEs.  A call may open or close several, so the operations  *)
(* take the state they work on as a record.                                *)

Now == [openFiles |-> openFiles, used |-> used, size |-> size,
        refcnt |-> refcnt, node |-> node, halted |-> halted]

Become(f) ==
  /\ openFiles' = f.openFiles /\ used' = f.used /\ size' = f.size
  /\ refcnt' = f.refcnt /\ node' = f.node /\ halted' = f.halted

Full(f) == f.size >= MAX_FILES
FreePlaces(f) == Places \ f.used

\* The panic set_insert ends in, if it does.
InsertPanic(f) ==
  IF Full(f) THEN "overflow" ELSE IF FreePlaces(f) = {} THEN "corrupt" ELSE "no"

\* fs_open of a file: a FILE with one reference in the first free place.
fs_open(f, n) ==
  LET x == Lowest(FreePlaces(f))
  IN IF InsertPanic(f) # "no" THEN [f EXCEPT !.halted = InsertPanic(f)]
     ELSE [f EXCEPT !.used = @ \cup {x}, !.size = @ + 1,
                    !.refcnt[x] = 1, !.node[x] = n]

\* Mutant: the FILE goes at the first close.
closeAtOnce(f, x) == [f EXCEPT !.refcnt[x] = 0, !.used = @ \ {x},
                    !.size = (@ - 1) % UINT_RANGE]

\* One reference less; the last one removes the FILE from the set, whose
\* set_remove_by_element clears the mark and counts down without a look at it.
k_close(f, x) ==
  LET left == (f.refcnt[x] - 1) % UINT_RANGE
  IN IF left # 0 THEN [f EXCEPT !.refcnt[x] = left]
     ELSE [f EXCEPT !.refcnt[x] = left, !.used = @ \ {x},
                    !.size = (@ - 1) % UINT_RANGE]

FreeFds(p) == {fd \in Fds : openFiles[p][fd] = NULL}

-----------------------------------------------------------------------------
(* System calls of the files                                               *)

Program(p, call) == halted = "no" /\ p # 0 /\ kind[p] # "none" /\ call \in Calls

\* The lowest free descriptor takes the FILE.  With none free, or no such file,
\* nothing changes.
sys_open(p) ==
  /\ Program(p, "open") /\ FreeFds(p) # {}
  /\ \E n \in Names \cup {Tty} :
       LET f == fs_open(Now, n)
           x == Lowest(FreePlaces(Now))
       IN Become(IF f.halted # "no" THEN f
                 ELSE [f EXCEPT !.openFiles[p][Lowest(FreeFds(p))] = x])
  /\ UNCHANGED <<kind, leaked>>

sys_close(p) ==
  /\ Program(p, "close")
  /\ \E fd \in Fds \ FreeFds(p) :
       Become([k_close(Now, openFiles[p][fd]) EXCEPT !.openFiles[p][fd] = NULL])
  /\ UNCHANGED <<kind, leaked>>

\* Mutant: the second reference is not counted.
dupUncounted(p) ==
  /\ Program(p, "dup") /\ FreeFds(p) # {}
  /\ \E old \in Fds \ FreeFds(p) :
       Become([Now EXCEPT !.openFiles[p][Lowest(FreeFds(p))] = openFiles[p][old]])
  /\ UNCHANGED <<kind, leaked>>

sys_dup(p) ==
  /\ Program(p, "dup") /\ FreeFds(p) # {}
  /\ \E old \in Fds \ FreeFds(p) :
       Become([Now EXCEPT !.openFiles[p][Lowest(FreeFds(p))] = openFiles[p][old],
                          !.refcnt[openFiles[p][old]] = (@ + 1) % UINT_RANGE])
  /\ UNCHANGED <<kind, leaked>>

\* newfd, if it is open (dup2_over), is closed, but its descriptor stays; oldfd
\* is assigned to itself and counted once more.  Bound: newfd is a descriptor,
\* where the code also lets MAX_FILES_PER_PROC through.
sys_dup2(p) ==
  \E old \in Fds \ FreeFds(p) : \E new \in Fds \ {old} :
    LET x == openFiles[p][old]
        over == new \notin FreeFds(p)
        f == IF over THEN k_close(Now, openFiles[p][new]) ELSE Now
    IN /\ Program(p, IF over THEN "dup2_over" ELSE "dup2") /\ refcnt[x] < MaxRefs
       /\ Become([f EXCEPT !.refcnt[x] = (@ + 1) % UINT_RANGE])
       /\ leaked' = [leaked EXCEPT ![x] = @ + 1]
       /\ UNCHANGED kind

\* The ends of a pipe are opened as two FILEs of one name, the write end first;
\* with one descriptor left only that one is.
sys_pipe(p) ==
  /\ Program(p, "pipe") /\ FreeFds(p) # {}
  /\ LET w == Lowest(FreeFds(p))
         one == fs_open(Now, Pipe)
         first == [one EXCEPT !.openFiles[p][w] = Lowest(FreePlaces(Now))]
         rest == FreeFds(p) \ {w}
         two == fs_open(first, Pipe)
     IN Become(IF one.halted # "no" THEN one
               ELSE IF rest = {} THEN first
               ELSE IF two.halted # "no" THEN two
               ELSE [two EXCEPT !.openFiles[p][Lowest(rest)] = Lowest(FreePlaces(first))])
  /\ UNCHANGED <<kind, leaked>>

-----------------------------------------------------------------------------
(* Processes                                                               *)

FreeSlots == {s \in Procs : kind[s] = "none"}

\* How many descriptors of process p point to x.
Links(p, x) == Cardinality({fd \in Fds : openFiles[p][fd] = x})

\* Mutant: the child's references are not counted.
forkUncounted(p, child) ==
  LET n == Lowest(FreeSlots)
  IN /\ FreeSlots # {}
     /\ kind' = [kind EXCEPT ![n] = child]
     /\ openFiles' = [openFiles EXCEPT ![n] = openFiles[p]]
     /\ UNCHANGED <<used, size, refcnt, node, leaked, halted>>

\* The child is a copy of the parent's entry, and every FILE it points to has
\* one more reference for each descriptor.
do_fork(p, child) ==
  LET n == Lowest(FreeSlots)
  IN /\ FreeSlots # {}
     /\ kind' = [kind EXCEPT ![n] = child]
     /\ openFiles' = [openFiles EXCEPT ![n] = openFiles[p]]
     /\ refcnt' = [x \in Places |-> (refcnt[x] + Links(p, x)) % UINT_RANGE]
     /\ UNCHANGED <<used, size, node, leaked, halted>>

do_kernel_task_fork(p) == Program(p, "fork") /\ do_fork(p, "proc")
do_kernel_task_clone(p) ==
  /\ Program(p, "clone") /\ \A x \in Places : refcnt[x] + Links(p, x) <= MaxRefs
  /\ do_fork(p, "thread")

\* The program file is opened, read and closed again.
do_execve(p) ==
  /\ Program(p, "execve")
  /\ \E n \in Names :
       LET f == fs_open(Now, n)
       IN Become(IF f.halted # "no" THEN f ELSE k_close(f, Lowest(FreePlaces(Now))))
  /\ UNCHANGED <<kind, leaked>>

\* A process closes its descriptors one after the other: a FILE goes when the
\* count comes to 0 on the way.  A thread leaves them open.
do_kernel_task_exit(p) ==
  LET gone == {x \in Places : refcnt[x] \in 1 .. Links(p, x)}
  IN /\ Program(p, "exit")
     /\ kind' = [kind EXCEPT ![p] = "none"]
     /\ IF kind[p] = "thread"
        THEN /\ leaked' = [x \in Places |-> leaked[x] + Links(p, x)]
             /\ UNCHANGED <<openFiles, used, size, refcnt>>
        ELSE /\ openFiles' = [openFiles EXCEPT ![p] = [fd \in Fds |-> NULL]]
             /\ refcnt' = [x \in Places |-> (refcnt[x] - Links(p, x)) % UINT_RANGE]
             /\ used' = used \ gone
             /\ size' = (size - Cardinality(gone)) % UINT_RANGE
             /\ UNCHANGED leaked
     /\ UNCHANGED <<node, halted>>

\* panic() never returns.
panic == halted # "no" /\ UNCHANGED vars

-----------------------------------------------------------------------------
(* The specification                                                       *)

\* kernel_main opened the terminal for pid 0, and the first fork gave pid 1 the
\* same FILEs.
Init ==
  /\ kind = [s \in Procs |-> IF s \in {0, 1} THEN "proc" ELSE "none"]
  /\ openFiles = [s \in Procs |-> [fd \in Fds |->
                    IF s \in {0, 1} /\ fd < STDIO THEN fd ELSE NULL]]
  /\ used = 0 .. STDIO - 1
  /\ size = STDIO
  /\ refcnt = [x \in Places |-> IF x < STDIO THEN 2 ELSE 0]
  /\ node = [x \in Places |-> Tty]
  /\ leaked = [x \in Places |-> 0]
  /\ halted = "no"

Next ==
  \/ \E p \in Procs :
       \/ sys_open(p) \/ sys_close(p) \/ sys_dup(p) \/ sys_dup2(p) \/ sys_pipe(p)
       \/ do_kernel_task_fork(p) \/ do_kernel_task_clone(p)
       \/ do_execve(p) \/ do_kernel_task_exit(p)
  \/ panic

Spec == Init /\ [][Next]_vars

-----------------------------------------------------------------------------
(* Properties                                                              *)

\* Descriptors, counts and the set keep their types.
FilesTypeOK ==
  /\ kind \in [Procs -> {"none", "proc", "thread"}]
  /\ openFiles \in [Procs -> [Fds -> Places \cup {NULL}]]
  /\ used \in SUBSET Places
  /\ size \in 0 .. MAX_FILES
  /\ refcnt \in [Places -> 0 .. UINT_RANGE - 1]
  /\ node \in [Places -> Nodes]
  /\ leaked \in [Places -> Nat]
  /\ halted \in {"no", "overflow", "corrupt"}

\* The descriptors of living processes that point to x.
Holders(x) == {u \in Procs \X Fds : kind[u[1]] # "none" /\ openFiles[u[1]][u[2]] = x}

\* The count of a FILE is the number of descriptors that point to it, through
\* dup, fork and the exits and closes of any of the processes, and of the
\* references that dup2 counts and that threads take with them: the FILE goes
\* with its last reference, not before and not later, and nothing else leaks.
CountsHolders ==
  \A x \in Places : /\ refcnt[x] = Cardinality(Holders(x)) + leaked[x]
                    /\ x \in used <=> refcnt[x] # 0

\* The set agrees with itself: "set_insert: corrupt" is never reached.
NotCorrupt == halted # "corrupt"

\* The set's size is the number of its marks.
SizeCounts == size = Cardinality(used)

\* A thread can lose at most its own descriptors, so what is lost of a FILE stays
\* small as long as MaxRefs holds where references are lost.
Threads == {p \in Procs : kind[p] = "thread"}
LeaksBounded ==
  \A x \in Places : leaked[x] + MAX_FILES_PER_PROC * Cardinality(Threads)
                      <= MaxRefs + MAXPROC * MAX_FILES_PER_PROC

\* The set of FILEs, their counts and the descriptors stay in step: the counts
\* are exact, and no order of opens, dups, forks and closes removes a FILE twice,
\* which the next insertion would meet as a corrupt set.
FilesInv == /\ FilesTypeOK /\ CountsHolders /\ NotCorrupt
            /\ SizeCounts /\ LeaksBounded

\* What one step does to a descriptor that stays open: it means the same file.
SameFile ==
  \A p \in Procs, fd \in Fds :
    LET x == openFiles[p][fd]
    IN /\ kind[p] # "none" /\ kind'[p] # "none"
       /\ x # NULL /\ openFiles'[p][fd] = x
       => node'[x] = node[x] /\ x \in used'

\* An open descriptor means the file it was opened on until its process closes
\* it, whoever else opens, closes, forks, execs or exits: no FILE is given to
\* another file while a descriptor points to it.
OpenStays == [][SameFile]_vars

=============================================================================
