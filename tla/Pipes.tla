------------------------------- MODULE Pipes -------------------------------
(***************************************************************************)
(* A pipe (piper.c): blocking reads and writes of a ring of words through  *)
(* try_k_read and try_k_write (rlfs3.c), the wait queue, and the worker's  *)
(* processWaiting (kernel_worker.c), which repeats the blocked calls.      *)
(*                                                                         *)
(* The words are only counted: module CircularBuffer keeps them in order.  *)
(* Which process runs is left open; module Sched decides it.  The read end *)
(* is one FILE that the readers share, the write end another.              *)
(*                                                                         *)
(* Who writes to a pipe without readers gets a SIGPIPE, which does not     *)
(* kill: it is number 5, getSignalFromMask returns at most SIGNUM = 4, and *)
(* resched() acts on 3 and 5 only (sched.c:204, 275).  The signal stays    *)
(* pending, so that resched() runs the process whether it is blocked or    *)
(* not.  It goes on to call, and each call that blocks leaves one entry    *)
(* more.                                                                   *)
(***************************************************************************)
EXTENDS WaitQ

CONSTANTS
  Readers, Writers,      \* the processes at each end, as pids
  IoSizes,               \* how many words they read or write at a time
  PIPE_MAX_LENGTH,       \* 256 in piper.h
  WAITQ_PENDING_LENGTH,  \* 200 in waitq.h
  Reopens,               \* whether they open an end again that they closed
  Burst                  \* bound on the notifications a run lets pile up

ASSUME PipesAssumption ==
  /\ Readers \subseteq Nat \ {0} /\ Writers \subseteq Nat \ {0}
  /\ IoSizes \subseteq Nat \ {0}
  /\ PIPE_MAX_LENGTH \in Nat \ {0}
  /\ WAITQ_LENGTH \in Nat /\ WAITQ_PENDING_LENGTH \in Nat /\ Burst \in Nat
  /\ Reopens \in BOOLEAN

Procs == Readers \cup Writers

VARIABLES
  proc,          \* what each process does: RUN or BLOCKED
  signalled,     \* the processes with a SIGPIPE pending
  pipe,          \* pipes[0]: the number of words in it and the flags
  open,          \* the ends that are open
  waitq,         \* waitq[]
  stale,         \* the entries of waitq whose FILE was closed and freed
  pending,       \* notifications of the pipe that wait for the worker
  blockRequest,  \* the word the devices ask with for a block (1) or a signal (2)
  halted         \* "no", "panic", or "freed": the worker used a freed FILE

vars == <<proc, signalled, pipe, open, waitq, stale, pending, blockRequest, halted>>

Ends == {"read", "write"}
Holders(end) == IF end = "read" THEN Readers ELSE Writers

Entry(who, end, n) == [pid |-> who, end |-> end, n |-> n]

\* What a call works on: everything but the ends.
Kernel == [proc |-> proc, sig |-> signalled, pipe |-> pipe, wq |-> waitq,
           pending |-> pending, req |-> blockRequest, halted |-> halted]
Becomes(z) ==
  /\ proc' = z.proc /\ signalled' = z.sig /\ pipe' = z.pipe /\ waitq' = z.wq
  /\ pending' = z.pending /\ blockRequest' = z.req /\ halted' = z.halted

-----------------------------------------------------------------------------
(* Reading and writing                                                     *)

waitqNotify(z) ==
  IF z.pending < WAITQ_PENDING_LENGTH THEN [z EXCEPT !.pending = @ + 1]
  ELSE [z EXCEPT !.halted = "panic"]

\* Mutant: the writers of a full pipe are not told.
readQuiet(z, n) ==
  LET k == FewerOf(n, z.pipe.size)
  IN [z |-> [z EXCEPT !.pipe.size = @ - k,
                      !.req = IF k = 0 /\ ~z.pipe.writeClosed THEN 1 ELSE @],
      done |-> k]

\* Both ends move at most what there is; an end that moves nothing asks for a block.
piper_read(z, n) ==
  LET y == IF z.pipe.size = PIPE_MAX_LENGTH THEN waitqNotify(z) ELSE z
      k == FewerOf(n, z.pipe.size)
  IN [z |-> [y EXCEPT !.pipe.size = @ - k,
                      !.req = IF k = 0 /\ ~z.pipe.writeClosed THEN 1 ELSE @],
      done |-> k]

\* Mutant: the readers are told only when the pipe has become full.
writeNotifiesFull(z, n) ==
  LET k == FewerOf(n, PIPE_MAX_LENGTH - z.pipe.size)
      y == IF z.pipe.size + k = PIPE_MAX_LENGTH THEN waitqNotify(z) ELSE z
  IN IF z.pipe.readClosed THEN [z |-> [z EXCEPT !.req = 2], done |-> 0]
     ELSE [z |-> [y EXCEPT !.pipe.size = @ + k, !.req = IF k = 0 THEN 1 ELSE @], done |-> k]

piper_write(z, n) ==
  LET y == IF z.pipe.size = 0 THEN waitqNotify(z) ELSE z
      k == FewerOf(n, PIPE_MAX_LENGTH - z.pipe.size)
  IN IF z.pipe.readClosed THEN [z |-> [z EXCEPT !.req = 2], done |-> 0]
     ELSE [z |-> [y EXCEPT !.pipe.size = @ + k, !.req = IF k = 0 THEN 1 ELSE @], done |-> k]

\* The caller leaves an entry and blocks, unless a SIGPIPE keeps it running.
Block(z, p, end, n) ==
  IF FreeEntries(z.wq) = {} THEN [z EXCEPT !.halted = "panic"]
  ELSE [z EXCEPT !.req = 0, !.proc[p] = "BLOCKED",
                 !.wq = waitqAddEntry(@, Entry(p, end, n))]

\* blockRequest is looked at only when nothing was read, whoever left it there.
try_k_read(z, p, n) ==
  LET r == piper_read(z, n)
  IN IF r.done = 0 /\ r.z.req # 0 THEN Block(r.z, p, "read", n) ELSE r.z

\* For a signal the request stays, and the caller is blocked without an entry.
try_k_write(z, p, n) ==
  LET r == piper_write(z, n)
  IN IF r.done = 0 /\ r.z.req = 1 THEN Block(r.z, p, "write", n)
     ELSE IF r.done = 0 /\ r.z.req = 2 THEN [r.z EXCEPT !.proc[p] = "BLOCKED", !.sig = @ \cup {p}]
     ELSE r.z

try(z, p, end, n) == IF end = "read" THEN try_k_read(z, p, n) ELSE try_k_write(z, p, n)

-----------------------------------------------------------------------------
(* The steps                                                               *)

Up == halted = "no" /\ pending < Burst

\* resched() chooses p: it is ready, or blocked with a signal pending.
Runs(p) == proc[p] = "RUN" \/ p \in signalled

sys_read(p, n) ==
  /\ Up /\ p \in Readers /\ Runs(p) /\ "read" \in open
  /\ \E z \in {try_k_read(Kernel, p, n)} : Becomes(z)
  /\ UNCHANGED <<open, stale>>

sys_write(p, n) ==
  /\ Up /\ p \in Writers /\ Runs(p) /\ "write" \in open
  /\ \E z \in {try_k_write(Kernel, p, n)} : Becomes(z)
  /\ UNCHANGED <<open, stale>>

ClosedEnd(end) == IF end = "read" THEN pipe.readClosed ELSE pipe.writeClosed

\* piper_open: an end that was closed and is opened again stays marked closed.
k_open(end) ==
  /\ halted = "no" /\ end \notin open /\ \E p \in Holders(end) : Runs(p)
  /\ ClosedEnd(end) => Reopens
  /\ open' = open \cup {end}
  /\ pipe' = [pipe EXCEPT !.used = TRUE]
  /\ UNCHANGED <<proc, signalled, waitq, stale, pending, blockRequest, halted>>

\* The entries of an end.
EntriesAt(end) == {i \in Entries : Waiting(waitq, i) /\ waitq[i].end = end}

Fresh == [used |-> FALSE, size |-> 0, readClosed |-> FALSE, writeClosed |-> FALSE]

\* Mutant: the words stay in the pipe.
closeKeepsWords(end) ==
  LET c == IF end = "read" THEN [pipe EXCEPT !.readClosed = TRUE]
           ELSE [pipe EXCEPT !.writeClosed = TRUE]
  IN /\ halted = "no" /\ end \in open /\ \A p \in Holders(end) : Runs(p)
     /\ open' = open \ {end} /\ stale' = stale \cup EntriesAt(end)
     /\ pipe' = IF c.readClosed /\ c.writeClosed THEN [Fresh EXCEPT !.size = c.size] ELSE c
     /\ UNCHANGED <<proc, signalled, waitq, pending, blockRequest, halted>>

\* The last holder of an end closes it, itself or by its exit.  No one else is
\* told, and its FILE is freed; entries may name it, if a signalled process left
\* them.  When both ends were closed the pipe is empty and free.
piper_close(end) ==
  LET c == IF end = "read" THEN [pipe EXCEPT !.readClosed = TRUE]
           ELSE [pipe EXCEPT !.writeClosed = TRUE]
  IN /\ halted = "no" /\ end \in open /\ \A p \in Holders(end) : Runs(p)
     /\ open' = open \ {end} /\ stale' = stale \cup EntriesAt(end)
     /\ pipe' = IF c.readClosed /\ c.writeClosed THEN Fresh ELSE c
     /\ UNCHANGED <<proc, signalled, waitq, pending, blockRequest, halted>>

\* Mutant: a call that blocks again is forgotten.
serveForgets(z, i) ==
  IF z.halted # "no" \/ ~Waiting(z.wq, i) THEN z
  ELSE [try([z EXCEPT !.proc[z.wq[i].pid] = "RUN"], z.wq[i].pid, z.wq[i].end, z.wq[i].n)
          EXCEPT !.wq = [z.wq EXCEPT ![i] = NoEntry]]

\* The worker makes the waiter ready, repeats its call and clears its entry.  What
\* a call does to a FILE that was freed is not modelled.
processWaitQEntry(z, i) ==
  IF z.halted # "no" \/ ~Waiting(z.wq, i) THEN z
  ELSE IF i \in stale THEN [z EXCEPT !.halted = "freed"]
  ELSE LET e == z.wq[i]
           y == try([z EXCEPT !.proc[e.pid] = "RUN"], e.pid, e.end, e.n)
       IN [y EXCEPT !.wq[i] = NoEntry]

\* What the kernel can be when the worker, serving a notification, has passed i
\* entries.
served[i \in 0 .. WAITQ_LENGTH] ==
  IF i = 0 THEN {[Kernel EXCEPT !.pending = 0]}
  ELSE {processWaitQEntry(z, i - 1) : z \in served[i - 1]}

\* The worker serves the first notification.  e then lies behind the queue: the
\* others, and those the repeated calls add, are taken off without effect.
processWaiting ==
  /\ halted = "no" /\ pending > 0
  /\ \E z \in served[WAITQ_LENGTH] : Becomes([z EXCEPT !.pending = 0])
  /\ UNCHANGED <<open, stale>>

\* The worker with nothing to do, and a machine that has stopped.
Idle == (pending = 0 \/ halted # "no") /\ UNCHANGED vars

Init ==
  /\ proc = [p \in Procs |-> "RUN"] /\ signalled = {}
  /\ pipe = Fresh /\ open = {}
  /\ waitq = waitq_init /\ stale = {}
  /\ pending = 0 /\ blockRequest = 0 /\ halted = "no"

Next ==
  \/ \E p \in Procs, n \in IoSizes : sys_read(p, n) \/ sys_write(p, n)
  \/ \E end \in Ends : k_open(end) \/ piper_close(end)
  \/ processWaiting
  \/ Idle

Spec == Init /\ [][Next]_vars
FairSpec == Spec /\ WF_vars(processWaiting)

-----------------------------------------------------------------------------
(* Properties                                                              *)

\* The variables keep their types.
PipesTypeOK ==
  /\ proc \in [Procs -> {"RUN", "BLOCKED"}] /\ signalled \subseteq Procs
  /\ pipe \in [used : BOOLEAN, size : 0 .. PIPE_MAX_LENGTH,
               readClosed : BOOLEAN, writeClosed : BOOLEAN]
  /\ open \subseteq Ends
  /\ \A i \in Entries : Waiting(waitq, i) =>
       waitq[i] \in [pid : Procs, end : Ends, n : IoSizes]
  /\ stale \subseteq Entries
  /\ pending \in 0 .. WAITQ_PENDING_LENGTH
  /\ blockRequest \in 0 .. 2
  /\ halted \in {"no", "panic", "freed"}

Blocked(p, end) == \E i \in Entries : waitq[i] \in [pid : {p}, end : {end}, n : IoSizes]

\* Blocked processes and entries of the wait queue are the same thing: one entry
\* for each, so that a blocked call is repeated once and in the right name.  Only
\* a process with a SIGPIPE is blocked without an entry, or has several.
WaitersBlocked ==
  /\ \A p \in Procs \ signalled :
       proc[p] = "BLOCKED" <=> \E end \in Ends : Blocked(p, end)
  /\ \A i, j \in Entries :
       Waiting(waitq, i) /\ waitq[i].pid = waitq[j].pid /\ i # j
         => waitq[i].pid \in signalled

\* The pipe and the wait queue stay in step: the pipe never holds more than it
\* can, notifications never exceed their queue, and blocked calls have one entry
\* each, however often the worker repeats them.
PipesInv == PipesTypeOK /\ WaitersBlocked

\* No wakeup is lost: while a reader sleeps and there is something to read, or a
\* writer sleeps and there is room, the worker has a notification to serve, also
\* when a writer goes on after its SIGPIPE and its calls pile up in the queue.
\* With it reader and writer cannot both sleep for ever.  (Such a writer itself
\* does not sleep, and a call it left in the queue may never be repeated.)
NoLostWakeup ==
  \A p \in Procs \ signalled :
    (\/ Blocked(p, "read") /\ pipe.size > 0
     \/ Blocked(p, "write") /\ pipe.size < PIPE_MAX_LENGTH)
      => pending > 0 \/ halted # "no"

\* A pipe that no one uses is as new: nothing of its last use shows in the next,
\* not even of a writer that its SIGPIPE did not kill.
FreeIsFresh == ~pipe.used => pipe = Fresh

\* A blocked call whose condition has come true is finished, or the other side
\* took its chance away, or a SIGPIPE makes its process run on.
CallFinished ==
  \A p \in Procs :
    /\ Blocked(p, "read") /\ pipe.size > 0
         ~> ~Blocked(p, "read") \/ pipe.size = 0 \/ p \in signalled \/ halted # "no"
    /\ Blocked(p, "write") /\ pipe.size < PIPE_MAX_LENGTH
         ~> \/ ~Blocked(p, "write") \/ pipe.size = PIPE_MAX_LENGTH
            \/ p \in signalled \/ halted # "no"

=============================================================================
