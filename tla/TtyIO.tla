------------------------------- MODULE TtyIO -------------------------------
(***************************************************************************)
(* Blocking reads of the terminals: the UART interrupts and tty_read       *)
(* (tty.c), the wait queue and its pending notifications (waitq.c),        *)
(* try_k_read (rlfs3.c) and the worker's processWaiting (kernel_worker.c), *)
(* composed with the process core of module Sched.                         *)
(*                                                                         *)
(* A reader that finds its terminal empty leaves an entry in the wait      *)
(* queue and is put to BLOCKED.  A UART interrupt stores the characters    *)
(* and queues a notification; the worker, at the top of its loop, repeats  *)
(* the read on behalf of each waiter, in the waiter's name.  Characters    *)
(* are only counted.  The notifications are the queue that module          *)
(* CircularBuffer is shown to be.                                          *)
(***************************************************************************)
EXTENDS Sched, WaitQ, Sequences

CONSTANTS
  Ttys,                  \* the terminals (two in tty.c), each with an inode of its own
  ReadSizes,             \* how many characters the programs ask for
  UART_BUFFER_SIZE,      \* 500 in tty.c
  WAITQ_PENDING_LENGTH,  \* 200 in waitq.h
  Burst                  \* bound on the notifications a run lets pile up

ASSUME TtyAssumption ==
  /\ ReadSizes \subseteq Nat \ {0}
  /\ UART_BUFFER_SIZE \in Nat \ {0}
  /\ WAITQ_LENGTH \in Nat /\ WAITQ_LENGTH >= MAXPROC
  /\ WAITQ_PENDING_LENGTH \in Nat \ {0}
  /\ Burst \in Nat \ {0}

VARIABLES
  uart,     \* uart_buffer[].size
  waitq,    \* waitq[]
  pending   \* waitqPendingNotifications

ioVars == <<uart, waitq, pending>>
allVars == <<vars, ioVars>>

\* A wait queue entry: who reads, what it waits for (the inode of the file it
\* reads) and how much it wants.
Entry(who, what, n) == [pid |-> who, trigger |-> what, n |-> n]

-----------------------------------------------------------------------------
(* The terminals                                                           *)

\* What a terminal's buffer holds after k characters more.
stored(size, k) == FewerOf(size + k, UART_BUFFER_SIZE)

\* Characters arrive: they are stored, the oldest giving way when the buffer is
\* full, and the readers of the inode the terminal was opened as are notified.
\* waitqNotify panics when there is no room for the notification.
uart_interrupt(m) ==
  /\ halted = "no" /\ Len(pending) < Burst
  /\ \E k \in 1 .. UART_BUFFER_SIZE :
       uart' = [uart EXCEPT ![m] = stored(@, k)]
  /\ IF Len(pending) < WAITQ_PENDING_LENGTH
     THEN pending' = Append(pending, m) /\ UNCHANGED halted
     ELSE halted' = "panic" /\ UNCHANGED pending
  /\ UNCHANGED <<procVars, selectorMap, nextPid, currentTask, ktq, wpos, waitq>>

\* What tty_read leaves in the buffer it read up to n characters from.
tty_read(size, n) == size - FewerOf(size, n)

\* A program reads a terminal: try_k_read in its own name.
sys_read(m, n) ==
  /\ halted = "no" /\ currentTask # 0
  /\ IF uart[m] # 0
     THEN /\ uart' = [uart EXCEPT ![m] = tty_read(@, n)]
          /\ UNCHANGED <<vars, waitq, pending>>
     ELSE IF FreeEntries(waitq) = {}
     THEN halted' = "panic" /\ UNCHANGED <<procVars, selectorMap, nextPid,
                                           currentTask, ktq, wpos, ioVars>>
     ELSE /\ waitq' = waitqAddEntry(waitq, Entry(pid[currentTask], m, n))
          /\ resched([state EXCEPT ![currentTask] = "BLOCKED"], sigs, ktq)
          /\ UNCHANGED <<pid, parent, isThread, sel, selectorMap, nextPid, wpos,
                         uart, pending>>

-----------------------------------------------------------------------------
(* The worker serves the notifications                                     *)

\* Mutant: a waiter that finds the buffer empty again is not put back.
retryForgets(z, i) ==
  LET p == findProcByPid(z.wq[i].pid)
      m == z.wq[i].trigger
  IN IF Found(z.wq[i].pid) = {} THEN [z EXCEPT !.panic = TRUE]
     ELSE IF z.uart[m] # 0
     THEN [z EXCEPT !.st[p] = "RUN", !.uart[m] = tty_read(@, z.wq[i].n)]
     ELSE [z EXCEPT !.st[p] = "BLOCKED"]

\* processWaitQEntry and the try_k_read it makes in the waiter's name, on the
\* table, queue and buffers collected in z: the waiter is made ready, whatever
\* state it is in, and blocks again if the buffer is empty.
processWaitQEntry(z, i) ==
  LET p == findProcByPid(z.wq[i].pid)
      m == z.wq[i].trigger
  IN IF Found(z.wq[i].pid) = {} THEN [z EXCEPT !.panic = TRUE]
     ELSE IF z.uart[m] # 0
     THEN [z EXCEPT !.st[p] = "RUN", !.uart[m] = tty_read(@, z.wq[i].n)]
     ELSE IF FreeEntries(z.wq) = {} THEN [z EXCEPT !.panic = TRUE]
     ELSE [z EXCEPT !.st[p] = "BLOCKED", !.wq = waitqAddEntry(@, z.wq[i])]

\* Mutant: the entry stays after its reader was served.
visitKeeps(z, what, i) ==
  IF i < z.e \/ z.panic \/ ~Waiting(z.wq, i) \/ z.wq[i].trigger # what THEN z
  ELSE processWaitQEntry(z, i)

\* waitqGetNextWaiter stops at entry i only if it lies at or behind e.  The entry
\* is cleared after its reader was served, so it is never the one a reader that
\* blocks again takes.
visit(z, what, i) ==
  IF i < z.e \/ z.panic \/ ~Waiting(z.wq, i) \/ z.wq[i].trigger # what THEN z
  ELSE LET y == processWaitQEntry(z, i) IN [y EXCEPT !.wq[i] = NoEntry]

\* Mutant: the last entry of the queue is never looked at.
wakeShort(z, what) ==
  LET passed[i \in 0 .. WAITQ_LENGTH] ==
        IF i = 0 THEN {z} ELSE {visit(x, what, i - 1) : x \in passed[i - 1]}
  IN {[y EXCEPT !.e = WAITQ_LENGTH] : y \in passed[WAITQ_LENGTH - 1]}

\* The inner loop for one notification: it leaves e behind the last entry.
\* passed[i] holds what the kernel can be when i entries were looked at.
wake(z, what) ==
  LET passed[i \in 0 .. WAITQ_LENGTH] ==
        IF i = 0 THEN {z} ELSE {visit(x, what, i - 1) : x \in passed[i - 1]}
  IN {[y EXCEPT !.e = WAITQ_LENGTH] : y \in passed[WAITQ_LENGTH]}

\* What the kernel can be after the first k notifications.  e is set to 0 once,
\* not for each of them.
served[k \in 0 .. Len(pending)] ==
  IF k = 0 THEN {[st |-> state, wq |-> waitq, uart |-> uart, e |-> 0, panic |-> FALSE]}
  ELSE UNION {wake(z, pending[k]) : z \in served[k - 1]}

\* The top of the worker's loop.
processWaitingIO ==
  /\ halted = "no" /\ currentTask = 0 /\ wpos = MAX_QUEUE_SIZE
  /\ \E z \in served[Len(pending)] :
       /\ state' = z.st /\ waitq' = z.wq /\ uart' = z.uart
       /\ halted' = IF z.panic THEN "panic" ELSE "no"
  /\ pending' = <<>>
  /\ wpos' = 0
  /\ UNCHANGED <<pid, parent, sigs, isThread, sel, selectorMap, nextPid,
                 currentTask, ktq>>

-----------------------------------------------------------------------------
(* The specification                                                       *)

TInit ==
  /\ Init
  /\ uart = [m \in Ttys |-> 0]
  /\ waitq = waitq_init
  /\ pending = <<>>

SchedStep ==
  /\ \/ timer_interrupt
     \/ sys_fork \/ sys_clone \/ sys_execve \/ sys_waitpid \/ sys_exit
     \/ sys_yield \/ sys_kill \/ decoder_interrupt
     \/ kernel_worker
     \/ panic
  /\ UNCHANGED ioVars

TNext ==
  \/ SchedStep
  \/ \E m \in Ttys : uart_interrupt(m)
  \/ \E m \in Ttys, n \in ReadSizes : sys_read(m, n)
  \/ processWaitingIO

TSpec == TInit /\ [][TNext]_allVars

\* As in Sched: the timer ticks and the worker gets through its sections.  No
\* character need ever arrive and no program need ever read.
TFairSpec ==
  /\ TSpec
  /\ WF_allVars(timer_interrupt /\ UNCHANGED ioVars)
  /\ SF_wpos(WorkerAdvances)

-----------------------------------------------------------------------------
(* Properties                                                              *)

\* The variables of this module keep their types.
TtyTypeOK ==
  /\ TypeOK
  /\ uart \in [Ttys -> 0 .. UART_BUFFER_SIZE]
  /\ DOMAIN waitq = Entries
  /\ \A i \in Entries : Waiting(waitq, i) =>
       waitq[i] \in [pid : 1 .. MaxPid, trigger : Ttys, n : ReadSizes]
  /\ pending \in Seq(Ttys)

\* The wait queue and the process table agree: every entry is the entry of one
\* process that is BLOCKED, and a BLOCKED process has an entry.  An entry that
\* outlives its reader would later be served in the name of a process that is
\* running, dead or gone; a BLOCKED process without one would never wake.
WaitersBlocked ==
  /\ \A i \in Entries : Waiting(waitq, i) =>
       \E s \in Slots : pid[s] = waitq[i].pid /\ state[s] = "BLOCKED"
  /\ \A s \in Slots : state[s] = "BLOCKED" =>
       \E i \in Entries : waitq[i].pid = pid[s]
  /\ \A i, j \in Entries : Waiting(waitq, i) /\ waitq[i].pid = waitq[j].pid => i = j

\* Terminals, wait queue and process table stay in step while programs read,
\* fork, clone, exec, wait, exit and fault: the types hold, entries and blocked
\* processes correspond, and the worker's repeated reads never leave the CPU in
\* a process that is not running.
TtyInv == TtyTypeOK /\ WaitersBlocked /\ CurrentIsRunning

\* No wakeup is lost: while a reader is blocked on a terminal that has
\* characters, a notification for it is still to be served.
NoLostWakeup ==
  \A i \in Entries : Waiting(waitq, i) /\ uart[waitq[i].trigger] # 0 =>
    \E k \in 1 .. Len(pending) : pending[k] = waitq[i].trigger

\* A reader blocked on a terminal with characters gets some, or another reader
\* takes them all, while the kernel is up and the worker is not killed: also when
\* kills leave stale entries.
ReaderWoken ==
  \A s \in Slots, m \in Ttys :
    LET reads == \E i \in Entries : /\ Waiting(waitq, i) /\ waitq[i].trigger = m
                                    /\ waitq[i].pid = pid[s] /\ state[s] = "BLOCKED"
    IN reads /\ uart[m] # 0 ~> ~reads \/ uart[m] = 0 \/ halted # "no" \/ WorkerKilled

=============================================================================
