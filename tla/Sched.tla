------------------------------- MODULE Sched -------------------------------
(***************************************************************************)
(* The process core of the rl_os kernel: the process table and scheduler   *)
(* (sched.c), the kernel task queue and the worker that drains it          *)
(* (kernel_worker.c), the process system calls (sys_proc.c), the process   *)
(* half of do_fork (fork.c) and the MMU selectors a process owns (mm.c).   *)
(*                                                                         *)
(* The machine has one CPU and every interrupt handler runs with           *)
(* interrupts off, so a system call, an interrupt, and each di()..ei()     *)
(* section of the worker is one atomic step.  What interleaves is the      *)
(* order of those steps: a timer tick may fall between any two of them,    *)
(* and any process that holds the CPU may issue any call.                  *)
(*                                                                         *)
(* A process that calls fork, clone, execve, waitpid or exit is parked in  *)
(* state KWORKER and a task is left for the worker (pid 0, slot 0), which  *)
(* finds it on its next pass over the queue.  Open files and pages belong  *)
(* to other components; here a process is its slot, state, pid, parent,    *)
(* pending signals and selector.                                           *)
(***************************************************************************)
EXTENDS Integers, FiniteSets, FirstFit

CONSTANTS
  MAXPROC,         \* slots of procs[] (15 in sched.h)
  MAX_QUEUE_SIZE,  \* slots of kernelTaskQueue[] (15 in kernel_worker.h)
  mmuSelectorNum,  \* size of selectorMap[] (64 in mm.c)
  UINT_RANGE,      \* number of values of an unsigned int (2^16 on this CPU)
  MaxPid,          \* bound on the pids a run hands out
  Calls,           \* the calls the programs of a run make
  Sigs             \* the signals they send

SIGALRM == 0
SIGCHLD == 1
SIGINT  == 2
SIGKILL == 3
SIGNUM  == 4
SIGPIPE == 5

AllCalls == {"fork", "clone", "execve", "waitpid", "exit", "kill", "yield", "fault"}

ASSUME SchedAssumption ==
  /\ MAXPROC \in Nat \ {0, 1}
  /\ MAX_QUEUE_SIZE \in Nat /\ MAX_QUEUE_SIZE >= MAXPROC
  /\ mmuSelectorNum \in Nat /\ mmuSelectorNum >= MAXPROC
  /\ MaxPid \in Nat \ {0}
  /\ UINT_RANGE \in Nat /\ MaxPid < UINT_RANGE
  /\ Calls \subseteq AllCalls
  /\ Sigs \subseteq {SIGALRM, SIGCHLD, SIGINT, SIGKILL, SIGPIPE}

Slots     == 0 .. MAXPROC - 1
Tasks     == 0 .. MAX_QUEUE_SIZE - 1
Selectors == 0 .. mmuSelectorNum - 1
NoParent  == -1       \* the NULL parent pointer of procs[0]

VARIABLES
  state,        \* procs[].state
  pid,          \* procs[].pid
  parent,       \* procs[].parent: a slot, because the code keeps a pointer
  sigs,         \* procs[].signalsPending, as the set of bits that are on
  isThread,     \* procs[].isThread
  sel,          \* procs[].mmuSelector
  selectorMap,  \* the selectors marked in use
  nextPid,      \* last pid handed out
  currentTask,  \* the slot on the CPU (cProc points at it)
  ktq,          \* kernelTaskQueue[]
  wpos,         \* the worker's place in its loop; MAX_QUEUE_SIZE = processWaiting
  halted        \* "no", or why the machine stopped making sense

procVars == <<state, pid, parent, sigs, isThread, sel>>
vars == <<state, pid, parent, sigs, isThread, sel, selectorMap, nextPid,
          currentTask, ktq, wpos, halted>>

States == {"NONE", "RUN", "SLEEP", "ZOMBIE", "KWORKER", "NEW", "CONSTRUCT", "BLOCKED"}
TaskTypes == {"NONE", "FORK", "EXECVE", "WAITPID", "EXIT", "CLONE"}

\* A kernel task.  target and nohang are what waitpid finds in its syscall
\* structure: target 0 stands for every pid <= 0.
Task(type, caller, target, nohang) ==
  [type |-> type, caller |-> caller, target |-> target, nohang |-> nohang]
NoTask == Task("NONE", 0, 0, FALSE)
TaskRecords == [type : TaskTypes, caller : 0 .. MaxPid,
                target : 0 .. MaxPid, nohang : BOOLEAN]
SignalSet == {SIGALRM, SIGCHLD, SIGINT, SIGKILL, SIGPIPE}

-----------------------------------------------------------------------------
(* The process table                                                       *)

Live(st, s) == st[s] # "NONE"

\* Slots findProcByPid can return for p; it returns the lowest.
Found(p) == {s \in Slots : pid[s] = p /\ Live(state, s)}
findProcByPid(p) == Lowest(Found(p))

\* Slots findProcByParent can return for slot p; it returns the lowest,
\* whatever that child is doing.
Children(p) == {s \in Slots : parent[s] = p /\ Live(state, s)}

FreeProcs == {s \in Slots : state[s] = "NONE"}
get_free_proc == Lowest(FreeProcs)

\* nextPid is an unsigned int: it wraps.
sched_genPid == IF nextPid + 1 = UINT_RANGE THEN 0 ELSE nextPid + 1

FreeSelectors == Selectors \ selectorMap
mmu_get_free_selector == Lowest(FreeSelectors)

-----------------------------------------------------------------------------
(* The kernel task queue                                                   *)

FreeTasks(q) == {i \in Tasks : q[i].type = "NONE"}

\* The first free entry takes the task; with none free the task is dropped.
addKernelTask(q, t) ==
  IF FreeTasks(q) = {} THEN q ELSE [q EXCEPT ![Lowest(FreeTasks(q))] = t]

-----------------------------------------------------------------------------
(* Scheduling                                                              *)

\* The lowest bit of the mask that is on, among the first SIGNUM bits; SIGNUM
\* when there is none.  SIGPIPE (5) is above SIGNUM (4).
getSignalFromMask(mask) ==
  IF \E i \in 0 .. SIGNUM - 1 : i \in mask
  THEN Lowest({i \in 0 .. SIGNUM - 1 : i \in mask})
  ELSE SIGNUM

\* Mutant: a pending signal makes any process runnable, whatever its state.
RunnableSignalled(st, sg, s) == st[s] \in {"RUN", "NEW"} \/ sg[s] # {}

\* Ready, or asleep with a signal pending.
Runnable(st, sg, s) ==
  \/ st[s] \in {"RUN", "NEW"}
  \/ st[s] \in {"SLEEP", "BLOCKED"} /\ sg[s] # {}

\* Mutant: only SIGPIPE kills.
FatalPipeOnly(sg, s) == sg[s] # {} /\ getSignalFromMask(sg[s]) = SIGPIPE

\* resched() kills the slot it is about to run when this holds.
Fatal(sg, s) ==
  sg[s] # {} /\ getSignalFromMask(sg[s]) \in {SIGKILL, SIGPIPE}

\* Mutant: every scan starts at slot 0.
ScanPosFromZero(c, s) == s + 1

\* Position of slot s in the scan that starts behind slot c and wraps.
ScanPos(c, s) == IF s > c THEN s - c ELSE s - c + MAXPROC

\* The slots the scan can end on: a runnable one that is not killed on the
\* way, or the current slot itself when the scan comes back to it, provided it
\* is not parked (that is the panic) nor killed.  From slot 0 the scan never
\* comes back by way of the loop condition: nextTask wraps inside the body.
ScanEnds(st, sg) ==
  {s \in Slots : /\ ~Fatal(sg, s)
                 /\ \/ Runnable(st, sg, s)
                    \/ s = currentTask /\ s # 0 /\ st[s] # "KWORKER"}

\* The slots killed before the scan ends on slot n.
KilledBefore(st, sg, n) ==
  {s \in Slots : /\ Runnable(st, sg, s) /\ Fatal(sg, s)
                 /\ ScanPos(currentTask, s) < ScanPos(currentTask, n)}

\* One EXIT task for each killed slot, in the order of the scan: the k-th
\* killed slot takes the k-th free entry, and what does not fit is dropped.
addExitTasks(q, killed) ==
  LET places == {ScanPos(currentTask, s) : s \in killed}
      takes(i, s) == Rank(places, ScanPos(currentTask, s)) = Rank(FreeTasks(q), i)
  IN [i \in Tasks |->
        IF i \in FreeTasks(q) /\ \E s \in killed : takes(i, s)
        THEN Task("EXIT", pid[CHOOSE s \in killed : takes(i, s)], 0, FALSE)
        ELSE q[i]]

\* The slots killed by a scan that finds nothing to end on.
KilledInVain(st, sg) == {s \in Slots : Runnable(st, sg, s) /\ Fatal(sg, s)}

\* resched() on the table st, signals sg and queue q its caller leaves: end the
\* scan, kill on the way, start a NEW process.  With nothing to end on, which
\* takes the worker killed, the panic "Switching to same task in state kernel
\* worker!"; from slot 0 the scan would not end at all.
resched(st, sg, q) ==
  /\ sigs' = sg
  /\ \E ends \in {ScanEnds(st, sg)} :
       IF ends = {}
       THEN LET killed == KilledInVain(st, sg)
            IN /\ halted' = "panic"
               /\ state' = [s \in Slots |-> IF s \in killed THEN "KWORKER" ELSE st[s]]
               /\ ktq' = addExitTasks(q, killed)
               /\ UNCHANGED currentTask
       ELSE LET n == CHOOSE s \in ends : \A t \in ends :
                       ScanPos(currentTask, s) <= ScanPos(currentTask, t)
                killed == KilledBefore(st, sg, n)
            IN /\ currentTask' = n
               /\ state' = [s \in Slots |->
                              IF s \in killed THEN "KWORKER"
                              ELSE IF s = n /\ st[s] = "NEW" THEN "RUN" ELSE st[s]]
               /\ ktq' = addExitTasks(q, killed)
               /\ UNCHANGED halted

\* The time slice runs out, in a program or in the worker.
timer_interrupt ==
  /\ halted = "no"
  /\ resched(state, sigs, ktq)
  /\ UNCHANGED <<pid, parent, isThread, sel, selectorMap, nextPid, wpos>>

\* What sendSig does to the pending signals: nothing, if there is no such pid.
sendSig(p, sig) ==
  IF Found(p) = {} THEN sigs
  ELSE [sigs EXCEPT ![findProcByPid(p)] = @ \cup {sig}]

-----------------------------------------------------------------------------
(* System calls of the process on the CPU                                  *)

InProgram(call) == halted = "no" /\ currentTask # 0 /\ call \in Calls

\* fork, clone, execve, waitpid and exit only leave a task, park the caller and
\* give up the CPU.
Park(type, target, nohang) ==
  /\ resched([state EXCEPT ![currentTask] = "KWORKER"], sigs,
             addKernelTask(ktq, Task(type, pid[currentTask], target, nohang)))
  /\ UNCHANGED <<pid, parent, isThread, sel, selectorMap, nextPid, wpos>>

\* Bound: forks under way and done stay within MaxPid.
ForkTasks == {i \in Tasks : ktq[i].type \in {"FORK", "CLONE"}}
PidsLeft == nextPid + Cardinality(ForkTasks) < MaxPid

sys_fork    == InProgram("fork") /\ PidsLeft /\ Park("FORK", 0, FALSE)
sys_clone   == InProgram("clone") /\ PidsLeft /\ Park("CLONE", 0, FALSE)
sys_execve  == InProgram("execve") /\ Park("EXECVE", 0, FALSE)
sys_waitpid == /\ InProgram("waitpid")
               /\ \E target \in 0 .. MaxPid, nohang \in BOOLEAN :
                    Park("WAITPID", target, nohang)
sys_exit    == InProgram("exit") /\ Park("EXIT", 0, FALSE)

sys_yield ==
  /\ InProgram("yield")
  /\ resched(state, sigs, ktq)
  /\ UNCHANGED <<pid, parent, isThread, sel, selectorMap, nextPid, wpos>>

\* kill returns to its caller; the signal is seen by a later resched().  Pid 0,
\* the worker, is no exception: killed, it is parked for an exit that only it
\* could serve.
sys_kill ==
  /\ InProgram("kill")
  /\ \E target \in 0 .. MaxPid, sig \in Sigs : sigs' = sendSig(target, sig)
  /\ UNCHANGED <<state, pid, parent, isThread, sel, selectorMap, nextPid,
                 currentTask, ktq, wpos, halted>>

\* The program executes an undefined instruction.
decoder_interrupt ==
  /\ InProgram("fault")
  /\ resched(state, sendSig(pid[currentTask], SIGKILL), ktq)
  /\ UNCHANGED <<pid, parent, isThread, sel, selectorMap, nextPid, wpos>>

-----------------------------------------------------------------------------
(* The kernel worker: one di()..ei() section per step                      *)

\* The child do_fork(p, clone) builds in slot n: a copy of p's entry with its
\* own pid and, unless it is a thread, its own selector.
do_fork(p, n, clone) ==
  /\ pid' = [pid EXCEPT ![n] = sched_genPid]
  /\ nextPid' = sched_genPid
  /\ parent' = [parent EXCEPT ![n] = p]
  /\ sigs' = [sigs EXCEPT ![n] = sigs[p]]
  /\ isThread' = [isThread EXCEPT ![n] = clone]
  /\ sel' = [sel EXCEPT ![n] = IF clone THEN sel[p] ELSE mmu_get_free_selector]
  /\ selectorMap' = IF clone THEN selectorMap
                    ELSE selectorMap \cup {mmu_get_free_selector}

\* With no slot left do_fork returns NULL and the handler writes through it.
\* What follows a store to a NULL process is not modelled: the run stops here.
NullProcess ==
  halted' = "nullproc" /\ UNCHANGED <<procVars, selectorMap, nextPid, ktq>>

\* Mutant: the entry is left as it was.
TaskKept(i) == UNCHANGED ktq

TaskDone(i) == ktq' = [ktq EXCEPT ![i] = NoTask]

\* No process has the caller's pid: the handler returns and the task stays.
CallerGone(i) == Found(ktq[i].caller) = {}

\* Mutant: an entry the handler could not serve is cleared all the same.
TaskCleared ==
  /\ ktq' = [ktq EXCEPT ![wpos] = NoTask]
  /\ UNCHANGED <<procVars, selectorMap, nextPid, halted>>
TaskStays == UNCHANGED <<procVars, selectorMap, nextPid, ktq, halted>>

\* The child of pid 0 is left under construction: an execve follows.
do_kernel_task_fork(i) ==
  /\ ktq[i].type = "FORK"
  /\ IF CallerGone(i) THEN TaskStays
     ELSE IF FreeProcs = {} THEN NullProcess
     ELSE LET p == findProcByPid(ktq[i].caller)
              n == get_free_proc
          IN /\ do_fork(p, n, FALSE)
             /\ state' = [state EXCEPT ![p] = "RUN",
                            ![n] = IF pid[p] # 0 THEN "NEW" ELSE "CONSTRUCT"]
             /\ TaskDone(i) /\ UNCHANGED halted

do_kernel_task_clone(i) ==
  /\ ktq[i].type = "CLONE"
  /\ IF CallerGone(i) THEN TaskStays
     ELSE IF FreeProcs = {} THEN NullProcess
     ELSE LET p == findProcByPid(ktq[i].caller)
              n == get_free_proc
          IN /\ do_fork(p, n, TRUE)
             /\ state' = [state EXCEPT ![p] = "RUN", ![n] = "RUN"]
             /\ TaskDone(i) /\ UNCHANGED halted

\* The handler starts the process whether do_execve loaded the file or failed.
do_kernel_task_execve(i) ==
  /\ ktq[i].type = "EXECVE"
  /\ IF CallerGone(i) THEN TaskStays
     ELSE /\ state' = [state EXCEPT ![findProcByPid(ktq[i].caller)] = "NEW"]
          /\ TaskDone(i)
          /\ UNCHANGED <<pid, parent, sigs, isThread, sel, selectorMap, nextPid, halted>>

\* Mutant: the pid argument is ignored.
WaitChildren(i, p) == Children(p)

\* The one process waitpid looks at, or none.
WaitCandidates(i, p) ==
  IF ktq[i].target > 0 THEN Found(ktq[i].target) ELSE Children(p)

do_kernel_task_waitpid(i) ==
  /\ ktq[i].type = "WAITPID"
  /\ IF CallerGone(i) THEN TaskStays
     ELSE LET p == findProcByPid(ktq[i].caller)
              c == Lowest(WaitCandidates(i, p))
              dead == WaitCandidates(i, p) # {} /\ state[c] = "ZOMBIE"
          IN IF dead \/ ktq[i].nohang
             THEN /\ state' = IF dead THEN [state EXCEPT ![c] = "NONE", ![p] = "RUN"]
                              ELSE [state EXCEPT ![p] = "RUN"]
                  /\ TaskDone(i)
                  /\ UNCHANGED <<pid, parent, sigs, isThread, sel, selectorMap,
                                 nextPid, halted>>
             ELSE TaskStays

\* Mutants: a dying thread frees the selector it shares; nobody frees any.
FreeAnySelector(p) == selectorMap \ {sel[p]}
FreeNoSelector(p) == selectorMap

\* A thread leaves its selector to the process it runs in.
SelectorsAfterExit(p) ==
  IF isThread[p] THEN selectorMap ELSE selectorMap \ {sel[p]}

\* Mutant: the entry is not cleared, and the caller exits again and again.
exitKeepsTask(i) ==
  /\ ktq[i].type = "EXIT" /\ UNCHANGED ktq
  /\ IF CallerGone(i) THEN UNCHANGED <<state, selectorMap>>
     ELSE LET p == findProcByPid(ktq[i].caller)
          IN /\ state' = [state EXCEPT ![p] = "ZOMBIE"]
             /\ selectorMap' = SelectorsAfterExit(p)
  /\ UNCHANGED <<pid, parent, sigs, isThread, sel, nextPid, halted>>

do_kernel_task_exit(i) ==
  /\ ktq[i].type = "EXIT"
  /\ TaskDone(i)
  /\ IF CallerGone(i) THEN UNCHANGED <<state, selectorMap>>
     ELSE LET p == findProcByPid(ktq[i].caller)
          IN /\ state' = [state EXCEPT ![p] = "ZOMBIE"]
             /\ selectorMap' = SelectorsAfterExit(p)
  /\ UNCHANGED <<pid, parent, sigs, isThread, sel, nextPid, halted>>

TaskIdle(i) == ktq[i].type = "NONE" /\ TaskStays

\* The worker's turn over entry wpos of the queue.
kernel_worker ==
  /\ halted = "no" /\ currentTask = 0 /\ wpos \in Tasks
  /\ \/ TaskIdle(wpos)
     \/ do_kernel_task_fork(wpos)
     \/ do_kernel_task_clone(wpos)
     \/ do_kernel_task_execve(wpos)
     \/ do_kernel_task_waitpid(wpos)
     \/ do_kernel_task_exit(wpos)
  /\ wpos' = wpos + 1
  /\ UNCHANGED currentTask

\* The top of the loop.  No process blocks on a file in this module, so there
\* is no notification to process.
processWaiting ==
  /\ halted = "no" /\ currentTask = 0 /\ wpos = MAX_QUEUE_SIZE
  /\ wpos' = 0
  /\ UNCHANGED <<procVars, selectorMap, nextPid, currentTask, ktq, halted>>

\* panic() never returns.
panic == halted # "no" /\ UNCHANGED vars

-----------------------------------------------------------------------------
(* The specification                                                       *)

\* What kernel_main leaves when it enables interrupts and enters the worker:
\* pid 0 alone in the table, and the two tasks that will make pid 1.
Init ==
  /\ state = [s \in Slots |-> IF s = 0 THEN "RUN" ELSE "NONE"]
  /\ pid = [s \in Slots |-> 0]
  /\ parent = [s \in Slots |-> NoParent]
  /\ sigs = [s \in Slots |-> {}]
  /\ isThread = [s \in Slots |-> FALSE]
  /\ sel = [s \in Slots |-> 0]
  /\ selectorMap = {0}
  /\ nextPid = 0
  /\ currentTask = 0
  /\ ktq = [i \in Tasks |-> IF i = 0 THEN Task("FORK", 0, 0, FALSE)
                            ELSE IF i = 1 THEN Task("EXECVE", 1, 0, FALSE)
                            ELSE NoTask]
  /\ wpos = MAX_QUEUE_SIZE
  /\ halted = "no"

Next ==
  \/ timer_interrupt
  \/ sys_fork \/ sys_clone \/ sys_execve \/ sys_waitpid \/ sys_exit
  \/ sys_yield \/ sys_kill \/ decoder_interrupt
  \/ kernel_worker \/ processWaiting
  \/ panic

Spec == Init /\ [][Next]_vars

\* The worker ends the section it is in.  While it has the CPU it can always do
\* so: some branch of kernel_worker, or the top of the loop, is enabled.
WorkerAdvances ==
  /\ halted = "no" /\ currentTask = 0
  /\ wpos' = (wpos + 1) % (MAX_QUEUE_SIZE + 1)

\* The timer keeps ticking, whatever runs; and the worker, which gets a whole
\* time slice each time it is scheduled, gets through its sections.
Fairness ==
  /\ WF_vars(timer_interrupt)
  /\ SF_wpos(WorkerAdvances)

FairSpec == Spec /\ Fairness

-----------------------------------------------------------------------------
(* Properties                                                              *)

\* Every field of the process table, the queue and the worker keeps its type.
TypeOK ==
  /\ state \in [Slots -> States]
  /\ pid \in [Slots -> 0 .. MaxPid]
  /\ parent \in [Slots -> Slots \cup {NoParent}]
  /\ sigs \in [Slots -> SUBSET SignalSet]
  /\ isThread \in [Slots -> BOOLEAN]
  /\ sel \in [Slots -> Selectors]
  /\ selectorMap \in SUBSET Selectors
  /\ nextPid \in 0 .. MaxPid
  /\ currentTask \in Slots
  /\ ktq \in [Tasks -> TaskRecords]
  /\ wpos \in 0 .. MAX_QUEUE_SIZE
  /\ halted \in {"no", "panic", "nullproc"}

Pending == {i \in Tasks : ktq[i].type # "NONE"}

\* A process parked in KWORKER has a task in the queue: only the worker can
\* bring it back, and addKernelTask drops a task silently when the queue is
\* full, which would park the caller for ever.
ParkedHasTask ==
  \A s \in Slots : state[s] = "KWORKER" => \E i \in Pending : ktq[i].caller = pid[s]

\* The tasks kernel_main queues to make pid 1: its fork from pid 0, and the
\* execve that waits until the fork has built it.
BootTask(i) ==
  \/ ktq[i].type = "FORK" /\ ktq[i].caller = 0 /\ nextPid = 0
  \/ /\ ktq[i].type = "EXECVE" /\ ktq[i].caller = 1
     /\ nextPid = 0 \/ \E s \in Slots : pid[s] = 1 /\ state[s] = "CONSTRUCT"

\* The other way round: a task in the queue belongs to a process that is still
\* parked for it (no task outlives its caller or acts on one that went on), and
\* no process has two tasks (a second EXIT would free what was freed already:
\* "double exit??").
TaskHasParked ==
  /\ \A i \in Pending : \/ BootTask(i)
                        \/ \E s \in Slots : pid[s] = ktq[i].caller /\ state[s] = "KWORKER"
  /\ \A i, j \in Pending : ktq[i].caller = ktq[j].caller => i = j

\* The CPU is always in a process the table calls RUN: resched() never leaves
\* it in a parked, dead or half-built process, and no handler changes the state
\* of the process it returns to.
CurrentIsRunning == halted = "no" => state[currentTask] = "RUN"

\* A program has sent SIGKILL to pid 0.
WorkerKilled == SIGKILL \in sigs[0]

\* resched() always finds a process to run, the worker if nothing else: "we should
\* never get here".  Only kill(0, SIGKILL) takes the worker away.
NoPanic == halted = "panic" => WorkerKilled

\* Two processes in the table never have the same pid.
PidsUnique ==
  \A s, t \in Slots : Live(state, s) /\ Live(state, t) /\ pid[s] = pid[t] => s = t

Alive(s) == state[s] \notin {"NONE", "ZOMBIE"}

\* Two processes that are not threads never run in the same address space, and
\* the selector of a living one is not free for the next fork.
SelectorsPrivate ==
  \A s \in Slots : Alive(s) /\ ~isThread[s] =>
    /\ sel[s] \in selectorMap
    /\ \A t \in Slots \ {s} : Alive(t) /\ ~isThread[t] => sel[s] # sel[t]

\* The inductive invariant behind these.  Beyond them it says that the worker is
\* ready until it is killed, and then parked for ever; that no signal reaches it
\* before there is a program, that pids in the table were handed out and pids to
\* come fit the bound, that every marked selector has an owner (so fork finds one
\* whenever it finds a slot), and that nobody sleeps.
SchedInv ==
  /\ TypeOK /\ ParkedHasTask /\ TaskHasParked /\ CurrentIsRunning /\ NoPanic
  /\ PidsUnique /\ SelectorsPrivate
  /\ state[0] = "RUN" \/ (state[0] = "KWORKER" /\ WorkerKilled)
  /\ pid[0] = 0 /\ ~isThread[0] /\ (nextPid = 0 => sigs[0] = {})
  /\ \A s \in Slots \ {0} : Live(state, s) => pid[s] \in 1 .. nextPid
  /\ nextPid + Cardinality(ForkTasks) <= MaxPid
  /\ \A x \in selectorMap : \E s \in Slots : Alive(s) /\ ~isThread[s] /\ sel[s] = x
  /\ \A s \in Slots : state[s] \notin {"SLEEP", "BLOCKED"}

\* What one step does to slots: the slot of a dead process is only left by
\* being reaped, and the slot of a living one is never taken from it.
DeadStep ==
  \A s \in Slots : /\ state[s] = "ZOMBIE" => state'[s] \in {"ZOMBIE", "NONE"}
                   /\ state'[s] = "NONE" => state[s] \in {"ZOMBIE", "NONE"}
                   /\ pid'[s] # pid[s] => state[s] = "NONE"

\* A dead process stays dead: no handler, signal or scheduling decision brings a
\* zombie back, and waitpid reaps nothing but zombies.
DeadStaysDead == [][DeadStep]_vars

\* Every process that can run gets the CPU, whatever the others do (kill the
\* worker included), as long as it stays able to run and the kernel is up.
NoStarvation ==
  \A s \in Slots : state[s] \in {"RUN", "NEW"}
                     ~> \/ currentTask = s \/ state[s] \notin {"RUN", "NEW"}
                        \/ halted # "no"

\* The worker gets to every fork, clone, execve and exit while the kernel is up
\* and nobody has killed the worker.
TasksServed ==
  \A p \in 1 .. MaxPid :
    LET asked == \E i \in Tasks :
                   ktq[i].caller = p /\ ktq[i].type \in {"FORK", "CLONE", "EXECVE", "EXIT"}
    IN asked ~> ~asked \/ halted # "no" \/ WorkerKilled

\* waitpid(pid) on a process that has died ends with the process reaped, while
\* the kernel is up and nobody has killed the worker.
WaitedForIsReaped ==
  \A p \in 1 .. MaxPid :
    LET waited == \E i \in Tasks : ktq[i].type = "WAITPID" /\ ktq[i].target = p
        dead   == \E s \in Slots : pid[s] = p /\ state[s] = "ZOMBIE"
    IN waited /\ dead ~> ~dead \/ halted # "no" \/ WorkerKilled

\* A process that was preempted with SIGKILL pending, as decoder_interrupt
\* leaves it, dies, unless the kernel stops or the worker is killed first.
FaultKills ==
  \A s \in Slots \ {0} :
    state[s] = "RUN" /\ currentTask # s /\ SIGKILL \in sigs[s]
      ~> ~Alive(s) \/ halted # "no" \/ WorkerKilled

=============================================================================
