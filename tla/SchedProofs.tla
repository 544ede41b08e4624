---------------------------- MODULE SchedProofs ----------------------------
(***************************************************************************)
(* Proofs about Sched and TtyIO: SchedInv is inductive, and what follows   *)
(* from it.  The argument is about one relation, Linked: parked processes  *)
(* and queued tasks correspond one to one.  Hence there are never more     *)
(* tasks than processes, so addKernelTask, which drops a task when the     *)
(* queue is full, always finds room (LEMMA RoomForTasks); hence a parked   *)
(* process keeps its task.  The worker itself is parked only when a        *)
(* program killed it, so that until then resched() always finds it if      *)
(* nothing else (LEMMA ReschedStep).                                       *)
(*                                                                         *)
(* The lemmas allow for processes that are BLOCKED, which there are in     *)
(* module TtyIO.  The second half is about it: blocked readers and entries *)
(* of the wait queue correspond one to one (Waiters), through the calls of *)
(* programs and through every stage of the pass in which the worker        *)
(* repeats the reads.                                                      *)
(***************************************************************************)
EXTENDS TtyIO, FirstFitProofs, TLAPS, FiniteSetTheorems, SequenceTheorems

USE SchedAssumption

Busy(q) == {i \in Tasks : q[i].type # "NONE"}

\* TaskHasParked and ParkedHasTask of a table st and a queue q that a handler
\* has prepared but not yet handed to resched().
Linked(st, q) ==
  /\ \A s \in Slots : st[s] = "KWORKER" => \E i \in Busy(q) : q[i].caller = pid[s]
  /\ \A i \in Busy(q) :
       \/ q[i].type = "FORK" /\ q[i].caller = 0 /\ nextPid = 0
       \/ /\ q[i].type = "EXECVE" /\ q[i].caller = 1
          /\ nextPid = 0 \/ \E s \in Slots : pid[s] = 1 /\ st[s] = "CONSTRUCT"
       \/ \E s \in Slots : pid[s] = q[i].caller /\ st[s] = "KWORKER"
  /\ \A i, j \in Busy(q) : q[i].caller = q[j].caller => i = j

\* The process table st in which slot 0 is the worker, ready or parked, and pids
\* are unique.
GoodTable(st) ==
  /\ st \in [Slots -> States]
  /\ pid \in [Slots -> 0 .. MaxPid]
  /\ nextPid \in 0 .. MaxPid
  /\ st[0] \in {"RUN", "KWORKER"} /\ pid[0] = 0
  /\ \A s \in Slots : st[s] # "SLEEP"
  /\ \A s, t \in Slots : Live(st, s) /\ Live(st, t) /\ pid[s] = pid[t] => s = t
  /\ \A s \in Slots \ {0} : Live(st, s) => pid[s] \in 1 .. nextPid

\* No signal has reached a blocked process, so that only the worker wakes it.
Calm(st, sg) == \A s \in Slots : st[s] = "BLOCKED" => sg[s] = {}

\* The index ranges of procs[], kernelTaskQueue[] and selectorMap[] are finite.
LEMMA SlotsFinite ==
  /\ IsFiniteSet(Slots) /\ Cardinality(Slots) = MAXPROC
  /\ IsFiniteSet(Tasks) /\ Cardinality(Tasks) = MAX_QUEUE_SIZE
  /\ IsFiniteSet(Selectors) /\ Cardinality(Selectors) = mmuSelectorNum
<1>1. ASSUME NEW N \in Nat \ {0}
      PROVE  IsFiniteSet(0 .. N - 1) /\ Cardinality(0 .. N - 1) = N
  <2>1. N - 1 \in Int /\ ~(0 > N - 1)
    OBVIOUS
  <2>2. /\ IsFiniteSet(0 .. N - 1)
        /\ Cardinality(0 .. N - 1) = IF 0 > N - 1 THEN 0 ELSE (N - 1) - 0 + 1
    BY <2>1, FS_Interval
  <2> QED
    BY <2>1, <2>2
<1>2. /\ MAXPROC \in Nat \ {0} /\ MAX_QUEUE_SIZE \in Nat \ {0}
      /\ mmuSelectorNum \in Nat \ {0}
  OBVIOUS
<1> QED
  BY <1>1, <1>2 DEF Slots, Tasks, Selectors

\* The queue has room for one more task for each ready process: tasks already
\* queued belong to processes that are not ready.
LEMMA RoomForTasks ==
  ASSUME NEW st, NEW q \in [Tasks -> TaskRecords], GoodTable(st), Linked(st, q),
         NEW R \in SUBSET Slots, \A s \in R : st[s] \in {"RUN", "NEW"},
         0 \in R => nextPid # 0
  PROVE  Cardinality(R) <= Cardinality(FreeTasks(q))
<1> DEFINE B == Busy(q)
           owner(i) == CHOOSE s \in Slots : /\ pid[s] = q[i].caller
                                            /\ st[s] \in {"KWORKER", "CONSTRUCT"}
           f == [i \in B |-> owner(i)]
<1>0. /\ IsFiniteSet(R) /\ Cardinality(R) \in Nat
      /\ IsFiniteSet(B) /\ Cardinality(B) \in Nat
      /\ IsFiniteSet(FreeTasks(q)) /\ Cardinality(FreeTasks(q)) = MAX_QUEUE_SIZE - Cardinality(B)
  <2>1. IsFiniteSet(Slots) /\ R \in SUBSET Slots
    BY SlotsFinite
  <2>2. IsFiniteSet(R) /\ Cardinality(R) \in Nat
    BY <2>1, FS_Subset, FS_CardinalityType
  <2>3. B \in SUBSET Tasks /\ FreeTasks(q) = Tasks \ B /\ Tasks \cap B = B
    BY DEF Busy, FreeTasks
  <2> HIDE DEF B
  <2>4. IsFiniteSet(B) /\ Cardinality(B) \in Nat
    BY <2>3, SlotsFinite, FS_Subset, FS_CardinalityType
  <2>5. IsFiniteSet(Tasks \ B) /\ Cardinality(Tasks \ B) = Cardinality(Tasks) - Cardinality(Tasks \cap B)
    BY SlotsFinite, FS_Difference
  <2> QED
    BY <2>2, <2>3, <2>4, <2>5, SlotsFinite
<1>1. CASE R = {}
  BY <1>1, <1>0, FS_EmptySet, FS_CardinalityType
<1>2. CASE R # {}
  <2>1. nextPid # 0
    BY <1>2 DEF GoodTable, Live
  <2>2. \A i \in B : \E s \in Slots : /\ pid[s] = q[i].caller
                                      /\ st[s] \in {"KWORKER", "CONSTRUCT"}
    BY <2>1 DEF Linked
  <2>3. \A i \in B : /\ owner(i) \in Slots /\ pid[owner(i)] = q[i].caller
                     /\ st[owner(i)] \in {"KWORKER", "CONSTRUCT"}
    BY <2>2
  <2>4. \A i \in B : owner(i) \in Slots \ R
    BY <2>3
  <2>5. \A i, j \in B : owner(i) = owner(j) => i = j
    BY <2>3 DEF Linked
  <2> HIDE DEF owner, B
  <2>6. f \in Injection(B, Slots \ R)
    BY <2>4, <2>5 DEF Injection, IsInjective
  <2>7. /\ IsFiniteSet(Slots \ R)
        /\ Cardinality(Slots \ R) = MAXPROC - Cardinality(R)
    <3>1. Slots \cap R = R
      OBVIOUS
    <3> QED
      BY <3>1, SlotsFinite, FS_Difference
  <2>8. Cardinality(B) <= Cardinality(Slots \ R)
    BY <2>6, <2>7, FS_Injection
  <2> QED
    BY <1>0, <2>7, <2>8
<1> QED
  BY <1>1, <1>2

\* The scan visits every slot at a place of its own, the current slot last.
LEMMA ScanPlaces ==
  ASSUME NEW c \in Slots
  PROVE  /\ \A s \in Slots : ScanPos(c, s) \in 1 .. MAXPROC
         /\ \A s, t \in Slots : ScanPos(c, s) = ScanPos(c, t) => s = t
         /\ \A s \in Slots : ScanPos(c, s) <= ScanPos(c, c)
BY DEF ScanPos, Slots

ExitTask(s) == Task("EXIT", pid[s], 0, FALSE)

\* When the queue has room, resched() gives every process it kills an entry
\* of its own and touches no other entry.
LEMMA EveryKillQueued ==
  ASSUME NEW q \in [Tasks -> TaskRecords], currentTask \in Slots,
         NEW killed \in SUBSET Slots,
         Cardinality(killed) <= Cardinality(FreeTasks(q))
  PROVE  \E g \in [killed -> FreeTasks(q)] :
           /\ \A s, t \in killed : g[s] = g[t] => s = t
           /\ \A s \in killed : addExitTasks(q, killed)[g[s]] = ExitTask(s)
           /\ \A i \in Tasks : (\A s \in killed : g[s] # i)
                                 => addExitTasks(q, killed)[i] = q[i]
<1> DEFINE P == {ScanPos(currentTask, s) : s \in killed}
           place(s) == ScanPos(currentTask, s)
           F == FreeTasks(q)
           takes(i, s) == Rank(P, place(s)) = Rank(F, i)
           g == [s \in killed |-> CHOOSE i \in F : takes(i, s)]
<1>1. /\ \A s \in killed : place(s) \in P
      /\ \A s, t \in killed : place(s) = place(t) => s = t
      /\ P \in SUBSET Nat
  BY ScanPlaces
<1>2. F \in SUBSET Nat /\ F \in SUBSET Tasks /\ IsFiniteSet(F)
  <2>1. F \in SUBSET Tasks /\ Tasks \in SUBSET Nat
    BY DEF FreeTasks, Tasks
  <2> QED
    BY <2>1, SlotsFinite, FS_Subset
<1>3. IsFiniteSet(P) /\ Cardinality(P) \in Nat /\ Cardinality(P) <= Cardinality(killed)
  <2>1. IsFiniteSet(killed)
    BY SlotsFinite, FS_Subset
  <2>2. [s \in killed |-> place(s)] \in Surjection(killed, P)
    BY DEF Surjection
  <2> HIDE DEF P, place
  <2> QED
    BY <2>1, <2>2, FS_Surjection, FS_CardinalityType
<1>4. Cardinality(F) \in Nat /\ Cardinality(killed) \in Nat
  BY <1>2, SlotsFinite, FS_Subset, FS_CardinalityType
<1> HIDE DEF P, F, place
<1>5. \A x \in P : Rank(P, x) \in Nat /\ Rank(P, x) < Cardinality(P)
  <2> SUFFICES ASSUME NEW x \in P
               PROVE  Rank(P, x) \in Nat /\ Rank(P, x) < Cardinality(P)
    OBVIOUS
  <2> DEFINE A == {z \in P : z < x}
  <2>1. A \in SUBSET P /\ A # P
    BY <1>1, ~(x < x)
  <2> HIDE DEF A
  <2>2. Cardinality(A) \in Nat /\ Cardinality(A) <= Cardinality(P) /\ Cardinality(A) # Cardinality(P)
    BY <1>3, <2>1, FS_Subset, FS_CardinalityType
  <2> QED
    BY <2>2, <1>3 DEF A, Rank
<1>6. \A s \in killed : \E i \in F : takes(i, s)
  <2> SUFFICES ASSUME NEW s \in killed PROVE \E i \in F : takes(i, s)
    OBVIOUS
  <2>0. Cardinality(killed) <= Cardinality(F)
    BY DEF F
  <2>a. place(s) \in P
    BY <1>1
  <2>b. Rank(P, place(s)) \in Nat /\ Rank(P, place(s)) < Cardinality(P)
    BY <2>a, <1>5
  <2>1. Rank(P, place(s)) \in Nat /\ Rank(P, place(s)) < Cardinality(F)
    BY <2>0, <2>b, <1>3, <1>4
  <2> QED
    BY <2>1, <1>2, RankOnto
<1>7. \A s \in killed : g[s] \in F /\ takes(g[s], s)
  BY <1>6
<1>r. \A x, y \in P : x # y => Rank(P, x) # Rank(P, y)
  <2> SUFFICES ASSUME NEW x \in P, NEW y \in P, x # y PROVE Rank(P, x) # Rank(P, y)
    OBVIOUS
  <2>1. x < y \/ y < x
    BY <1>1
  <2> QED
    BY <2>1, <1>1, <1>3, RankIncreases
<1>8. \A s, t \in killed, i \in F : takes(i, s) /\ takes(i, t) => s = t
  <2> SUFFICES ASSUME NEW s \in killed, NEW t \in killed, s # t,
                      Rank(P, place(s)) = Rank(P, place(t))
               PROVE  FALSE
    OBVIOUS
  <2>0. place(s) \in P /\ place(t) \in P /\ place(s) # place(t)
    BY <1>1
  <2> QED
    BY <2>0, <1>r
<1>9. \A i, j \in F, s \in killed : takes(i, s) /\ takes(j, s) => i = j
  <2> SUFFICES ASSUME NEW i \in F, NEW j \in F, i # j, Rank(F, i) = Rank(F, j)
               PROVE  FALSE
    OBVIOUS
  <2>1. i < j \/ j < i
    BY <1>2
  <2>2. Rank(F, i) \in Nat /\ Rank(F, j) \in Nat /\ Rank(F, i) # Rank(F, j)
    BY <2>1, <1>2, RankIncreases
  <2> QED
    BY <2>2
<1>10. addExitTasks(q, killed) =
         [i \in Tasks |-> IF i \in F /\ \E s \in killed : takes(i, s)
                          THEN Task("EXIT", pid[CHOOSE s \in killed : takes(i, s)], 0, FALSE)
                          ELSE q[i]]
  BY DEF addExitTasks, P, F, place
<1> HIDE DEF takes
<1>11. g \in [killed -> FreeTasks(q)]
  BY <1>7 DEF F
<1>12. \A s, t \in killed : g[s] = g[t] => s = t
  BY <1>7, <1>8
<1>13. \A s \in killed : addExitTasks(q, killed)[g[s]] = ExitTask(s)
  <2> SUFFICES ASSUME NEW s \in killed
               PROVE  addExitTasks(q, killed)[g[s]] = ExitTask(s)
    OBVIOUS
  <2>1. g[s] \in F /\ g[s] \in Tasks /\ takes(g[s], s)
    BY <1>7, <1>2
  <2>2. (CHOOSE t \in killed : takes(g[s], t)) = s
    BY <2>1, <1>8
  <2> QED
    BY <2>1, <2>2, <1>10 DEF ExitTask
<1>14. ASSUME NEW i \in Tasks, \A s \in killed : g[s] # i
       PROVE  addExitTasks(q, killed)[i] = q[i]
  <2>1. ~(i \in F /\ \E s \in killed : takes(i, s))
    BY <1>7, <1>9, <1>14
  <2> QED
    BY <2>1, <1>10
<1> QED
  BY <1>11, <1>12, <1>13, <1>14

\* When the scan comes back to the slot it started from, it is not to go on there
\* unless it is ready; the worker comes before it if there is one.
Turns(st, sg) ==
  st[currentTask] \in {"RUN", "KWORKER"} \/ (st[0] = "RUN" /\ sg[0] = {})

\* The signal that kills is SIGKILL: SIGPIPE has a number getSignalFromMask() never
\* returns.
LEMMA FatalIsKill ==
  ASSUME NEW sg \in [Slots -> SUBSET SignalSet], NEW s \in Slots, Fatal(sg, s)
  PROVE  SIGKILL \in sg[s]
<1> DEFINE M == {i \in 0 .. SIGNUM - 1 : i \in sg[s]}
<1>1. getSignalFromMask(sg[s]) \in {SIGKILL, SIGPIPE}
  BY DEF Fatal
<1>2. M # {} /\ Lowest(M) \in {SIGKILL, SIGPIPE}
  BY <1>1 DEF getSignalFromMask, SIGKILL, SIGPIPE, SIGNUM
<1>3. Lowest(M) \in M
  <2>1. M \in SUBSET Nat
    BY DEF SIGNUM
  <2> QED
    BY <1>2, <2>1, LowestIsLeast
<1> QED
  BY <1>2, <1>3 DEF SIGKILL, SIGPIPE, SIGNUM

\* resched() gives killed processes their tasks and ends on a ready process n,
\* or it panics where it was, which takes the worker parked or about to be killed.
Rescheduled(st, sg, q, n, killed) ==
  /\ sigs' = sg /\ currentTask' = n
  /\ state' = [s \in Slots |->
                 IF s \in killed THEN "KWORKER"
                 ELSE IF s = n /\ st[s] = "NEW" THEN "RUN" ELSE st[s]]
  /\ ktq' = addExitTasks(q, killed)
  /\ \A s \in killed : st[s] \in {"RUN", "NEW"} /\ Fatal(sg, s)
  /\ \/ /\ st[n] \in {"RUN", "NEW"} /\ n \notin killed /\ ~Fatal(sg, n)
        /\ halted' = halted
     \/ /\ halted' = "panic" /\ (st[0] = "KWORKER" \/ SIGKILL \in sg[0])

\* It does one or the other, and kills ready processes only.
LEMMA ReschedStep ==
  ASSUME NEW st, NEW sg \in [Slots -> SUBSET SignalSet], NEW q,
         GoodTable(st), Calm(st, sg), Turns(st, sg), currentTask \in Slots,
         resched(st, sg, q)
  PROVE  \E n \in Slots, killed \in SUBSET Slots : Rescheduled(st, sg, q, n, killed)
<1> DEFINE E == ScanEnds(st, sg)
           pos(s) == ScanPos(currentTask, s)
<1>1. \A s \in Slots : Runnable(st, sg, s) <=> st[s] \in {"RUN", "NEW"}
  BY DEF GoodTable, Calm, Runnable
<1>2. E \in SUBSET Slots /\ 0 \in Slots
  BY DEF ScanEnds, Slots
<1>3. CASE E = {}
  <2> DEFINE killed == KilledInVain(st, sg)
             n == currentTask
  <2>1. /\ sigs' = sg /\ currentTask' = n /\ halted' = "panic"
        /\ state' = [s \in Slots |-> IF s \in killed THEN "KWORKER" ELSE st[s]]
        /\ ktq' = addExitTasks(q, killed)
    BY <1>3 DEF resched
  <2>2. /\ killed \in SUBSET Slots
        /\ \A s \in killed : st[s] \in {"RUN", "NEW"} /\ Fatal(sg, s)
        /\ \A s \in Slots : st[s] \in {"RUN", "NEW"} => s \in killed
    BY <1>1, <1>3 DEF KilledInVain, ScanEnds
  <2>3. st[0] = "KWORKER" \/ SIGKILL \in sg[0]
    BY <1>2, <2>2, FatalIsKill DEF GoodTable
  <2> HIDE DEF killed
  <2>4. state' = [s \in Slots |->
                    IF s \in killed THEN "KWORKER"
                    ELSE IF s = n /\ st[s] = "NEW" THEN "RUN" ELSE st[s]]
    BY <2>1, <2>2
  <2> QED
    BY <2>1, <2>2, <2>3, <2>4 DEF Rescheduled
<1>4. CASE E # {}
  <2> DEFINE n == CHOOSE s \in E : \A t \in E : pos(s) <= pos(t)
             killed == KilledBefore(st, sg, n)
  <2>1. n \in E /\ \A t \in E : pos(n) <= pos(t)
    <3> DEFINE P == {pos(s) : s \in E}
    <3> HIDE DEF E
    <3>1. P \in SUBSET Nat /\ P # {}
      BY <1>2, <1>4, ScanPlaces
    <3>2. Lowest(P) \in P /\ \A y \in P : Lowest(P) <= y
      BY <3>1, LowestIsLeast
    <3>3. PICK m \in E : Lowest(P) = pos(m)
      BY <3>2
    <3>4. \A t \in E : pos(m) <= pos(t)
      BY <3>2, <3>3
    <3> QED
      BY <3>4
  <2>2. /\ sigs' = sg /\ currentTask' = n /\ halted' = halted
        /\ state' = [s \in Slots |->
                       IF s \in killed THEN "KWORKER"
                       ELSE IF s = n /\ st[s] = "NEW" THEN "RUN" ELSE st[s]]
        /\ ktq' = addExitTasks(q, killed)
    BY <1>4 DEF resched
  <2>3. /\ n \in Slots /\ ~Fatal(sg, n)
        /\ Runnable(st, sg, n) \/ (n = currentTask /\ n # 0 /\ st[n] # "KWORKER")
    BY <2>1 DEF ScanEnds
  <2> HIDE DEF n
  <2>4. /\ killed \in SUBSET Slots /\ n \notin killed
        /\ \A s \in killed : st[s] \in {"RUN", "NEW"} /\ Fatal(sg, s)
    BY <1>1, <2>3 DEF KilledBefore
  <2> HIDE DEF killed
  <2>5. ASSUME n = currentTask, n # 0, st[0] = "RUN", sg[0] = {}
        PROVE  FALSE
    <3>1. 0 \in E
      BY <1>2, <2>5 DEF ScanEnds, Fatal, Runnable
    <3>2. pos(n) <= pos(0) /\ pos(n) = pos(currentTask)
      BY <2>1, <2>5, <3>1
    <3>3. pos(0) \in 1 .. MAXPROC /\ pos(currentTask) \in 1 .. MAXPROC
      BY <1>2, ScanPlaces
    <3>4. pos(0) < pos(currentTask)
      BY <2>5 DEF ScanPos, Slots
    <3> HIDE DEF pos
    <3> QED
      BY <3>2, <3>3, <3>4
  <2>6. st[n] \in {"RUN", "NEW"}
    BY <1>1, <2>3, <2>5 DEF Turns
  <2> QED
    BY <2>2, <2>3, <2>4, <2>6 DEF Rescheduled
<1> QED
  BY <1>3, <1>4

\* What resched() does to the correspondence between processes and tasks.
LEMMA ReschedKeepsLinks ==
  ASSUME NEW st, NEW sg \in [Slots -> SUBSET SignalSet],
         NEW q \in [Tasks -> TaskRecords],
         GoodTable(st), Linked(st, q), Calm(st, sg), Turns(st, sg), currentTask \in Slots,
         nextPid = 0 => sg[0] = {},
         resched(st, sg, q), UNCHANGED <<pid, nextPid>>
  PROVE  /\ GoodTable(state)' /\ Linked(state, ktq)'
         /\ ktq' \in [Tasks -> TaskRecords]
         /\ \A i \in Tasks : ktq'[i] = q[i] \/ (q[i].type = "NONE" /\ ktq'[i].type = "EXIT")
         /\ sigs' = sg /\ currentTask' \in Slots
         /\ \/ halted' = "panic" /\ (st[0] = "KWORKER" \/ SIGKILL \in sg[0])
            \/ /\ halted' = halted /\ state'[currentTask'] = "RUN"
               /\ ~Fatal(sg, currentTask')
         /\ state'[0] = "KWORKER" => st[0] = "KWORKER" \/ SIGKILL \in sg[0]
         /\ \A s \in Slots : /\ state'[s] = "NONE" <=> st[s] = "NONE"
                             /\ state'[s] = "ZOMBIE" <=> st[s] = "ZOMBIE"
                             /\ state'[s] = "BLOCKED" <=> st[s] = "BLOCKED"
<1>0. PICK n \in Slots, killed \in SUBSET Slots : Rescheduled(st, sg, q, n, killed)
  BY ReschedStep
<1>1. /\ sigs' = sg /\ currentTask' = n
      /\ state' = [s \in Slots |->
                     IF s \in killed THEN "KWORKER"
                     ELSE IF s = n /\ st[s] = "NEW" THEN "RUN" ELSE st[s]]
      /\ ktq' = addExitTasks(q, killed)
      /\ \A s \in killed : st[s] \in {"RUN", "NEW"} /\ Fatal(sg, s)
      /\ \/ /\ st[n] \in {"RUN", "NEW"} /\ n \notin killed /\ ~Fatal(sg, n)
            /\ halted' = halted
         \/ halted' = "panic" /\ (st[0] = "KWORKER" \/ SIGKILL \in sg[0])
  BY <1>0 DEF Rescheduled
<1>b. 0 \in killed => nextPid # 0 /\ SIGKILL \in sg[0]
  BY <1>1, FatalIsKill DEF Fatal
<1>2. PICK g \in [killed -> FreeTasks(q)] :
           /\ \A s, t \in killed : g[s] = g[t] => s = t
           /\ \A s \in killed : ktq'[g[s]] = ExitTask(s)
           /\ \A i \in Tasks : (\A s \in killed : g[s] # i) => ktq'[i] = q[i]
  <2>1. Cardinality(killed) <= Cardinality(FreeTasks(q))
    BY <1>1, <1>b, RoomForTasks
  <2>2. killed \in SUBSET Slots
    OBVIOUS
  <2> QED
    BY <1>1, <2>1, <2>2, EveryKillQueued
<1>t. pid \in [Slots -> 0 .. MaxPid] /\ st \in [Slots -> States] /\ 0 \in Slots
  BY DEF GoodTable, Slots
<1>3. \A s \in killed : /\ ExitTask(s) \in TaskRecords
                        /\ ExitTask(s).type = "EXIT" /\ ExitTask(s).caller = pid[s]
  BY <1>t DEF ExitTask, Task, TaskRecords, TaskTypes
<1>4. ktq' \in [Tasks -> TaskRecords]
  <2>1. ktq' = [i \in Tasks |-> ktq'[i]]
    BY <1>1 DEF addExitTasks
  <2>2. \A i \in Tasks : ktq'[i] \in TaskRecords
    BY <1>2, <1>3
  <2> QED
    BY <2>1, <2>2
<1>5. \A i \in Tasks : \/ ktq'[i] = q[i]
                       \/ i \in FreeTasks(q) /\ \E s \in killed : g[s] = i /\ ktq'[i] = ExitTask(s)
  BY <1>2
<1>6. \A s \in Slots : /\ state'[s] = "NONE" <=> st[s] = "NONE"
                       /\ state'[s] = "ZOMBIE" <=> st[s] = "ZOMBIE"
                       /\ state'[s] = "CONSTRUCT" <=> st[s] = "CONSTRUCT"
                       /\ state'[s] = "KWORKER" <=> (st[s] = "KWORKER" \/ s \in killed)
                       /\ state'[s] = "BLOCKED" <=> st[s] = "BLOCKED"
                       /\ state'[s] \in States \ {"SLEEP"}
  BY <1>1 DEF GoodTable, States
<1>7. GoodTable(state)'
  <2>1. state' \in [Slots -> States]
    BY <1>1, <1>6
  <2>2. state'[0] \in {"RUN", "KWORKER"}
    BY <1>1, <1>t DEF GoodTable
  <2> QED
    BY <2>1, <2>2, <1>6 DEF GoodTable, Live
<1>8. Linked(state, ktq)'
  <2>1. \A i \in Busy(q) : i \in Busy(ktq') /\ ktq'[i] = q[i]
    BY <1>5 DEF Busy, FreeTasks
  <2>2. \A i \in Busy(ktq') : \/ i \in Busy(q) /\ ktq'[i] = q[i]
                              \/ \E s \in killed : g[s] = i /\ ktq'[i] = ExitTask(s)
    BY <1>5 DEF Busy
  <2>3. ASSUME NEW s \in Slots, state'[s] = "KWORKER"
        PROVE  \E i \in Busy(ktq') : ktq'[i].caller = pid[s]
    <3>1. CASE st[s] = "KWORKER"
      BY <3>1, <2>1 DEF Linked
    <3>2. CASE s \in killed
      <4>1. g[s] \in Tasks /\ ktq'[g[s]] = ExitTask(s)
        BY <3>2, <1>2 DEF FreeTasks
      <4> QED
        BY <3>2, <4>1, <1>3 DEF Busy
    <3> QED
      BY <1>6, <2>3, <3>1, <3>2
  <2>4. ASSUME NEW i \in Busy(ktq')
        PROVE  \/ ktq'[i].type = "FORK" /\ ktq'[i].caller = 0 /\ nextPid = 0
               \/ /\ ktq'[i].type = "EXECVE" /\ ktq'[i].caller = 1
                  /\ nextPid = 0 \/ \E s \in Slots : pid[s] = 1 /\ state'[s] = "CONSTRUCT"
               \/ \E s \in Slots : pid[s] = ktq'[i].caller /\ state'[s] = "KWORKER"
    <3>1. CASE i \in Busy(q) /\ ktq'[i] = q[i]
      BY <3>1, <1>6 DEF Linked
    <3>2. CASE \E s \in killed : g[s] = i /\ ktq'[i] = ExitTask(s)
      BY <3>2, <1>3, <1>6
    <3> QED
      BY <2>2, <3>1, <3>2
  <2>5. ASSUME NEW i \in Busy(ktq'), NEW j \in Busy(ktq'), ktq'[i].caller = ktq'[j].caller
        PROVE  i = j
    <3>1. ASSUME NEW k \in Busy(q), NEW s \in killed, q[k].caller = pid[s]
          PROVE  FALSE
      <4>1. s \in Slots /\ st[s] \in {"RUN", "NEW"}
        BY <1>1
      <4>2. s # 0 => pid[s] \in 1 .. nextPid /\ nextPid \in Nat
        BY <4>1 DEF GoodTable, Live
      <4>3. s = 0 => pid[s] = 0 /\ nextPid # 0
        BY <1>b DEF GoodTable
      <4>4. \A t \in Slots : pid[t] = pid[s] /\ st[t] \in {"KWORKER", "CONSTRUCT"} => FALSE
        BY <4>1 DEF GoodTable, Live
      <4> QED
        BY <3>1, <4>2, <4>3, <4>4 DEF Linked
    <3>2. ASSUME NEW s \in killed, NEW t \in killed, pid[s] = pid[t]
          PROVE  s = t
      BY <1>1, <3>2 DEF GoodTable, Live
    <3> QED
      BY <2>2, <2>5, <3>1, <3>2, <1>3 DEF Linked
  <2> QED
    BY <2>3, <2>4, <2>5 DEF Linked
<1>9. state'[0] = "KWORKER" => st[0] = "KWORKER" \/ SIGKILL \in sg[0]
  BY <1>b, <1>t, <1>6
<1> QED
  BY <1>1, <1>3, <1>4, <1>5, <1>6, <1>7, <1>8, <1>9 DEF FreeTasks

ForksIn(q) == {i \in Tasks : q[i].type \in {"FORK", "CLONE"}}

\* The forks under way can be counted.
LEMMA ForksFinite ==
  ASSUME NEW q
  PROVE  IsFiniteSet(ForksIn(q)) /\ Cardinality(ForksIn(q)) \in Nat
BY SlotsFinite, FS_Subset, FS_CardinalityType DEF ForksIn

\* The parts of SchedInv that resched() does not see.
Resources ==
  /\ parent \in [Slots -> Slots \cup {NoParent}]
  /\ isThread \in [Slots -> BOOLEAN] /\ ~isThread[0]
  /\ sel \in [Slots -> Selectors]
  /\ selectorMap \in SUBSET Selectors
  /\ SelectorsPrivate
  /\ \A x \in selectorMap : \E s \in Slots : Alive(s) /\ ~isThread[s] /\ sel[s] = x

\* They are about who is alive.
LEMMA ResourcesStay ==
  ASSUME Resources, \A s \in Slots : Alive(s)' <=> Alive(s),
         UNCHANGED <<parent, isThread, sel, selectorMap>>
  PROVE  Resources'
<1>1. SelectorsPrivate'
  BY DEF Resources, SelectorsPrivate
<1>2. (\A x \in selectorMap : \E s \in Slots : Alive(s) /\ ~isThread[s] /\ sel[s] = x)'
  BY DEF Resources
<1> QED
  BY <1>1, <1>2 DEF Resources

\* The invariant of the process core, taken apart the way the proofs use it.  A
\* process may be blocked, as those that read terminals are in TtyIO.
Parts ==
  /\ GoodTable(state) /\ Linked(state, ktq) /\ Resources
  /\ ktq \in [Tasks -> TaskRecords]
  /\ sigs \in [Slots -> SUBSET SignalSet] /\ Calm(state, sigs)
  /\ (nextPid = 0 => sigs[0] = {}) /\ (state[0] = "KWORKER" => WorkerKilled)
  /\ currentTask \in Slots /\ (halted = "no" => state[currentTask] = "RUN")
  /\ wpos \in 0 .. MAX_QUEUE_SIZE
  /\ halted \in {"no", "panic", "nullproc"}
  /\ nextPid + Cardinality(ForksIn(ktq)) <= MaxPid

\* Nobody is blocked, which is so in module Sched.
Awake == \A s \in Slots : state[s] # "BLOCKED"

\* What a step of the process core other than kill leaves alone.
Same ==
  /\ \A s \in Slots : /\ state'[s] = "BLOCKED" <=> state[s] = "BLOCKED"
                      /\ state[s] = "BLOCKED" => pid'[s] = pid[s]
  /\ sigs'[0] = sigs[0]
  /\ halted' = "panic" => halted = "panic" \/ WorkerKilled
  /\ Fatal(sigs, currentTask)' => Fatal(sigs, currentTask) \/ WorkerKilled

\* SchedInv says just that, and that nobody is blocked and only the death of the
\* worker makes resched() panic.
LEMMA InvParts == SchedInv <=> Parts /\ Awake /\ NoPanic
<1>1. 0 \in Slots
  BY DEF Slots
<1>2. Busy(ktq) = Pending /\ ForksIn(ktq) = ForkTasks
  BY DEF Busy, Pending, ForksIn, ForkTasks
<1>3. Linked(state, ktq) <=> ParkedHasTask /\ TaskHasParked
  BY <1>2 DEF Linked, ParkedHasTask, TaskHasParked, BootTask
<1> QED
  BY <1>1, <1>2, <1>3
  DEF SchedInv, Parts, GoodTable, Resources, TypeOK, CurrentIsRunning, NoPanic,
      PidsUnique, Live, Awake, Calm, WorkerKilled

\* And so it does after a step.
LEMMA InvPartsPrime == SchedInv' <=> Parts' /\ Awake' /\ NoPanic'
BY InvParts, PTL

\* A step that ends in resched() keeps the invariant if the table and queue it
\* hands over are linked and it neither creates nor buries a process.
LEMMA ReschedKeepsInv ==
  ASSUME Parts,
         NEW st, NEW sg \in [Slots -> SUBSET SignalSet],
         NEW q \in [Tasks -> TaskRecords],
         GoodTable(st), Linked(st, q), Calm(st, sg), Turns(st, sg),
         sg[0] = sigs[0], st[0] = state[0],
         nextPid + Cardinality(ForksIn(q)) <= MaxPid,
         \A s \in Slots : /\ st[s] = "NONE" <=> state[s] = "NONE"
                          /\ st[s] = "ZOMBIE" <=> state[s] = "ZOMBIE",
         resched(st, sg, q),
         UNCHANGED <<pid, parent, isThread, sel, selectorMap, nextPid, wpos>>
  PROVE  /\ Parts' /\ sigs'[0] = sigs[0]
         /\ \/ halted' = "panic" /\ WorkerKilled
            \/ halted' = halted /\ ~Fatal(sigs, currentTask)'
         /\ \A s \in Slots : state'[s] = "BLOCKED" <=> st[s] = "BLOCKED"
<1>1. /\ Resources /\ wpos \in 0 .. MAX_QUEUE_SIZE /\ halted \in {"no", "panic", "nullproc"}
      /\ currentTask \in Slots
      /\ (nextPid = 0 => sigs[0] = {}) /\ (state[0] = "KWORKER" => WorkerKilled)
  BY DEF Parts
<1>2. /\ GoodTable(state)' /\ Linked(state, ktq)'
      /\ ktq' \in [Tasks -> TaskRecords]
      /\ \A i \in Tasks : ktq'[i] = q[i] \/ (q[i].type = "NONE" /\ ktq'[i].type = "EXIT")
      /\ sigs' = sg /\ currentTask' \in Slots
      /\ \/ halted' = "panic" /\ (st[0] = "KWORKER" \/ SIGKILL \in sg[0])
         \/ /\ halted' = halted /\ state'[currentTask'] = "RUN"
            /\ ~Fatal(sg, currentTask')
      /\ state'[0] = "KWORKER" => st[0] = "KWORKER" \/ SIGKILL \in sg[0]
      /\ \A s \in Slots : /\ state'[s] = "NONE" <=> st[s] = "NONE"
                          /\ state'[s] = "ZOMBIE" <=> st[s] = "ZOMBIE"
                          /\ state'[s] = "BLOCKED" <=> st[s] = "BLOCKED"
  BY <1>1, ReschedKeepsLinks
<1>3. ForksIn(ktq') = ForksIn(q)
  BY <1>2 DEF ForksIn
<1>4. Resources'
  <2>1. \A s \in Slots : Alive(s)' <=> Alive(s)
    BY <1>2 DEF Alive
  <2> QED
    BY <1>1, <2>1, ResourcesStay
<1>5. (nextPid + Cardinality(ForksIn(ktq)) <= MaxPid)'
  BY <1>3 DEF ForksIn
<1>6. Calm(state, sigs)' /\ (halted' = "panic" \/ ~Fatal(sigs, currentTask)')
  BY <1>2 DEF Calm, Fatal
<1>7. /\ sigs'[0] = sigs[0] /\ (state'[0] = "KWORKER" => WorkerKilled')
      /\ \/ halted' = "panic" /\ WorkerKilled
         \/ halted' = halted /\ ~Fatal(sigs, currentTask)'
  BY <1>1, <1>2, <1>6 DEF WorkerKilled, Fatal
<1>8. /\ (halted = "no" => state[currentTask] = "RUN")'
      /\ halted' \in {"no", "panic", "nullproc"}
      /\ wpos' \in 0 .. MAX_QUEUE_SIZE /\ sigs' \in [Slots -> SUBSET SignalSet]
      /\ (nextPid = 0 => sigs[0] = {})'
  BY <1>1, <1>2
<1>9. Parts'
  BY <1>2, <1>4, <1>5, <1>6, <1>7, <1>8 DEF Parts
<1> QED
  BY <1>2, <1>7, <1>9

\* A call that parks its caller finds room for its task.
LEMMA ParkKeepsInv ==
  ASSUME Parts, halted = "no", currentTask # 0,
         NEW type \in TaskTypes \ {"NONE"}, NEW target \in 0 .. MaxPid,
         NEW nohang \in BOOLEAN,
         type \in {"FORK", "CLONE"} => PidsLeft,
         Park(type, target, nohang)
  PROVE  Parts' /\ Same
<1> DEFINE c == currentTask
           t == Task(type, pid[c], target, nohang)
           k == Lowest(FreeTasks(ktq))
           q == [ktq EXCEPT ![k] = t]
           st == [state EXCEPT ![c] = "KWORKER"]
<1>1. /\ GoodTable(state) /\ Linked(state, ktq)
      /\ ktq \in [Tasks -> TaskRecords]
      /\ sigs \in [Slots -> SUBSET SignalSet] /\ Calm(state, sigs)
      /\ c \in Slots \ {0} /\ state[c] = "RUN"
      /\ nextPid + Cardinality(ForksIn(ktq)) <= MaxPid
  BY DEF Parts
<1>2. k \in Tasks /\ ktq[k].type = "NONE" /\ FreeTasks(ktq) # {}
  <2>1. Cardinality({c}) <= Cardinality(FreeTasks(ktq))
    BY <1>1, RoomForTasks
  <2>2. Cardinality({c}) = 1 /\ Cardinality({}) = 0
    BY FS_Singleton, FS_EmptySet
  <2>3. FreeTasks(ktq) # {}
    BY <2>1, <2>2
  <2>4. FreeTasks(ktq) \in SUBSET Nat
    BY DEF FreeTasks, Tasks
  <2>5. k \in FreeTasks(ktq)
    BY <2>3, <2>4, LowestIsLeast
  <2> QED
    BY <2>3, <2>5 DEF FreeTasks
<1>3. /\ pid[c] \in 1 .. nextPid /\ nextPid \in Nat /\ nextPid <= MaxPid
      /\ \A s \in Slots : pid[s] = pid[c] /\ state[s] # "NONE" => s = c
      /\ pid \in [Slots -> 0 .. MaxPid]
  BY <1>1 DEF GoodTable, Live
<1>4. t \in TaskRecords /\ t.type = type /\ t.caller = pid[c]
  BY <1>1, <1>3 DEF Task, TaskRecords
<1> HIDE DEF k, t
<1>5. /\ q \in [Tasks -> TaskRecords]
      /\ q[k] = t /\ \A i \in Tasks \ {k} : q[i] = ktq[i]
      /\ Busy(q) = Busy(ktq) \cup {k} /\ k \notin Busy(ktq)
  BY <1>1, <1>2, <1>4 DEF Busy
<1>6. /\ \A s \in Slots \ {c} : st[s] = state[s]
      /\ st[c] = "KWORKER"
  BY <1>1 DEF GoodTable
<1>7. GoodTable(st)
  BY <1>1, <1>6 DEF GoodTable, Live, States
<1>c. Calm(st, sigs)
  BY <1>1, <1>6 DEF Calm
<1> HIDE DEF st, q
<1>8. Linked(st, q)
  <2>1. \A i \in Busy(ktq) : q[i] = ktq[i] /\ i # k /\ i \in Tasks
    BY <1>5 DEF Busy
  <2>2. \A i \in Busy(ktq) : ktq[i].caller # pid[c]
    BY <1>1, <1>3 DEF Linked
  <2>3. \A s \in Slots : st[s] = "KWORKER" => \E i \in Busy(q) : q[i].caller = pid[s]
    <3> SUFFICES ASSUME NEW s \in Slots, st[s] = "KWORKER"
                 PROVE  \E i \in Busy(q) : q[i].caller = pid[s]
      OBVIOUS
    <3>1. CASE s = c
      BY <3>1, <1>4, <1>5
    <3>2. CASE s # c
      <4>1. PICK i \in Busy(ktq) : ktq[i].caller = pid[s]
        BY <3>2, <1>1, <1>6 DEF Linked
      <4> QED
        BY <4>1, <1>5, <2>1
    <3> QED
      BY <3>1, <3>2
  <2>4. \A i \in Busy(q) :
          \/ q[i].type = "FORK" /\ q[i].caller = 0 /\ nextPid = 0
          \/ /\ q[i].type = "EXECVE" /\ q[i].caller = 1
             /\ nextPid = 0 \/ \E s \in Slots : pid[s] = 1 /\ st[s] = "CONSTRUCT"
          \/ \E s \in Slots : pid[s] = q[i].caller /\ st[s] = "KWORKER"
    <3> SUFFICES ASSUME NEW i \in Busy(ktq)
                 PROVE  \/ ktq[i].type = "FORK" /\ ktq[i].caller = 0 /\ nextPid = 0
                        \/ /\ ktq[i].type = "EXECVE" /\ ktq[i].caller = 1
                           /\ nextPid = 0 \/ \E s \in Slots : pid[s] = 1 /\ st[s] = "CONSTRUCT"
                        \/ \E s \in Slots : pid[s] = ktq[i].caller /\ st[s] = "KWORKER"
      BY <1>1, <1>4, <1>5, <1>6, <2>1
    <3> QED
      BY <1>1, <1>6 DEF Linked
  <2>5. \A i, j \in Busy(q) : q[i].caller = q[j].caller => i = j
    BY <1>1, <1>4, <1>5, <2>1, <2>2 DEF Linked
  <2> QED
    BY <2>3, <2>4, <2>5 DEF Linked
<1>9. nextPid + Cardinality(ForksIn(q)) <= MaxPid
  <2>1. CASE type \in {"FORK", "CLONE"}
    <3>1. ForksIn(q) = ForksIn(ktq) \cup {k} /\ k \notin ForksIn(ktq)
      BY <2>1, <1>2, <1>4, <1>5 DEF ForksIn
    <3>2. /\ IsFiniteSet(ForksIn(ktq)) /\ Cardinality(ForksIn(ktq)) \in Nat
          /\ Cardinality(ForksIn(ktq) \cup {k}) = Cardinality(ForksIn(ktq)) + 1
      BY <3>1, ForksFinite, FS_AddElement
    <3>3. nextPid + Cardinality(ForksIn(ktq)) < MaxPid
      BY <2>1 DEF PidsLeft, ForkTasks, ForksIn
    <3> QED
      BY <3>1, <3>2, <3>3, <1>3
  <2>2. CASE type \notin {"FORK", "CLONE"}
    <3>1. ForksIn(q) = ForksIn(ktq)
      BY <2>2, <1>2, <1>4, <1>5 DEF ForksIn
    <3> QED
      BY <3>1, <1>1
  <2> QED
    BY <2>1, <2>2
<1>10. \A s \in Slots : /\ st[s] = "NONE" <=> state[s] = "NONE"
                        /\ st[s] = "ZOMBIE" <=> state[s] = "ZOMBIE"
  BY <1>1, <1>6
<1>11. /\ resched(st, sigs, q)
       /\ UNCHANGED <<pid, parent, isThread, sel, selectorMap, nextPid, wpos>>
  BY <1>2 DEF Park, addKernelTask, k, t, st, q
<1>t. Turns(st, sigs) /\ st[0] = state[0]
  <2>1. 0 \in Slots
    BY DEF Slots
  <2> QED
    BY <1>1, <1>6, <2>1 DEF Turns
<1>12. /\ Parts' /\ sigs'[0] = sigs[0]
       /\ \/ halted' = "panic" /\ WorkerKilled
          \/ halted' = halted /\ ~Fatal(sigs, currentTask)'
       /\ \A s \in Slots : state'[s] = "BLOCKED" <=> st[s] = "BLOCKED"
  BY <1>1, <1>5, <1>7, <1>c, <1>t, <1>8, <1>9, <1>10, <1>11, ReschedKeepsInv
<1>13. \A s \in Slots : st[s] = "BLOCKED" <=> state[s] = "BLOCKED"
  BY <1>1, <1>6
<1> QED
  BY <1>11, <1>12, <1>13 DEF Same

\* sendSig adds a signal to the process with the pid: the worker's is 0.
LEMMA SendSigKeeps ==
  ASSUME Parts, NEW p \in 0 .. MaxPid, NEW sig \in SignalSet
  PROVE  /\ sendSig(p, sig) \in [Slots -> SUBSET SignalSet]
         /\ \A s \in Slots : \/ sendSig(p, sig)[s] = sigs[s]
                             \/ /\ sendSig(p, sig)[s] = sigs[s] \cup {sig}
                                /\ pid[s] = p /\ Live(state, s)
<1>1. GoodTable(state) /\ sigs \in [Slots -> SUBSET SignalSet]
  BY DEF Parts
<1>2. CASE Found(p) = {}
  BY <1>1, <1>2 DEF sendSig
<1>3. CASE Found(p) # {}
  <2> DEFINE f == findProcByPid(p)
  <2>1. Found(p) \in SUBSET Nat
    BY DEF Found, Slots
  <2>2. f \in Found(p)
    BY <1>3, <2>1, LowestIsLeast DEF findProcByPid
  <2>3. f \in Slots /\ pid[f] = p /\ Live(state, f)
    BY <2>2 DEF Found
  <2>4. sendSig(p, sig) = [sigs EXCEPT ![f] = sigs[f] \cup {sig}]
    BY <1>3 DEF sendSig
  <2> HIDE DEF f
  <2> QED
    BY <1>1, <2>3, <2>4
<1> QED
  BY <1>2, <1>3

\* The slot of a task's caller, when findProcByPid finds one, is the process
\* that was parked for the task (or, at boot, the worker or pid 1).
LEMMA TaskCaller ==
  ASSUME Parts, state[0] = "RUN",
         NEW i \in Tasks, ktq[i].type # "NONE", ~CallerGone(i)
  PROVE  LET p == findProcByPid(ktq[i].caller) IN
         /\ p \in Slots /\ pid[p] = ktq[i].caller
         /\ \/ p = 0 /\ ktq[i].type = "FORK" /\ nextPid = 0
            \/ p # 0 /\ state[p] = "KWORKER"
            \/ p # 0 /\ state[p] = "CONSTRUCT" /\ ktq[i].type = "EXECVE"
<1> DEFINE p == findProcByPid(ktq[i].caller)
<1>1. GoodTable(state) /\ Linked(state, ktq) /\ i \in Busy(ktq) /\ 0 \in Slots
  BY DEF Parts, Busy, Slots
<1>2. p \in Found(ktq[i].caller)
  <2>1. Found(ktq[i].caller) \in SUBSET Nat
    BY DEF Found, Slots
  <2> QED
    BY <2>1, LowestIsLeast DEF findProcByPid, CallerGone
<1> HIDE DEF p
<1>3. p \in Slots /\ pid[p] = ktq[i].caller /\ state[p] # "NONE"
  BY <1>2 DEF Found, Live
<1>4. p = 0 => pid[p] = 0
  BY <1>1 DEF GoodTable
<1>5. p # 0 => pid[p] \in 1 .. nextPid
  BY <1>1, <1>3 DEF GoodTable, Live
<1>6. \A s \in Slots : pid[s] = pid[p] /\ state[s] # "NONE" => s = p
  BY <1>1, <1>3 DEF GoodTable, Live
<1>7. nextPid \in Nat
  BY <1>1 DEF GoodTable
<1>8. \/ ktq[i].type = "FORK" /\ ktq[i].caller = 0 /\ nextPid = 0
      \/ /\ ktq[i].type = "EXECVE" /\ ktq[i].caller = 1
         /\ nextPid = 0 \/ \E s \in Slots : pid[s] = 1 /\ state[s] = "CONSTRUCT"
      \/ \E s \in Slots : pid[s] = ktq[i].caller /\ state[s] = "KWORKER"
  BY <1>1 DEF Linked
<1> QED
  BY <1>3, <1>4, <1>5, <1>6, <1>7, <1>8 DEF p

\* A process slot to spare means a selector to spare: marked selectors have
\* distinct owners among the other slots.
LEMMA SelectorToSpare ==
  ASSUME Parts, FreeProcs # {}
  PROVE  mmu_get_free_selector \in Selectors \ selectorMap
<1>1. Resources
  BY DEF Parts
<1>2. PICK n \in Slots : state[n] = "NONE"
  BY DEF FreeProcs
<1> DEFINE A == {s \in Slots : Alive(s) /\ ~isThread[s] /\ sel[s] \in selectorMap}
           f == [s \in A |-> sel[s]]
<1>3. f \in Surjection(A, selectorMap)
  BY <1>1 DEF Resources, Surjection
<1>4. A \in SUBSET (Slots \ {n})
  BY <1>2 DEF Alive
<1> HIDE DEF A, f
<1>5. IsFiniteSet(Slots \ {n}) /\ Cardinality(Slots \ {n}) = MAXPROC - 1
  BY SlotsFinite, FS_RemoveElement
<1>6. IsFiniteSet(A) /\ Cardinality(A) <= MAXPROC - 1 /\ Cardinality(A) \in Nat
  BY <1>4, <1>5, FS_Subset, FS_CardinalityType
<1>7. IsFiniteSet(selectorMap) /\ Cardinality(selectorMap) <= Cardinality(A)
  BY <1>3, <1>6, FS_Surjection
<1>8. FreeSelectors # {}
  <2> SUFFICES ASSUME FreeSelectors = {} PROVE FALSE
    OBVIOUS
  <2>1. selectorMap = Selectors
    BY <1>1 DEF FreeSelectors, Resources
  <2>2. Cardinality(selectorMap) = mmuSelectorNum
    BY <2>1, SlotsFinite
  <2> QED
    BY <2>2, <1>6, <1>7
<1>9. FreeSelectors \in SUBSET Nat
  BY DEF FreeSelectors, Selectors
<1> QED
  BY <1>8, <1>9, LowestIsLeast DEF mmu_get_free_selector, FreeSelectors

\* The worker serves a fork or clone; x is the state the child is left in.
LEMMA ForkKeepsInv ==
  ASSUME Parts, halted = "no", currentTask = 0,
         NEW i \in Tasks, ktq[i].type \in {"FORK", "CLONE"}, ~CallerGone(i),
         FreeProcs # {}, NEW clone \in BOOLEAN,
         NEW p, p = findProcByPid(ktq[i].caller), NEW n, n = get_free_proc,
         NEW x \in {"NEW", "CONSTRUCT", "RUN"},
         ktq[i].type = "FORK" /\ pid[p] = 0 => x = "CONSTRUCT",
         do_fork(p, n, clone),
         state' = [state EXCEPT ![p] = "RUN", ![n] = x],
         TaskDone(i), UNCHANGED <<halted, currentTask>>,
         wpos' \in 0 .. MAX_QUEUE_SIZE
  PROVE  Parts' /\ Same
<1>1. /\ GoodTable(state) /\ Linked(state, ktq) /\ Resources
      /\ ktq \in [Tasks -> TaskRecords]
      /\ sigs \in [Slots -> SUBSET SignalSet] /\ Calm(state, sigs)
      /\ nextPid + Cardinality(ForksIn(ktq)) <= MaxPid
      /\ 0 \in Slots /\ i \in Busy(ktq) /\ state[0] = "RUN"
  BY DEF Parts, Slots, Busy
<1>2. /\ p \in Slots /\ pid[p] = ktq[i].caller
      /\ \/ p = 0 /\ ktq[i].type = "FORK" /\ nextPid = 0
         \/ p # 0 /\ state[p] = "KWORKER"
  BY <1>1, TaskCaller
<1>3. n \in Slots /\ state[n] = "NONE"
  <2>1. FreeProcs \in SUBSET Nat
    BY DEF FreeProcs, Slots
  <2> QED
    BY <2>1, LowestIsLeast DEF get_free_proc, FreeProcs
<1>4. /\ state \in [Slots -> States] /\ pid \in [Slots -> 0 .. MaxPid] /\ nextPid \in Nat
      /\ state[0] = "RUN" /\ pid[0] = 0
      /\ \A s \in Slots \ {0} : state[s] # "NONE" => pid[s] \in 1 .. nextPid
      /\ \A s, t \in Slots : state[s] # "NONE" /\ state[t] # "NONE" /\ pid[s] = pid[t] => s = t
      /\ \A s \in Slots : state[s] # "SLEEP"
  BY <1>1 DEF GoodTable, Live
<1>5. n # p /\ n # 0
  BY <1>2, <1>3, <1>4
<1>6. /\ \A s \in Slots \ {p, n} : state'[s] = state[s]
      /\ state'[p] = "RUN" /\ state'[n] = x /\ state' \in [Slots -> States]
  BY <1>2, <1>3, <1>4, <1>5 DEF States
<1>7. /\ nextPid + 1 <= MaxPid /\ nextPid' = nextPid + 1
      /\ nextPid' + Cardinality(ForksIn(ktq')) <= MaxPid
  <2>1. ForksIn(ktq') = ForksIn(ktq) \ {i} /\ i \in ForksIn(ktq)
    BY <1>1 DEF ForksIn, TaskDone, NoTask, Task
  <2>2. /\ Cardinality(ForksIn(ktq)) \in Nat
        /\ Cardinality(ForksIn(ktq) \ {i}) = Cardinality(ForksIn(ktq)) - 1
        /\ Cardinality(ForksIn(ktq) \ {i}) \in Nat
    BY <2>1, ForksFinite, FS_RemoveElement, FS_CardinalityType
  <2>3. nextPid + 1 <= MaxPid
    BY <1>1, <1>4, <2>2
  <2>4. nextPid' = nextPid + 1
    BY <1>4, <2>3 DEF do_fork, sched_genPid
  <2> QED
    BY <1>1, <1>4, <2>1, <2>2, <2>3, <2>4
<1>8. /\ pid' = [pid EXCEPT ![n] = nextPid + 1]
      /\ sigs' = [sigs EXCEPT ![n] = sigs[p]]
      /\ parent' = [parent EXCEPT ![n] = p]
      /\ isThread' = [isThread EXCEPT ![n] = clone]
  BY <1>7 DEF do_fork
<1>9. /\ \A s \in Slots \ {n} : pid'[s] = pid[s]
      /\ pid'[n] = nextPid + 1 /\ pid' \in [Slots -> 0 .. MaxPid]
  BY <1>3, <1>4, <1>7, <1>8
<1>10. GoodTable(state)'
  <2>1. state'[0] = "RUN" /\ pid'[0] = 0
    BY <1>2, <1>4, <1>5, <1>6, <1>9, <1>1
  <2>2. \A s \in Slots : state'[s] # "SLEEP"
    BY <1>4, <1>6
  <2>3. \A s \in Slots \ {n} : state'[s] # "NONE" => state[s] # "NONE"
    BY <1>2, <1>4, <1>6
  <2>4. \A s \in Slots \ {0} : state'[s] # "NONE" => pid'[s] \in 1 .. nextPid'
    BY <1>4, <1>7, <1>9, <2>3
  <2>5. \A s, t \in Slots : state'[s] # "NONE" /\ state'[t] # "NONE" /\ pid'[s] = pid'[t] => s = t
    <3>1. \A s \in Slots \ {n} : state'[s] # "NONE" => pid'[s] # nextPid + 1
      BY <1>4, <1>9, <2>3
    <3> QED
      BY <1>4, <1>9, <2>3, <3>1
  <2> QED
    BY <1>4, <1>6, <1>7, <1>9, <2>1, <2>2, <2>4, <2>5 DEF GoodTable, Live
<1>11. /\ ktq' \in [Tasks -> TaskRecords]
       /\ \A j \in Tasks \ {i} : ktq'[j] = ktq[j]
       /\ Busy(ktq') = Busy(ktq) \ {i}
  BY <1>1 DEF TaskDone, NoTask, Task, TaskRecords, TaskTypes, Busy
<1>12. Linked(state, ktq)'
  <2>1. ASSUME NEW s \in Slots, state'[s] = "KWORKER"
        PROVE  \E j \in Busy(ktq') : ktq'[j].caller = pid'[s]
    <3>1. s \notin {p, n} /\ state[s] = "KWORKER"
      BY <2>1, <1>6
    <3>2. PICK j \in Busy(ktq) : ktq[j].caller = pid[s]
      BY <3>1, <1>1 DEF Linked
    <3>3. pid[s] # pid[p]
      BY <3>1, <1>2, <1>4
    <3>4. j # i /\ j \in Tasks
      BY <1>2, <3>2, <3>3 DEF Busy
    <3> QED
      BY <3>1, <3>2, <3>4, <1>9, <1>11
  <2>2. ASSUME NEW j \in Busy(ktq')
        PROVE  \/ ktq'[j].type = "FORK" /\ ktq'[j].caller = 0 /\ nextPid' = 0
               \/ /\ ktq'[j].type = "EXECVE" /\ ktq'[j].caller = 1
                  /\ nextPid' = 0 \/ \E s \in Slots : pid'[s] = 1 /\ state'[s] = "CONSTRUCT"
               \/ \E s \in Slots : pid'[s] = ktq'[j].caller /\ state'[s] = "KWORKER"
    <3>1. j \in Busy(ktq) /\ j # i /\ ktq'[j] = ktq[j]
      BY <1>11 DEF Busy
    <3>2. ktq[j].caller # ktq[i].caller
      BY <3>1, <1>1 DEF Linked
    \* nobody but the worker is in the table to have asked for task i
    <3>3. ~(ktq[j].type = "FORK" /\ ktq[j].caller = 0 /\ nextPid = 0)
      BY <3>2, <1>2, <1>4, 1 .. 0 = {}
    <3>4. CASE ktq[j].type = "EXECVE" /\ ktq[j].caller = 1 /\ nextPid = 0
      <4>1. p = 0
        BY <3>4, <1>2, <1>4
      <4>2. x = "CONSTRUCT"
        BY <4>1, <1>2, <1>4
      <4> QED
        BY <3>1, <3>4, <4>2, <1>3, <1>6, <1>9
    <3>5. CASE /\ ktq[j].type = "EXECVE" /\ ktq[j].caller = 1
               /\ \E s \in Slots : pid[s] = 1 /\ state[s] = "CONSTRUCT"
      <4>1. PICK s \in Slots : pid[s] = 1 /\ state[s] = "CONSTRUCT"
        BY <3>5
      <4>2. s # p /\ s # n
        BY <4>1, <1>2, <1>3, <1>4
      <4> QED
        BY <3>1, <3>5, <4>1, <4>2, <1>6, <1>9
    <3>6. CASE \E s \in Slots : pid[s] = ktq[j].caller /\ state[s] = "KWORKER"
      <4>1. PICK s \in Slots : pid[s] = ktq[j].caller /\ state[s] = "KWORKER"
        BY <3>6
      <4>2. s # p /\ s # n
        BY <4>1, <1>2, <1>3, <3>2
      <4> QED
        BY <3>1, <4>1, <4>2, <1>6, <1>9
    <3> QED
      BY <3>1, <3>3, <3>4, <3>5, <3>6, <1>1 DEF Linked
  <2>3. \A j, k \in Busy(ktq') : ktq'[j].caller = ktq'[k].caller => j = k
    BY <1>1, <1>11 DEF Linked, Busy
  <2> QED
    BY <2>1, <2>2, <2>3 DEF Linked
<1>13. Resources'
  <2>1. /\ parent \in [Slots -> Slots \cup {NoParent}]
        /\ isThread \in [Slots -> BOOLEAN] /\ ~isThread[0]
        /\ sel \in [Slots -> Selectors] /\ selectorMap \in SUBSET Selectors
    BY <1>1 DEF Resources
  <2>2. mmu_get_free_selector \in Selectors \ selectorMap
    BY SelectorToSpare
  <2>3. /\ parent' \in [Slots -> Slots \cup {NoParent}]
        /\ isThread' \in [Slots -> BOOLEAN] /\ ~isThread'[0]
        /\ sel' \in [Slots -> Selectors] /\ selectorMap' \in SUBSET Selectors
        /\ selectorMap \in SUBSET selectorMap'
    BY <1>1, <1>2, <1>3, <1>5, <1>8, <2>1, <2>2 DEF do_fork
  <2>4. /\ \A s \in Slots \ {n} : /\ sel'[s] = sel[s] /\ isThread'[s] = isThread[s]
                                  /\ Alive(s)' <=> Alive(s)
        /\ Alive(n)' /\ ~Alive(n)
        /\ isThread'[n] = clone
    <3>1. \A s \in Slots \ {n} : Alive(s)' <=> Alive(s)
      BY <1>2, <1>3, <1>4, <1>6 DEF Alive
    <3>2. Alive(n)' /\ ~Alive(n)
      BY <1>3, <1>6 DEF Alive
    <3>3. /\ \A s \in Slots \ {n} : sel'[s] = sel[s] /\ isThread'[s] = isThread[s]
          /\ isThread'[n] = clone
      BY <1>3, <1>8, <2>1 DEF do_fork
    <3> QED
      BY <3>1, <3>2, <3>3
  <2>5. ~clone => /\ sel'[n] = mmu_get_free_selector
                  /\ selectorMap' = selectorMap \cup {mmu_get_free_selector}
    BY <1>3, <2>1 DEF do_fork
  <2>6. clone => selectorMap' = selectorMap
    BY DEF do_fork
  <2>7. SelectorsPrivate
    BY <1>1 DEF Resources
  <2>8. SelectorsPrivate'
    <3> SUFFICES ASSUME NEW s \in Slots, Alive(s)', ~isThread'[s]
                 PROVE  /\ sel'[s] \in selectorMap'
                        /\ \A t \in Slots \ {s} : Alive(t)' /\ ~isThread'[t] => sel'[s] # sel'[t]
      BY DEF SelectorsPrivate
    <3>1. CASE s = n
      <4>1. ~clone /\ sel'[n] = mmu_get_free_selector /\ sel'[n] \in selectorMap'
        BY <3>1, <2>4, <2>5
      <4>2. \A t \in Slots \ {n} : Alive(t) /\ ~isThread[t] => sel[t] \in selectorMap
        BY <2>7 DEF SelectorsPrivate
      <4> QED
        BY <3>1, <4>1, <4>2, <2>2, <2>4
    <3>2. CASE s # n
      <4>1. sel[s] \in selectorMap
        BY <3>2, <2>4, <2>7 DEF SelectorsPrivate
      <4>2. ~isThread'[n] => sel'[n] \notin selectorMap
        BY <2>2, <2>4, <2>5
      <4> QED
        BY <3>2, <4>1, <4>2, <2>3, <2>4, <2>7 DEF SelectorsPrivate
    <3> QED
      BY <3>1, <3>2
  <2>9. ASSUME NEW y \in selectorMap'
        PROVE  \E s \in Slots : Alive(s)' /\ ~isThread'[s] /\ sel'[s] = y
    <3>1. CASE y \in selectorMap
      <4>1. PICK s \in Slots : Alive(s) /\ ~isThread[s] /\ sel[s] = y
        BY <3>1, <1>1 DEF Resources
      <4> QED
        BY <4>1, <2>4
    <3>2. CASE y \notin selectorMap
      BY <3>2, <2>4, <2>5, <2>6, <2>9, <1>3
    <3> QED
      BY <3>1, <3>2
  <2> QED
    BY <2>3, <2>8, <2>9 DEF Resources
<1>14. /\ sigs' \in [Slots -> SUBSET SignalSet] /\ sigs'[0] = sigs[0]
       /\ (nextPid = 0 => sigs[0] = {})'
  BY <1>1, <1>2, <1>3, <1>4, <1>5, <1>7, <1>8
<1>15. /\ state'[currentTask'] = "RUN" /\ currentTask' \in Slots
       /\ state'[0] = "RUN"
  BY <1>1, <1>4, <1>5, <1>6
<1>16. halted' = "no"
  OBVIOUS
<1>17. (nextPid + Cardinality(ForksIn(ktq)) <= MaxPid)'
  BY <1>7 DEF ForksIn
<1>18. \A s \in Slots : state'[s] = "BLOCKED" <=> state[s] = "BLOCKED"
  BY <1>2, <1>3, <1>4, <1>5, <1>6
<1>19. \A s \in Slots : state[s] = "BLOCKED" => pid'[s] = pid[s] /\ sigs'[s] = sigs[s]
  BY <1>1, <1>3, <1>8, <1>9
<1>20. Calm(state, sigs)'
  BY <1>1, <1>18, <1>19 DEF Calm
<1>21. Same
  BY <1>14, <1>16, <1>18, <1>19 DEF Same, Fatal
<1> QED
  BY <1>10, <1>11, <1>12, <1>13, <1>14, <1>15, <1>16, <1>17, <1>20, <1>21 DEF Parts

\* The worker serves task i, not a fork, for process p: p goes on in state x and
\* the zombies in reaped leave the table.
Serves(i, p, x, reaped) ==
  /\ ktq[i].type \in {"EXECVE", "WAITPID", "EXIT"} /\ ~CallerGone(i)
  /\ p = findProcByPid(ktq[i].caller)
  /\ \A s \in reaped : state[s] = "ZOMBIE"
  /\ state' \in [Slots -> States]
  /\ \A s \in Slots : state'[s] = IF s \in reaped THEN "NONE"
                                  ELSE IF s = p THEN x ELSE state[s]
  /\ TaskDone(i) /\ UNCHANGED <<pid, nextPid>>

\* What is so of the table and the queue when it was served.
ServedLinks(p, reaped) ==
  /\ GoodTable(state)' /\ Linked(state, ktq)'
  /\ ktq' \in [Tasks -> TaskRecords]
  /\ (nextPid + Cardinality(ForksIn(ktq)) <= MaxPid)'
  /\ p \in Slots \ {0} /\ p \notin reaped /\ 0 \notin reaped
  /\ state[p] \in {"KWORKER", "CONSTRUCT"}
  /\ \A s \in Slots : state'[s] = "BLOCKED" <=> state[s] = "BLOCKED"

\* Serving it leaves the table and the queue linked.
LEMMA ServedKeepsLinks ==
  ASSUME Parts, state[0] = "RUN", NEW i \in Tasks, NEW p,
         NEW x \in {"RUN", "NEW", "ZOMBIE"}, NEW reaped \in SUBSET Slots,
         Serves(i, p, x, reaped)
  PROVE  ServedLinks(p, reaped)
<1>0. /\ ktq[i].type \in {"EXECVE", "WAITPID", "EXIT"} /\ ~CallerGone(i)
      /\ p = findProcByPid(ktq[i].caller)
      /\ \A s \in reaped : state[s] = "ZOMBIE"
      /\ state' \in [Slots -> States]
      /\ \A s \in Slots : state'[s] = IF s \in reaped THEN "NONE"
                                      ELSE IF s = p THEN x ELSE state[s]
      /\ TaskDone(i) /\ UNCHANGED <<pid, nextPid>>
  BY DEF Serves
<1> USE <1>0
<1>1. /\ GoodTable(state) /\ Linked(state, ktq)
      /\ ktq \in [Tasks -> TaskRecords]
      /\ nextPid + Cardinality(ForksIn(ktq)) <= MaxPid
      /\ i \in Busy(ktq) /\ 0 \in Slots
  BY DEF Parts, Busy, Slots
<1>2. /\ p \in Slots \ {0} /\ pid[p] = ktq[i].caller
      /\ state[p] \in {"KWORKER", "CONSTRUCT"}
  BY TaskCaller
<1>3. p \notin reaped /\ 0 \notin reaped
  BY <1>1, <1>2 DEF GoodTable
<1>4. /\ ktq' \in [Tasks -> TaskRecords]
      /\ \A j \in Tasks \ {i} : ktq'[j] = ktq[j]
      /\ Busy(ktq') = Busy(ktq) \ {i}
  BY <1>1 DEF TaskDone, NoTask, Task, TaskRecords, TaskTypes, Busy
<1>5. ForksIn(ktq') = ForksIn(ktq)
  BY <1>1, <1>4 DEF ForksIn, TaskDone, NoTask, Task
<1>6. /\ \A s \in Slots \ {p} : state'[s] = state[s] \/ (s \in reaped /\ state'[s] = "NONE")
      /\ state'[p] = x /\ state' \in [Slots -> States]
  BY <1>1, <1>2, <1>3 DEF GoodTable, States
<1>7. GoodTable(state)'
  <2>1. \A s \in Slots : state'[s] # "NONE" => state[s] # "NONE"
    BY <1>2, <1>6
  <2> QED
    BY <1>1, <1>2, <1>3, <1>6, <2>1 DEF GoodTable, Live
<1>8. \A s \in Slots \ {p} : state[s] \in {"KWORKER", "CONSTRUCT"} => state'[s] = state[s]
  BY <1>6
<1>9. Linked(state, ktq)'
  <2>1. ASSUME NEW s \in Slots, state'[s] = "KWORKER"
        PROVE  \E j \in Busy(ktq') : ktq'[j].caller = pid[s]
    <3>1. s # p /\ state[s] = "KWORKER"
      BY <2>1, <1>6
    <3>2. PICK j \in Busy(ktq) : ktq[j].caller = pid[s]
      BY <3>1, <1>1 DEF Linked
    <3>3. pid[s] # pid[p]
      BY <3>1, <1>1, <1>2 DEF GoodTable, Live
    <3>4. j # i /\ j \in Tasks
      BY <1>2, <3>2, <3>3 DEF Busy
    <3> QED
      BY <3>2, <3>4, <1>4
  <2>2. ASSUME NEW j \in Busy(ktq')
        PROVE  \/ ktq'[j].type = "FORK" /\ ktq'[j].caller = 0 /\ nextPid = 0
               \/ /\ ktq'[j].type = "EXECVE" /\ ktq'[j].caller = 1
                  /\ nextPid = 0 \/ \E s \in Slots : pid[s] = 1 /\ state'[s] = "CONSTRUCT"
               \/ \E s \in Slots : pid[s] = ktq'[j].caller /\ state'[s] = "KWORKER"
    <3>1. j \in Busy(ktq) /\ j # i /\ ktq'[j] = ktq[j]
      BY <1>4 DEF Busy
    <3>2. \A s \in Slots : pid[s] = ktq[j].caller => s # p
      BY <3>1, <1>1, <1>2 DEF Linked
    <3> QED
      BY <3>1, <3>2, <1>1, <1>8 DEF Linked
  <2>3. \A j, k \in Busy(ktq') : ktq'[j].caller = ktq'[k].caller => j = k
    BY <1>1, <1>4 DEF Linked, Busy
  <2> QED
    BY <2>1, <2>2, <2>3 DEF Linked
<1>10. (nextPid + Cardinality(ForksIn(ktq)) <= MaxPid)'
  BY <1>1, <1>5 DEF ForksIn
<1>11. \A s \in Slots : state'[s] = "BLOCKED" <=> state[s] = "BLOCKED"
  BY <1>2, <1>6
<1> QED
  BY <1>2, <1>3, <1>4, <1>7, <1>9, <1>10, <1>11 DEF ServedLinks

\* Serving an execve or waitpid: every selector stays with its owner.
LEMMA ServedKeepsInv ==
  ASSUME Parts, halted = "no", currentTask = 0, NEW i \in Tasks,
         ktq[i].type \in {"EXECVE", "WAITPID"}, ~CallerGone(i),
         NEW p, p = findProcByPid(ktq[i].caller),
         NEW x \in {"RUN", "NEW"}, NEW reaped \in SUBSET Slots,
         \A s \in reaped : state[s] = "ZOMBIE",
         state' \in [Slots -> States],
         \A s \in Slots : state'[s] = IF s \in reaped THEN "NONE"
                                      ELSE IF s = p THEN x ELSE state[s],
         TaskDone(i), wpos' \in 0 .. MAX_QUEUE_SIZE,
         UNCHANGED <<pid, parent, sigs, isThread, sel, selectorMap, nextPid, halted,
                     currentTask>>
  PROVE  Parts' /\ Same
<1>1. /\ GoodTable(state) /\ Resources
      /\ sigs \in [Slots -> SUBSET SignalSet] /\ Calm(state, sigs)
      /\ (nextPid = 0 => sigs[0] = {}) /\ 0 \in Slots /\ state[0] = "RUN"
  BY DEF Parts, Slots
<1>2. /\ GoodTable(state)' /\ Linked(state, ktq)'
      /\ ktq' \in [Tasks -> TaskRecords]
      /\ (nextPid + Cardinality(ForksIn(ktq)) <= MaxPid)'
      /\ p \in Slots \ {0} /\ p \notin reaped /\ 0 \notin reaped
      /\ state[p] \in {"KWORKER", "CONSTRUCT"}
      /\ \A s \in Slots : state'[s] = "BLOCKED" <=> state[s] = "BLOCKED"
  <2>1. Serves(i, p, x, reaped)
    BY DEF Serves
  <2>2. x \in {"RUN", "NEW", "ZOMBIE"}
    OBVIOUS
  <2>3. ServedLinks(p, reaped)
    BY <1>1, <2>1, <2>2, ServedKeepsLinks
  <2> QED
    BY <2>3 DEF ServedLinks
<1>3. \A s \in Slots : Alive(s)' <=> Alive(s)
  BY <1>1, <1>2 DEF Alive
<1>4. Resources'
  <2>1. UNCHANGED <<parent, isThread, sel, selectorMap>>
    OBVIOUS
  <2> QED
    BY <1>1, <1>3, <2>1, ResourcesStay, Zenon
<1>5. state'[0] = "RUN"
  BY <1>1, <1>2
<1>6. Calm(state, sigs)' /\ Same
  BY <1>1, <1>2 DEF Calm, Same, Fatal
<1> QED
  BY <1>1, <1>2, <1>4, <1>5, <1>6 DEF Parts

\* Serving an exit: only the selector of the process that died is given back.
LEMMA ExitKeepsInv ==
  ASSUME Parts, halted = "no", currentTask = 0, NEW i \in Tasks,
         ktq[i].type = "EXIT", ~CallerGone(i),
         do_kernel_task_exit(i), wpos' \in 0 .. MAX_QUEUE_SIZE, UNCHANGED currentTask
  PROVE  Parts' /\ Same
<1>p. PICK p : p = findProcByPid(ktq[i].caller)
  OBVIOUS
<1>1. /\ GoodTable(state) /\ Resources
      /\ sigs \in [Slots -> SUBSET SignalSet] /\ Calm(state, sigs)
      /\ (nextPid = 0 => sigs[0] = {}) /\ 0 \in Slots /\ state[0] = "RUN"
      /\ state \in [Slots -> States]
  BY DEF Parts, Slots, GoodTable
<1>2. /\ state' = [state EXCEPT ![p] = "ZOMBIE"] /\ TaskDone(i)
      /\ selectorMap' = IF isThread[p] THEN selectorMap ELSE selectorMap \ {sel[p]}
      /\ UNCHANGED <<pid, parent, sigs, isThread, sel, nextPid, halted>>
  BY <1>p DEF do_kernel_task_exit, SelectorsAfterExit
<1>3. /\ GoodTable(state)' /\ Linked(state, ktq)'
      /\ ktq' \in [Tasks -> TaskRecords]
      /\ (nextPid + Cardinality(ForksIn(ktq)) <= MaxPid)'
      /\ p \in Slots \ {0} /\ state[p] \in {"KWORKER", "CONSTRUCT"}
      /\ \A s \in Slots : state'[s] = "BLOCKED" <=> state[s] = "BLOCKED"
  <2>1. /\ state' \in [Slots -> States]
        /\ \A s \in Slots : state'[s] = IF s = p THEN "ZOMBIE" ELSE state[s]
    BY <1>1, <1>2 DEF States
  <2>2. Serves(i, p, "ZOMBIE", {})
    BY <1>p, <1>2, <2>1 DEF Serves
  <2>3. ServedLinks(p, {})
    BY <1>1, <2>2, ServedKeepsLinks
  <2> QED
    BY <2>3 DEF ServedLinks
<1>4. /\ \A s \in Slots \ {p} : Alive(s)' <=> Alive(s)
      /\ Alive(p) /\ ~Alive(p)'
  <2>1. /\ \A s \in Slots \ {p} : state'[s] = state[s]
        /\ state'[p] = "ZOMBIE"
    BY <1>1, <1>2, <1>3
  <2> QED
    BY <1>3, <2>1 DEF Alive
<1>5. Resources'
  <2>1. /\ parent \in [Slots -> Slots \cup {NoParent}]
        /\ isThread \in [Slots -> BOOLEAN] /\ ~isThread[0]
        /\ sel \in [Slots -> Selectors] /\ selectorMap \in SUBSET Selectors
        /\ selectorMap' \in SUBSET selectorMap
    BY <1>1, <1>2 DEF Resources
  <2>2. SelectorsPrivate'
    <3> SUFFICES ASSUME NEW s \in Slots, Alive(s)', ~isThread[s]
                 PROVE  /\ sel[s] \in selectorMap'
                        /\ \A t \in Slots \ {s} : Alive(t)' /\ ~isThread[t] => sel[s] # sel[t]
      BY <1>2 DEF SelectorsPrivate
    <3>1. SelectorsPrivate
      BY <1>1 DEF Resources
    <3>2. s # p /\ Alive(s) /\ \A t \in Slots : Alive(t)' => Alive(t)
      BY <1>4
    <3>3. sel[s] \in selectorMap /\ (~isThread[p] => sel[s] # sel[p])
      BY <1>3, <1>4, <3>1, <3>2 DEF SelectorsPrivate
    <3> QED
      BY <1>2, <3>1, <3>2, <3>3 DEF SelectorsPrivate
  <2>3. ASSUME NEW y \in selectorMap'
        PROVE  \E s \in Slots : Alive(s)' /\ ~isThread'[s] /\ sel'[s] = y
    <3>1. PICK s \in Slots : Alive(s) /\ ~isThread[s] /\ sel[s] = y
      BY <2>1, <2>3, <1>1 DEF Resources
    <3>2. s # p
      BY <1>2, <2>3, <3>1
    <3> QED
      BY <1>2, <1>4, <3>1, <3>2
  <2> QED
    BY <1>2, <2>1, <2>2, <2>3 DEF Resources
<1>6. state'[0] = "RUN"
  BY <1>1, <1>2, <1>3
<1>7. Calm(state, sigs)' /\ Same
  BY <1>1, <1>2, <1>3 DEF Calm, Same, Fatal
<1> QED
  BY <1>1, <1>2, <1>3, <1>5, <1>6, <1>7 DEF Parts

\* An exit never finds its caller gone: the "double exit" message is never
\* printed.
LEMMA ExitFindsCaller ==
  ASSUME Parts, NEW i \in Tasks, ktq[i].type = "EXIT"
  PROVE  ~CallerGone(i)
<1>1. Linked(state, ktq) /\ i \in Busy(ktq)
  BY DEF Parts, Busy
<1>2. PICK s \in Slots : pid[s] = ktq[i].caller /\ state[s] = "KWORKER"
  BY <1>1 DEF Linked
<1> QED
  BY <1>2 DEF CallerGone, Found, Live

\* What kernel_main leaves satisfies the invariant.
LEMMA InitInv == Init => Parts /\ Awake /\ halted = "no" /\ \A s \in Slots : sigs[s] = {}
<1> SUFFICES ASSUME Init
             PROVE  Parts /\ Awake /\ halted = "no" /\ \A s \in Slots : sigs[s] = {}
  OBVIOUS
<1>1. 0 \in Slots /\ 0 \in Tasks /\ 1 \in Tasks /\ 0 \in Selectors
  BY DEF Slots, Tasks, Selectors
<1>2. /\ ktq[0] = Task("FORK", 0, 0, FALSE) /\ ktq[1] = Task("EXECVE", 1, 0, FALSE)
      /\ \A i \in Tasks \ {0, 1} : ktq[i] = NoTask
  <2>1. ktq = [i \in Tasks |-> IF i = 0 THEN Task("FORK", 0, 0, FALSE)
                               ELSE IF i = 1 THEN Task("EXECVE", 1, 0, FALSE)
                               ELSE NoTask]
    BY DEF Init
  <2>2. \A i \in Tasks : ktq[i] = IF i = 0 THEN Task("FORK", 0, 0, FALSE)
                                  ELSE IF i = 1 THEN Task("EXECVE", 1, 0, FALSE)
                                  ELSE NoTask
    BY <2>1
  <2>3. 1 # 0
    OBVIOUS
  <2> QED
    BY <1>1, <2>2, <2>3
<1>3. ktq \in [Tasks -> TaskRecords]
  <2>1. /\ Task("FORK", 0, 0, FALSE) \in TaskRecords /\ NoTask \in TaskRecords
        /\ Task("EXECVE", 1, 0, FALSE) \in TaskRecords
    BY DEF Task, NoTask, TaskRecords, TaskTypes
  <2> QED
    BY <2>1 DEF Init
<1>4. Busy(ktq) = {0, 1} /\ ForksIn(ktq) = {0}
  BY <1>1, <1>2 DEF Busy, ForksIn, Task, NoTask
<1>5. /\ ktq[0].type = "FORK" /\ ktq[0].caller = 0
      /\ ktq[1].type = "EXECVE" /\ ktq[1].caller = 1
  BY <1>2 DEF Task
<1>6. Linked(state, ktq)
  <2>1. \A s \in Slots : state[s] # "KWORKER"
    BY DEF Init
  <2>2. nextPid = 0
    BY DEF Init
  <2> QED
    BY <1>4, <1>5, <2>1, <2>2 DEF Linked
<1>7. GoodTable(state)
  BY <1>1 DEF Init, GoodTable, States, Live
<1>8. Resources
  <2>1. \A s \in Slots : Alive(s) <=> s = 0
    BY DEF Init, Alive
  <2> QED
    BY <1>1, <2>1 DEF Init, Resources, SelectorsPrivate
<1>9. nextPid + Cardinality(ForksIn(ktq)) <= MaxPid
  <2>1. Cardinality({0}) = 1
    BY FS_Singleton
  <2>2. nextPid = 0
    BY DEF Init
  <2> QED
    BY <1>4, <2>1, <2>2
<1>10. /\ sigs \in [Slots -> SUBSET SignalSet] /\ sigs[0] = {} /\ state[0] = "RUN"
       /\ currentTask \in Slots /\ state[currentTask] = "RUN"
       /\ wpos \in 0 .. MAX_QUEUE_SIZE /\ halted = "no"
       /\ Awake /\ Calm(state, sigs) /\ \A s \in Slots : sigs[s] = {}
  BY <1>1 DEF Init, Awake, Calm
<1> QED
  BY <1>3, <1>6, <1>7, <1>8, <1>9, <1>10 DEF Parts

\* The worker's pass over one entry keeps the invariant.
LEMMA WorkerKeepsInv ==
  ASSUME Parts, kernel_worker
  PROVE  Parts' /\ Same
<1> DEFINE i == wpos
           p == findProcByPid(ktq[i].caller)
<1>1. /\ halted = "no" /\ currentTask = 0 /\ i \in Tasks
      /\ wpos' \in 0 .. MAX_QUEUE_SIZE /\ UNCHANGED currentTask
  BY DEF kernel_worker, Tasks
<1>2. state \in [Slots -> States] /\ 0 \in Slots /\ i \in Tasks
  BY <1>1 DEF Parts, GoodTable, Slots
<1>3. ASSUME UNCHANGED <<procVars, selectorMap, nextPid, ktq>>, halted' \in {"no", "nullproc"}
      PROVE  Parts' /\ Same
  <2>1. Parts'
    BY <1>1, <1>3
    DEF Parts, procVars, GoodTable, Linked, Busy, Resources, SelectorsPrivate, Alive,
        Live, ForksIn, Calm, WorkerKilled
  <2>2. Same
    BY <1>1, <1>3 DEF Same, procVars, Fatal
  <2> QED
    BY <2>1, <2>2
<1> HIDE DEF i
<1>4. CASE TaskIdle(i)
  BY <1>1, <1>3, <1>4 DEF TaskIdle, TaskStays
<1>5. CASE do_kernel_task_fork(i)
  <2>1. CASE CallerGone(i)
    BY <1>1, <1>3, <1>5, <2>1 DEF do_kernel_task_fork, TaskStays
  <2>2. CASE ~CallerGone(i) /\ FreeProcs = {}
    BY <1>3, <1>5, <2>2 DEF do_kernel_task_fork, NullProcess
  <2>3. CASE ~CallerGone(i) /\ FreeProcs # {}
    <3> DEFINE n == get_free_proc
               x == IF pid[p] # 0 THEN "NEW" ELSE "CONSTRUCT"
    <3>1. /\ do_fork(p, n, FALSE) /\ ktq[i].type = "FORK"
          /\ state' = [state EXCEPT ![p] = "RUN", ![n] = x]
          /\ TaskDone(i) /\ UNCHANGED halted
      BY <1>5, <2>3 DEF do_kernel_task_fork
    <3>2. x \in {"NEW", "CONSTRUCT", "RUN"} /\ (pid[p] = 0 => x = "CONSTRUCT")
      OBVIOUS
    <3>3. p = findProcByPid(ktq[i].caller) /\ n = get_free_proc
      OBVIOUS
    <3> HIDE DEF p, n, x
    <3> QED
      BY <1>1, <2>3, <3>1, <3>2, <3>3, ForkKeepsInv
  <2> QED
    BY <2>1, <2>2, <2>3
<1>6. CASE do_kernel_task_clone(i)
  <2>1. CASE CallerGone(i)
    BY <1>1, <1>3, <1>6, <2>1 DEF do_kernel_task_clone, TaskStays
  <2>2. CASE ~CallerGone(i) /\ FreeProcs = {}
    BY <1>3, <1>6, <2>2 DEF do_kernel_task_clone, NullProcess
  <2>3. CASE ~CallerGone(i) /\ FreeProcs # {}
    <3> DEFINE n == get_free_proc
    <3>1. /\ do_fork(p, n, TRUE) /\ ktq[i].type = "CLONE"
          /\ state' = [state EXCEPT ![p] = "RUN", ![n] = "RUN"]
          /\ TaskDone(i) /\ UNCHANGED halted
      BY <1>6, <2>3 DEF do_kernel_task_clone
    <3>2. p = findProcByPid(ktq[i].caller) /\ n = get_free_proc
          /\ "RUN" \in {"NEW", "CONSTRUCT", "RUN"}
      OBVIOUS
    <3> HIDE DEF p, n
    <3> QED
      BY <1>1, <2>3, <3>1, <3>2, ForkKeepsInv
  <2> QED
    BY <2>1, <2>2, <2>3
<1>7. CASE do_kernel_task_execve(i)
  <2>1. CASE CallerGone(i)
    BY <1>1, <1>3, <1>7, <2>1 DEF do_kernel_task_execve, TaskStays
  <2>2. CASE ~CallerGone(i)
    <3> DEFINE none == {}
               x == "NEW"
    <3>1. /\ state' = [state EXCEPT ![p] = "NEW"] /\ TaskDone(i)
          /\ ktq[i].type = "EXECVE"
          /\ UNCHANGED <<pid, parent, sigs, isThread, sel, selectorMap, nextPid, halted>>
      BY <1>7, <2>2 DEF do_kernel_task_execve
    <3>2. /\ none \in SUBSET Slots /\ (\A s \in none : state[s] = "ZOMBIE")
          /\ p = findProcByPid(ktq[i].caller) /\ x \in {"RUN", "NEW"}
      OBVIOUS
    <3>3. /\ state' \in [Slots -> States]
          /\ \A s \in Slots : state'[s] = IF s \in none THEN "NONE"
                                          ELSE IF s = p THEN x ELSE state[s]
      BY <1>2, <3>1 DEF States
    <3>4. /\ ktq[i].type \in {"EXECVE", "WAITPID"} /\ TaskDone(i)
          /\ UNCHANGED <<pid, parent, sigs, isThread, sel, selectorMap, nextPid, halted,
                         currentTask>>
      BY <1>1, <3>1
    <3> HIDE DEF none, p, x
    <3> QED
      BY <1>1, <2>2, <3>2, <3>3, <3>4, ServedKeepsInv
  <2> QED
    BY <2>1, <2>2
<1>8. CASE do_kernel_task_waitpid(i)
  <2> DEFINE C == WaitCandidates(i, p)
             c == Lowest(C)
             dead == C # {} /\ state[c] = "ZOMBIE"
             reaped == IF dead THEN {c} ELSE {}
             x == "RUN"
  <2>1. CASE CallerGone(i)
    BY <1>1, <1>3, <1>8, <2>1 DEF do_kernel_task_waitpid, TaskStays
  <2>2. CASE ~CallerGone(i) /\ ~(dead \/ ktq[i].nohang)
    BY <1>1, <1>3, <1>8, <2>2 DEF do_kernel_task_waitpid, TaskStays
  <2>3. CASE ~CallerGone(i) /\ (dead \/ ktq[i].nohang)
    <3>1. /\ state' = IF dead THEN [state EXCEPT ![c] = "NONE", ![p] = "RUN"]
                      ELSE [state EXCEPT ![p] = "RUN"]
          /\ TaskDone(i) /\ ktq[i].type = "WAITPID"
          /\ UNCHANGED <<pid, parent, sigs, isThread, sel, selectorMap, nextPid, halted>>
      BY <1>8, <2>3 DEF do_kernel_task_waitpid
    <3>2. C \in SUBSET Slots /\ Slots \in SUBSET Nat
      BY DEF WaitCandidates, Found, Children, Slots
    <3>3. p \in Slots /\ state[p] \in {"KWORKER", "CONSTRUCT"}
      <4>1. state[0] = "RUN"
        BY <1>1 DEF Parts
      <4> QED
        BY <2>3, <3>1, <4>1, <1>1, TaskCaller
    <3> HIDE DEF C
    <3>4. dead => c \in Slots /\ c # p
      BY <3>2, <3>3, LowestIsLeast
    <3> HIDE DEF c
    <3>5. /\ reaped \in SUBSET Slots /\ \A s \in reaped : state[s] = "ZOMBIE"
          /\ x \in {"RUN", "NEW"}
      BY <3>4
    <3>6. p = findProcByPid(ktq[i].caller)
      OBVIOUS
    <3> HIDE DEF p
    <3>7. /\ state' \in [Slots -> States]
          /\ \A s \in Slots : state'[s] = IF s \in reaped THEN "NONE"
                                          ELSE IF s = p THEN x ELSE state[s]
      BY <1>2, <3>1, <3>3, <3>4 DEF States
    <3>8. /\ ktq[i].type \in {"EXECVE", "WAITPID"} /\ TaskDone(i)
          /\ UNCHANGED <<pid, parent, sigs, isThread, sel, selectorMap, nextPid, halted,
                         currentTask>>
      BY <1>1, <3>1
    <3> HIDE DEF reaped, dead, x
    <3> QED
      BY <1>1, <2>3, <3>5, <3>6, <3>7, <3>8, ServedKeepsInv
  <2> QED
    BY <2>1, <2>2, <2>3
<1>9. CASE do_kernel_task_exit(i)
  <2>1. ktq[i].type = "EXIT"
    BY <1>9 DEF do_kernel_task_exit
  <2>2. ~CallerGone(i)
    BY <1>1, <2>1, ExitFindsCaller
  <2> QED
    BY <1>1, <1>9, <2>1, <2>2, ExitKeepsInv
<1> QED
  BY <1>4, <1>5, <1>6, <1>7, <1>8, <1>9 DEF kernel_worker, i

\* Every step but a kill keeps the invariant, and who is blocked.
LEMMA StepKeepsParts ==
  ASSUME Parts, [Next]_vars, ~sys_kill
  PROVE  Parts' /\ Same
<1>1. GoodTable(state) /\ Linked(state, ktq) /\ ktq \in [Tasks -> TaskRecords]
      /\ sigs \in [Slots -> SUBSET SignalSet] /\ Calm(state, sigs)
      /\ currentTask \in Slots /\ (halted = "no" => state[currentTask] = "RUN")
      /\ nextPid + Cardinality(ForksIn(ktq)) <= MaxPid
  BY DEF Parts
<1>2. ASSUME UNCHANGED <<state, pid, parent, sigs, isThread, sel, selectorMap, nextPid,
                         currentTask, ktq, halted>>,
             wpos' \in 0 .. MAX_QUEUE_SIZE
      PROVE  Parts' /\ Same
  <2>1. Parts'
    BY <1>2
    DEF Parts, GoodTable, Linked, Busy, Resources, SelectorsPrivate, Alive, Live, ForksIn,
        Calm, WorkerKilled
  <2>2. Same
    BY <1>2 DEF Same, Fatal
  <2> QED
    BY <2>1, <2>2
<1>3. ASSUME NEW sg \in [Slots -> SUBSET SignalSet], sg[0] = sigs[0], Calm(state, sg),
             halted = "no", resched(state, sg, ktq),
             UNCHANGED <<pid, parent, isThread, sel, selectorMap, nextPid, wpos>>
      PROVE  Parts' /\ Same
  <2>1. Turns(state, sg)
    BY <1>1, <1>3 DEF Turns
  <2>2. /\ Parts' /\ sigs'[0] = sigs[0]
        /\ \/ halted' = "panic" /\ WorkerKilled
           \/ halted' = halted /\ ~Fatal(sigs, currentTask)'
        /\ \A s \in Slots : state'[s] = "BLOCKED" <=> state[s] = "BLOCKED"
    BY <1>1, <1>3, <2>1, ReschedKeepsInv
  <2> QED
    BY <1>3, <2>2 DEF Same
<1>4. CASE timer_interrupt
  BY <1>1, <1>3, <1>4 DEF timer_interrupt
<1>5. CASE sys_yield
  BY <1>1, <1>3, <1>5 DEF sys_yield, InProgram
<1>6. CASE decoder_interrupt
  <2> DEFINE c == currentTask
             sg == sendSig(pid[c], SIGKILL)
  <2>1. c \in Slots \ {0} /\ state[c] = "RUN"
    BY <1>1, <1>6 DEF decoder_interrupt, InProgram
  <2>2. pid[c] \in 1 .. MaxPid /\ pid[0] = 0 /\ \A s \in Slots : Live(state, s) /\ pid[s] = pid[c] => s = c
    BY <1>1, <2>1 DEF GoodTable, Live
  <2>3. SIGKILL \in SignalSet
    BY DEF SignalSet
  <2>4. /\ sg \in [Slots -> SUBSET SignalSet]
        /\ \A s \in Slots : sg[s] = sigs[s] \/ (pid[s] = pid[c] /\ Live(state, s))
    BY <2>2, <2>3, SendSigKeeps
  <2>s. sg[0] = sigs[0]
    BY <2>2, <2>4 DEF Slots
  <2>5. resched(state, sg, ktq)
        /\ UNCHANGED <<pid, parent, isThread, sel, selectorMap, nextPid, wpos>>
        /\ halted = "no"
    BY <1>6 DEF decoder_interrupt, InProgram
  <2> HIDE DEF sg
  <2>6. Calm(state, sg)
    BY <1>1, <2>1, <2>2, <2>4 DEF Calm
  <2> QED
    BY <1>3, <2>4, <2>s, <2>5, <2>6
<1>8. ASSUME NEW call, InProgram(call)
      PROVE  halted = "no" /\ currentTask # 0
  BY <1>8 DEF InProgram
<1>9. /\ {"FORK", "CLONE", "EXECVE", "WAITPID", "EXIT"} \in SUBSET (TaskTypes \ {"NONE"})
      /\ 0 \in 0 .. MaxPid /\ FALSE \in BOOLEAN
  BY DEF TaskTypes
<1>10. CASE sys_fork
  BY <1>8, <1>9, <1>10, ParkKeepsInv DEF sys_fork
<1>11. CASE sys_clone
  BY <1>8, <1>9, <1>11, ParkKeepsInv DEF sys_clone
<1>12. CASE sys_execve
  BY <1>8, <1>9, <1>12, ParkKeepsInv DEF sys_execve
<1>13. CASE sys_waitpid
  <2>1. PICK target \in 0 .. MaxPid, nohang \in BOOLEAN : Park("WAITPID", target, nohang)
    BY <1>13 DEF sys_waitpid
  <2> QED
    BY <1>8, <1>9, <1>13, <2>1, ParkKeepsInv DEF sys_waitpid
<1>14. CASE sys_exit
  BY <1>8, <1>9, <1>14, ParkKeepsInv DEF sys_exit
<1>15. CASE kernel_worker
  BY <1>15, WorkerKeepsInv
<1>16. CASE processWaiting
  BY <1>2, <1>16 DEF processWaiting, procVars
<1>17. CASE UNCHANGED vars
  BY <1>2, <1>17 DEF vars, Parts
<1> QED
  BY <1>4, <1>5, <1>6, <1>10, <1>11, <1>12, <1>13, <1>14, <1>15, <1>16, <1>17
  DEF Next, panic

\* Where nobody is blocked a kill keeps the invariant as well.
LEMMA NextKeepsInv == SchedInv /\ [Next]_vars => SchedInv'
<1> SUFFICES ASSUME SchedInv, [Next]_vars PROVE Parts' /\ Awake' /\ NoPanic'
  BY InvPartsPrime
<1>1. Parts /\ Awake /\ NoPanic
  BY InvParts
<1>2. CASE sys_kill
  <2>1. PICK target \in 0 .. MaxPid, sig \in Sigs : sigs' = sendSig(target, sig)
    BY <1>2 DEF sys_kill
  <2>2. sig \in SignalSet
    BY DEF SignalSet
  <2>3. /\ sigs' \in [Slots -> SUBSET SignalSet]
        /\ \A s \in Slots : sigs[s] \in SUBSET sigs'[s]
    BY <1>1, <2>1, <2>2, SendSigKeeps
  <2>4. UNCHANGED <<state, pid, parent, isThread, sel, selectorMap, nextPid,
                    currentTask, ktq, wpos, halted>>
    BY <1>2 DEF sys_kill
  \* the program that kills was given a pid
  <2>5. nextPid # 0
    <3>1. currentTask \in Slots \ {0} /\ state[currentTask] = "RUN"
      BY <1>1, <1>2 DEF sys_kill, InProgram, Parts
    <3> QED
      BY <1>1, <3>1 DEF Parts, GoodTable, Live
  <2>6. WorkerKilled => WorkerKilled'
    BY <2>3 DEF WorkerKilled, Slots
  <2> QED
    BY <1>1, <2>3, <2>4, <2>5, <2>6
    DEF Parts, GoodTable, Linked, Busy, Resources, SelectorsPrivate, Alive, Live, ForksIn,
        Calm, Awake, NoPanic
<1>3. CASE ~sys_kill
  <2>1. Parts' /\ Same
    BY <1>1, <1>3, StepKeepsParts
  <2> QED
    BY <1>1, <2>1 DEF Same, Awake, NoPanic, WorkerKilled
<1> QED
  BY <1>2, <1>3

\* SchedInv holds in every reachable state, for every size of the process
\* table, the task queue and the selector map that SchedAssumption allows, and
\* whatever the programs do: they may kill anyone, the worker with the rest.
THEOREM SchedInvariant == Spec => []SchedInv
<1>1. Init => SchedInv
  BY InitInv, InvParts DEF NoPanic
<1> QED
  BY <1>1, NextKeepsInv, PTL DEF Spec

\* The type invariant of the process core.
THEOREM SchedTypes == Spec => []TypeOK
<1>1. SchedInv => TypeOK
  BY DEF SchedInv
<1> QED
  BY <1>1, SchedInvariant, PTL

\* addKernelTask never has to drop a task, so a process parked in KWORKER is
\* never forgotten by the worker.
THEOREM NobodyForgotten == Spec => []ParkedHasTask
<1>1. SchedInv => ParkedHasTask
  BY DEF SchedInv
<1> QED
  BY <1>1, SchedInvariant, PTL

\* No task acts on a process other than the one that was parked for it.
THEOREM NoStaleTask == Spec => []TaskHasParked
<1>1. SchedInv => TaskHasParked
  BY DEF SchedInv
<1> QED
  BY <1>1, SchedInvariant, PTL

\* resched() panics only after a program has sent SIGKILL to pid 0: until then
\* its scan always finds a process to run, the worker if nothing else.
THEOREM SchedulerFindsWork == Spec => []NoPanic
<1>1. SchedInv => NoPanic
  BY DEF SchedInv
<1> QED
  BY <1>1, SchedInvariant, PTL

\* No handler and no scheduling decision leaves the CPU in a process that is
\* parked, dead or half built.
THEOREM CpuInRunningProcess == Spec => []CurrentIsRunning
<1>1. SchedInv => CurrentIsRunning
  BY DEF SchedInv
<1> QED
  BY <1>1, SchedInvariant, PTL

\* No two processes share a pid.
THEOREM PidsAreUnique == Spec => []PidsUnique
<1>1. SchedInv => PidsUnique
  BY DEF SchedInv
<1> QED
  BY <1>1, SchedInvariant, PTL

\* No two processes that are not threads share an address space.
THEOREM AddressSpacesPrivate == Spec => []SelectorsPrivate
<1>1. SchedInv => SelectorsPrivate
  BY DEF SchedInv
<1> QED
  BY <1>1, SchedInvariant, PTL

\* Handlers and resched() never revive a zombie nor reuse a slot in use.
LEMMA NextKeepsDead == SchedInv /\ [Next]_vars => [DeadStep]_vars
<1> SUFFICES ASSUME SchedInv, Next PROVE DeadStep
  BY DEF vars
<1>1. /\ GoodTable(state) /\ Linked(state, ktq) /\ ktq \in [Tasks -> TaskRecords]
      /\ sigs \in [Slots -> SUBSET SignalSet] /\ currentTask \in Slots
      /\ halted = "no" => state[currentTask] = "RUN"
      /\ state \in [Slots -> States] /\ pid \in [Slots -> 0 .. MaxPid]
      /\ Parts
  BY InvParts DEF Parts, GoodTable
<1>2. ASSUME NEW st, NEW sg, NEW q, resched(st, sg, q), UNCHANGED pid,
             \A s \in Slots : st[s] = state[s] \/ (state[s] = "RUN" /\ st[s] = "KWORKER"),
             GoodTable(st)
      PROVE  DeadStep
  <2>1. \E n, killed :
             /\ state' = [s \in Slots |->
                          IF s \in killed THEN "KWORKER"
                          ELSE IF s = n /\ st[s] = "NEW" THEN "RUN" ELSE st[s]]
             /\ \A s \in killed : st[s] \in {"RUN", "NEW", "SLEEP", "BLOCKED"}
    <3>1. CASE ScanEnds(st, sg) = {}
      <4> DEFINE killed == KilledInVain(st, sg)
      <4>1. state' = [s \in Slots |-> IF s \in killed THEN "KWORKER" ELSE st[s]]
        BY <1>2, <3>1 DEF resched
      <4>2. \A s \in killed : st[s] \in {"RUN", "NEW", "SLEEP", "BLOCKED"}
        BY DEF KilledInVain, Runnable
      <4> HIDE DEF killed
      <4>3. state' = [s \in Slots |->
                        IF s \in killed THEN "KWORKER"
                        ELSE IF s = NoParent /\ st[s] = "NEW" THEN "RUN" ELSE st[s]]
        BY <4>1 DEF NoParent, Slots
      <4> QED
        BY <4>2, <4>3
    <3>2. CASE ScanEnds(st, sg) # {}
      <4> DEFINE n == CHOOSE s \in ScanEnds(st, sg) : \A t \in ScanEnds(st, sg) :
                     ScanPos(currentTask, s) <= ScanPos(currentTask, t)
                 killed == KilledBefore(st, sg, n)
      <4>1. state' = [s \in Slots |->
                          IF s \in killed THEN "KWORKER"
                          ELSE IF s = n /\ st[s] = "NEW" THEN "RUN" ELSE st[s]]
        BY <1>2, <3>2 DEF resched
      <4> HIDE DEF n
      <4>2. \A s \in killed : st[s] \in {"RUN", "NEW", "SLEEP", "BLOCKED"}
        BY DEF KilledBefore, Runnable
      <4> HIDE DEF killed
      <4> QED
        BY <4>1, <4>2
    <3> QED
      BY <3>1, <3>2
  <2> QED
    BY <1>2, <2>1 DEF DeadStep
<1>3. ASSUME NEW type, NEW target, NEW nohang, Park(type, target, nohang),
             halted = "no", currentTask # 0
      PROVE  DeadStep
  <2> DEFINE st == [state EXCEPT ![currentTask] = "KWORKER"]
  <2>1. \A s \in Slots : st[s] = state[s] \/ (state[s] = "RUN" /\ st[s] = "KWORKER")
    BY <1>1, <1>3
  <2>2. GoodTable(st)
    BY <1>1, <1>3, <2>1 DEF GoodTable, Live, States
  <2>3. resched(st, sigs, addKernelTask(ktq, Task(type, pid[currentTask], target, nohang)))
        /\ UNCHANGED pid
    BY <1>3 DEF Park
  <2> HIDE DEF st
  <2> QED
    BY <1>2, <2>1, <2>2, <2>3
<1>4. CASE timer_interrupt \/ sys_yield \/ decoder_interrupt
  BY <1>1, <1>2, <1>4 DEF timer_interrupt, sys_yield, decoder_interrupt
<1>5. CASE sys_fork \/ sys_clone \/ sys_execve \/ sys_waitpid \/ sys_exit
  BY <1>3, <1>5
  DEF sys_fork, sys_clone, sys_execve, sys_waitpid, sys_exit, InProgram
<1>6. CASE UNCHANGED <<state, pid>>
  BY <1>6 DEF DeadStep
<1>7. CASE kernel_worker
  <2> DEFINE i == wpos
             p == findProcByPid(ktq[i].caller)
  <2>1. i \in Tasks
    BY <1>7 DEF kernel_worker
  <2>2. TaskStays \/ NullProcess => UNCHANGED <<state, pid>>
    BY DEF TaskStays, NullProcess, procVars
  <2> HIDE DEF i
  <2>3. ASSUME ~CallerGone(i), ktq[i].type # "NONE"
        PROVE  p \in Slots /\ state[p] \in {"RUN", "KWORKER", "CONSTRUCT"}
    <3>1. state[0] = "RUN"
      BY <1>1, <1>7 DEF kernel_worker
    <3> QED
      BY <1>1, <2>1, <2>3, <3>1, TaskCaller
  <2>4. CASE (do_kernel_task_fork(i) \/ do_kernel_task_clone(i))
             /\ ~CallerGone(i) /\ FreeProcs # {}
    <3> DEFINE n == get_free_proc
    <3>1. n \in Slots /\ state[n] = "NONE"
      <4>1. FreeProcs \in SUBSET Nat
        BY DEF FreeProcs, Slots
      <4> QED
        BY <2>4, <4>1, LowestIsLeast DEF get_free_proc, FreeProcs
    <3>2. /\ pid' = [pid EXCEPT ![n] = sched_genPid]
          /\ \E x \in {"NEW", "CONSTRUCT", "RUN"} :
               state' = [state EXCEPT ![p] = "RUN", ![n] = x]
          /\ ktq[i].type # "NONE"
      BY <2>4 DEF do_kernel_task_fork, do_kernel_task_clone, do_fork
    <3> HIDE DEF p, n
    <3> QED
      BY <1>1, <2>3, <2>4, <3>1, <3>2 DEF DeadStep
  <2>5. CASE (do_kernel_task_fork(i) \/ do_kernel_task_clone(i))
             /\ (CallerGone(i) \/ FreeProcs = {})
    BY <1>6, <2>2, <2>5 DEF do_kernel_task_fork, do_kernel_task_clone
  <2>6. CASE do_kernel_task_execve(i)
    <3>1. CASE CallerGone(i)
      BY <1>6, <2>2, <2>6, <3>1 DEF do_kernel_task_execve
    <3>2. CASE ~CallerGone(i)
      BY <1>1, <2>3, <2>6, <3>2 DEF do_kernel_task_execve, DeadStep
    <3> QED
      BY <3>1, <3>2
  <2>7. CASE do_kernel_task_exit(i)
    <3>1. ~CallerGone(i) /\ ktq[i].type = "EXIT"
      BY <1>1, <2>1, <2>7, ExitFindsCaller DEF do_kernel_task_exit
    <3> QED
      BY <1>1, <2>3, <2>7, <3>1 DEF do_kernel_task_exit, DeadStep
  <2>8. CASE do_kernel_task_waitpid(i)
    <3>1. CASE CallerGone(i)
      BY <1>6, <2>2, <2>8, <3>1 DEF do_kernel_task_waitpid
    <3>2. CASE ~CallerGone(i)
      <4> DEFINE C == WaitCandidates(i, p)
                 c == Lowest(C)
                 dead == C # {} /\ state[c] = "ZOMBIE"
      <4>1. \/ UNCHANGED <<state, pid>>
            \/ state' = [state EXCEPT ![p] = "RUN"] /\ UNCHANGED pid
            \/ dead /\ state' = [state EXCEPT ![c] = "NONE", ![p] = "RUN"] /\ UNCHANGED pid
        BY <2>2, <2>8, <3>2 DEF do_kernel_task_waitpid
      <4>2. p \in Slots /\ state[p] \in {"RUN", "KWORKER", "CONSTRUCT"}
        BY <2>3, <2>8, <3>2 DEF do_kernel_task_waitpid
      <4> HIDE DEF dead, c, p
      <4>3. dead => state[c] = "ZOMBIE"
        BY DEF dead
      <4> QED
        BY <1>1, <4>1, <4>2, <4>3 DEF DeadStep
    <3> QED
      BY <3>1, <3>2
  <2>9. CASE TaskIdle(i)
    BY <1>6, <2>2, <2>9 DEF TaskIdle
  <2> QED
    BY <1>7, <2>4, <2>5, <2>6, <2>7, <2>8, <2>9 DEF kernel_worker, i
<1> QED
  BY <1>4, <1>5, <1>6, <1>7 DEF Next, sys_kill, processWaiting, panic, procVars, vars

\* A zombie is never scheduled, signalled or exited back to life, and no slot
\* in use is handed to a new process.
THEOREM DeadProcessesStayDead == Spec => DeadStaysDead
BY SchedInvariant, NextKeepsDead, PTL DEF Spec, DeadStaysDead

-----------------------------------------------------------------------------
(* The terminals: a blocked process and its entry in the wait queue        *)

USE TtyAssumption DEF Entries

EntryRecords == [pid : 1 .. MaxPid, trigger : Ttys, n : ReadSizes]
Queues == [Entries -> EntryRecords \cup {NoEntry}]
Buffers == [Ttys -> 0 .. UART_BUFFER_SIZE]

\* WaitersBlocked of a table st and a queue q that a pass of the worker has
\* come to.
Waiters(st, q) ==
  /\ \A i \in Entries : Waiting(q, i) =>
       \E s \in Slots : pid[s] = q[i].pid /\ st[s] = "BLOCKED"
  /\ \A s \in Slots : st[s] = "BLOCKED" => \E i \in Entries : q[i].pid = pid[s]
  /\ \A i, j \in Entries : Waiting(q, i) /\ q[i].pid = q[j].pid => i = j

\* Entries belong to different processes, none to the worker: there is always
\* room for one more.
LEMMA RoomToWait ==
  ASSUME NEW st, NEW q, Waiters(st, q), st[0] # "BLOCKED"
  PROVE  FreeEntries(q) # {}
<1> DEFINE f == [i \in Entries |-> CHOOSE s \in Slots : pid[s] = q[i].pid /\ st[s] = "BLOCKED"]
<1> SUFFICES ASSUME FreeEntries(q) = {} PROVE FALSE
  OBVIOUS
<1>1. \A i \in Entries : Waiting(q, i)
  BY DEF FreeEntries
<1>2. \A i \in Entries : f[i] \in Slots /\ pid[f[i]] = q[i].pid /\ st[f[i]] = "BLOCKED"
  BY <1>1 DEF Waiters
<1>3. \A i \in Entries : f[i] \in Slots \ {0}
  BY <1>2
<1>4. \A i, j \in Entries : f[i] = f[j] => i = j
  <2> HIDE DEF f
  <2> QED
    BY <1>1, <1>2 DEF Waiters
<1>5. f \in Injection(Entries, Slots \ {0})
  <2>1. f \in [Entries -> Slots \ {0}]
    BY <1>3
  <2> HIDE DEF f
  <2> QED
    BY <1>4, <2>1 DEF Injection, IsInjective
<1>6. IsFiniteSet(Slots \ {0}) /\ Cardinality(Slots \ {0}) = MAXPROC - 1
  <2>1. 0 \in Slots
    BY DEF Slots
  <2> QED
    BY <2>1, SlotsFinite, FS_RemoveElement
<1>7. Cardinality(Entries) = WAITQ_LENGTH
  <2>1. 0 \in Int /\ WAITQ_LENGTH - 1 \in Int /\ ~(0 > WAITQ_LENGTH - 1)
    OBVIOUS
  <2>2. Cardinality(0 .. WAITQ_LENGTH - 1)
          = IF 0 > WAITQ_LENGTH - 1 THEN 0 ELSE (WAITQ_LENGTH - 1) - 0 + 1
    BY <2>1, FS_Interval
  <2> QED
    BY <2>1, <2>2
<1>8. Cardinality(Entries) <= Cardinality(Slots \ {0})
  BY <1>5, <1>6, FS_Injection
<1> QED
  BY <1>6, <1>7, <1>8

\* A waiting entry is a record of its fields; a free one is of no process.
LEMMA EntryIs ==
  ASSUME NEW q \in Queues, NEW i \in Entries
  PROVE  /\ Waiting(q, i) => /\ q[i] \in EntryRecords /\ q[i].pid \in 1 .. MaxPid
                             /\ q[i].trigger \in Ttys /\ q[i].n \in ReadSizes
         /\ ~Waiting(q, i) => q[i].pid = 0
<1>1. q[i] \in EntryRecords \cup {NoEntry}
  BY DEF Queues
<1>2. CASE ~Waiting(q, i)
  BY <1>2 DEF Waiting, NoEntry
<1>3. CASE Waiting(q, i)
  <2>1. q[i] \in EntryRecords
    BY <1>1, <1>3 DEF Waiting
  <2> QED
    BY <1>3, <2>1 DEF EntryRecords
<1> QED
  BY <1>2, <1>3

\* A process blocks and takes a free entry.
LEMMA WaiterAdded ==
  ASSUME GoodTable(state), NEW q \in Queues, Waiters(state, q),
         NEW c \in Slots \ {0}, state[c] = "RUN",
         NEW j \in Entries, ~Waiting(q, j), NEW x \in EntryRecords, x.pid = pid[c]
  PROVE  /\ [q EXCEPT ![j] = x] \in Queues
         /\ Waiters([state EXCEPT ![c] = "BLOCKED"], [q EXCEPT ![j] = x])
<1> DEFINE st == [state EXCEPT ![c] = "BLOCKED"]
           v == [q EXCEPT ![j] = x]
<1>1. /\ \A s \in Slots \ {c} : st[s] = state[s]
      /\ st[c] = "BLOCKED"
  BY DEF GoodTable
<1>2. /\ \A i \in Entries \ {j} : v[i] = q[i]
      /\ v[j] = x
  BY DEF Queues
<1>3. v \in Queues
  BY DEF Queues
<1>4. pid[c] \in Nat /\ pid[c] # 0 /\ \A s \in Slots : state[s] # "NONE" /\ pid[s] = pid[c] => s = c
  BY DEF GoodTable, Live
<1>5. \A i \in Entries : q[i].pid # pid[c]
  <2> SUFFICES ASSUME NEW i \in Entries, q[i].pid = pid[c] PROVE FALSE
    OBVIOUS
  <2>1. Waiting(q, i)
    BY <1>4, EntryIs
  <2>2. PICK s \in Slots : pid[s] = q[i].pid /\ state[s] = "BLOCKED"
    BY <2>1 DEF Waiters
  <2> QED
    BY <1>4, <2>2
<1> HIDE DEF st, v
<1>6. ASSUME NEW i \in Entries, Waiting(v, i)
      PROVE  \E s \in Slots : pid[s] = v[i].pid /\ st[s] = "BLOCKED"
  <2>1. CASE i = j
    BY <1>1, <1>2, <2>1
  <2>2. CASE i # j
    <3>1. Waiting(q, i) /\ v[i] = q[i]
      BY <1>2, <1>6, <2>2 DEF Waiting
    <3>2. PICK s \in Slots : pid[s] = q[i].pid /\ state[s] = "BLOCKED"
      BY <3>1 DEF Waiters
    <3> QED
      BY <1>1, <3>1, <3>2
  <2> QED
    BY <2>1, <2>2
<1>7. ASSUME NEW s \in Slots, st[s] = "BLOCKED"
      PROVE  \E i \in Entries : v[i].pid = pid[s]
  <2>1. CASE s = c
    BY <1>2, <2>1
  <2>2. CASE s # c
    <3>1. state[s] = "BLOCKED"
      BY <1>1, <1>7, <2>2
    <3>2. PICK i \in Entries : q[i].pid = pid[s]
      BY <3>1 DEF Waiters
    <3>3. i # j
      <4>1. pid[s] # 0
        BY <3>1 DEF GoodTable, Live
      <4> QED
        BY <3>2, <4>1, EntryIs
    <3> QED
      BY <1>2, <3>2, <3>3
  <2> QED
    BY <2>1, <2>2
<1>8. ASSUME NEW i \in Entries, NEW k \in Entries, Waiting(v, i), v[i].pid = v[k].pid
      PROVE  i = k
  <2>1. CASE i = j
    BY <1>2, <1>5, <1>8, <2>1
  <2>2. CASE i # j /\ k = j
    BY <1>2, <1>5, <1>8, <2>2
  <2>3. CASE i # j /\ k # j
    <3>1. Waiting(q, i) /\ q[i].pid = q[k].pid
      BY <1>2, <1>8, <2>3 DEF Waiting
    <3> QED
      BY <3>1 DEF Waiters
  <2> QED
    BY <2>1, <2>2, <2>3
<1>9. Waiters(st, v)
  BY <1>6, <1>7, <1>8 DEF Waiters
<1> QED
  BY <1>3, <1>9 DEF st, v

-----------------------------------------------------------------------------
(* The terminals: one visit of the worker to an entry                      *)

\* What a pass has come to: the kernel's fields, and nobody changed but readers
\* that were blocked and are ready.
Zs == [st : [Slots -> States], wq : Queues, uart : Buffers,
       e : 0 .. WAITQ_LENGTH, panic : BOOLEAN]
Derives(st) ==
  \A s \in Slots : st[s] = state[s] \/ (state[s] = "BLOCKED" /\ st[s] = "RUN")
Good(z) == z \in Zs /\ ~z.panic /\ Waiters(z.st, z.wq) /\ Derives(z.st)

Zed(st, wq, buffers, e, panicked) ==
  [st |-> st, wq |-> wq, uart |-> buffers, e |-> e, panic |-> panicked]

LEMMA ZFields ==
  ASSUME NEW z \in Zs
  PROVE  /\ z = Zed(z.st, z.wq, z.uart, z.e, z.panic)
         /\ z.st \in [Slots -> States] /\ z.wq \in Queues /\ z.uart \in Buffers
         /\ z.e \in 0 .. WAITQ_LENGTH /\ z.panic \in BOOLEAN
BY DEF Zs, Zed

LEMMA ZedIs ==
  ASSUME NEW st, NEW wq, NEW buffers, NEW e, NEW panicked, NEW y,
         y = Zed(st, wq, buffers, e, panicked)
  PROVE  /\ y.st = st /\ y.wq = wq /\ y.uart = buffers /\ y.e = e /\ y.panic = panicked
         /\ st \in [Slots -> States] /\ wq \in Queues /\ buffers \in Buffers
            /\ e \in 0 .. WAITQ_LENGTH /\ panicked \in BOOLEAN
              => y \in Zs
BY DEF Zed, Zs

\* A kernel with some fields replaced.
LEMMA ZedExcept ==
  ASSUME NEW z \in Zs, NEW t, NEW v, NEW b, NEW n
  PROVE  /\ [z EXCEPT !.st = t, !.uart = b] = Zed(t, z.wq, b, z.e, z.panic)
         /\ [z EXCEPT !.st = t, !.wq = v] = Zed(t, v, z.uart, z.e, z.panic)
         /\ [z EXCEPT !.e = n] = Zed(z.st, z.wq, z.uart, n, z.panic)
<1>1. /\ z = [st |-> z.st, wq |-> z.wq, uart |-> z.uart, e |-> z.e, panic |-> z.panic]
      /\ DOMAIN z = {"st", "wq", "uart", "e", "panic"}
  BY DEF Zs
<1> DEFINE y == [z EXCEPT !.st = t]
<1>2. y = [st |-> t, wq |-> z.wq, uart |-> z.uart, e |-> z.e, panic |-> z.panic]
  BY <1>1
<1>3. /\ [z EXCEPT !.st = t, !.uart = b] = [y EXCEPT !.uart = b]
      /\ [z EXCEPT !.st = t, !.wq = v] = [y EXCEPT !.wq = v]
  OBVIOUS
<1> HIDE DEF y
<1>4. [z EXCEPT !.st = t, !.uart = b] = Zed(t, z.wq, b, z.e, z.panic)
  <2>1. [y EXCEPT !.uart = b] = Zed(t, z.wq, b, z.e, z.panic)
    BY <1>2 DEF Zed
  <2> QED
    BY <1>3, <2>1
<1>5. [z EXCEPT !.st = t, !.wq = v] = Zed(t, v, z.uart, z.e, z.panic)
  <2>1. [y EXCEPT !.wq = v] = Zed(t, v, z.uart, z.e, z.panic)
    BY <1>2 DEF Zed
  <2> QED
    BY <1>3, <2>1
<1>6. [z EXCEPT !.e = n] = Zed(z.st, z.wq, z.uart, n, z.panic)
  BY <1>1 DEF Zed
<1> QED
  BY <1>4, <1>5, <1>6

\* The reader of an entry is found, and still blocked.
LEMMA WaiterFound ==
  ASSUME GoodTable(state), NEW z, Good(z), NEW i \in Entries, Waiting(z.wq, i),
         NEW p, p = findProcByPid(z.wq[i].pid)
  PROVE  /\ Found(z.wq[i].pid) # {}
         /\ p \in Slots \ {0} /\ pid[p] = z.wq[i].pid /\ z.st[p] = "BLOCKED" /\ state[p] = "BLOCKED"
<1>1. PICK s \in Slots : pid[s] = z.wq[i].pid /\ z.st[s] = "BLOCKED"
  BY DEF Good, Waiters
<1>2. state[s] = "BLOCKED"
  BY <1>1 DEF Good, Derives
<1>3. s \in Found(z.wq[i].pid)
  BY <1>1, <1>2 DEF Found, Live
<1>4. Found(z.wq[i].pid) \in SUBSET Nat
  BY DEF Found, Slots
<1>5. p \in Found(z.wq[i].pid)
  BY <1>3, <1>4, LowestIsLeast DEF findProcByPid
<1>6. p \in Slots /\ pid[p] = pid[s] /\ state[p] # "NONE" /\ state[s] # "NONE"
  BY <1>1, <1>2, <1>5 DEF Found, Live
<1>7. p = s
  BY <1>6 DEF GoodTable, Live
<1> QED
  BY <1>1, <1>2, <1>3, <1>7 DEF GoodTable

\* The worker passes entry i over.
Passes(z, y, what, i) ==
  y = z /\ (i < z.e \/ ~Waiting(z.wq, i) \/ z.wq[i].trigger # what)

\* The reader of entry i gets what there is and is ready.
Reads(z, y, i) ==
  /\ Waiting(z.wq, i) /\ z.uart[z.wq[i].trigger] # 0
  /\ y.uart \in Buffers
  /\ \E p \in Slots \ {0} :
       /\ pid[p] = z.wq[i].pid /\ z.st[p] = "BLOCKED"
       /\ y = Zed([z.st EXCEPT ![p] = "RUN"], [z.wq EXCEPT ![i] = NoEntry],
                  y.uart, z.e, FALSE)

\* The reader of entry i finds nothing and waits in another one.
Moves(z, y, i) ==
  /\ Waiting(z.wq, i) /\ z.uart[z.wq[i].trigger] = 0
  /\ \E j \in Entries :
       /\ ~Waiting(z.wq, j)
       /\ y = Zed(z.st, [[z.wq EXCEPT ![j] = z.wq[i]] EXCEPT ![i] = NoEntry],
                  z.uart, z.e, FALSE)

LEMMA VisitIs ==
  ASSUME GoodTable(state), NEW z, Good(z), NEW what, NEW i \in Entries,
         NEW y, y = visit(z, what, i)
  PROVE  Passes(z, y, what, i) \/ Reads(z, y, i) \/ Moves(z, y, i)
<1>1. z \in Zs /\ ~z.panic
  BY DEF Good
<1>2. CASE i < z.e \/ ~Waiting(z.wq, i) \/ z.wq[i].trigger # what
  BY <1>2 DEF visit, Passes
<1>3. CASE ~(i < z.e) /\ Waiting(z.wq, i) /\ z.wq[i].trigger = what
  <2> DEFINE p == findProcByPid(z.wq[i].pid)
             m == z.wq[i].trigger
  <2>1. /\ Found(z.wq[i].pid) # {}
        /\ p \in Slots \ {0} /\ pid[p] = z.wq[i].pid /\ z.st[p] = "BLOCKED"
    BY <1>3, WaiterFound
  <2>2. m \in Ttys /\ z.wq[i].n \in ReadSizes
    BY <1>1, <1>3, ZFields, EntryIs
  <2>3. PICK x : x = processWaitQEntry(z, i)
    OBVIOUS
  <2>4. y = [x EXCEPT !.wq[i] = NoEntry]
    BY <1>1, <1>3, <2>3 DEF visit
  <2>5. CASE z.uart[m] # 0
    <3> DEFINE b == [z.uart EXCEPT ![m] = tty_read(z.uart[m], z.wq[i].n)]
               t == [z.st EXCEPT ![p] = "RUN"]
    <3>1. x = [z EXCEPT !.st[p] = "RUN", !.uart[m] = tty_read(@, z.wq[i].n)]
      BY <2>1, <2>3, <2>5 DEF processWaitQEntry
    <3>2. x = [z EXCEPT !.st = t, !.uart = b]
      BY <3>1, Zenon
    <3>3. b \in Buffers
      <4>1. z.uart \in Buffers
        BY <1>1, ZFields
      <4>2. z.uart[m] \in 0 .. UART_BUFFER_SIZE
        BY <2>2, <4>1 DEF Buffers
      <4>3. z.wq[i].n \in Nat
        BY <2>2
      <4>4. tty_read(z.uart[m], z.wq[i].n) \in 0 .. UART_BUFFER_SIZE
        BY <4>2, <4>3 DEF tty_read, FewerOf
      <4> QED
        BY <4>1, <4>4 DEF Buffers
    <3> HIDE DEF b, t
    <3>4. x = Zed(t, z.wq, b, z.e, z.panic)
      <4>1. [z EXCEPT !.st = t, !.uart = b] = Zed(t, z.wq, b, z.e, z.panic)
        BY <1>1, ZedExcept
      <4> QED
        BY <3>2, <4>1, Zenon
    <3>5. y = Zed(t, [z.wq EXCEPT ![i] = NoEntry], b, z.e, z.panic)
      BY <2>4, <3>4 DEF Zed
    <3>6. y.uart = b
      BY <3>5, ZedIs
    <3>7. z.panic = FALSE
      BY <1>1, ZFields
    <3> HIDE DEF p
    <3> QED
      BY <1>3, <2>1, <2>5, <3>3, <3>5, <3>6, <3>7 DEF Reads, t
  <2>6. CASE z.uart[m] = 0
    <3> DEFINE j == Lowest(FreeEntries(z.wq))
               v == [z.wq EXCEPT ![j] = z.wq[i]]
    <3>0. z.st \in [Slots -> States] /\ z.wq \in Queues /\ z.panic = FALSE
      BY <1>1, ZFields
    <3>1. FreeEntries(z.wq) # {}
      <4>1. 0 \in Slots /\ state[0] # "BLOCKED"
        BY DEF GoodTable, Slots
      <4>2. z.st[0] # "BLOCKED" /\ Waiters(z.st, z.wq)
        BY <4>1 DEF Good, Derives
      <4> QED
        BY <4>2, RoomToWait
    <3>2. j \in Entries /\ ~Waiting(z.wq, j)
      <4>1. FreeEntries(z.wq) \in SUBSET Nat
        BY DEF FreeEntries
      <4> QED
        BY <3>1, <4>1, LowestIsLeast DEF FreeEntries
    <3>3. x = [z EXCEPT !.st[p] = "BLOCKED", !.wq = waitqAddEntry(@, z.wq[i])]
      BY <2>1, <2>3, <2>6, <3>1 DEF processWaitQEntry
    <3>4. [z.st EXCEPT ![p] = "BLOCKED"] = z.st
      <4> HIDE DEF p
      <4> QED
        BY <2>1, <3>0
    <3>5. waitqAddEntry(z.wq, z.wq[i]) = v
      BY DEF waitqAddEntry
    <3>6. x = [z EXCEPT !.st = z.st, !.wq = v]
      BY <3>3, <3>4, <3>5, Zenon
    <3> HIDE DEF v, j
    <3>7. x = Zed(z.st, v, z.uart, z.e, z.panic)
      <4>1. [z EXCEPT !.st = z.st, !.wq = v] = Zed(z.st, v, z.uart, z.e, z.panic)
        BY <1>1, ZedExcept
      <4> QED
        BY <3>6, <4>1, Zenon
    <3>8. y = Zed(z.st, [v EXCEPT ![i] = NoEntry], z.uart, z.e, FALSE)
      BY <2>4, <3>0, <3>7 DEF Zed
    <3> QED
      BY <1>3, <2>6, <3>2, <3>8 DEF Moves, v
  <2> QED
    BY <2>5, <2>6
<1> QED
  BY <1>2, <1>3

\* A reader that is served leaves with its entry.
LEMMA WaiterServed ==
  ASSUME GoodTable(state), NEW st \in [Slots -> States], NEW q \in Queues,
         Waiters(st, q), Derives(st),
         NEW i \in Entries, NEW p \in Slots, pid[p] = q[i].pid, st[p] = "BLOCKED"
  PROVE  Waiters([st EXCEPT ![p] = "RUN"], [q EXCEPT ![i] = NoEntry])
<1> DEFINE t == [st EXCEPT ![p] = "RUN"]
           v == [q EXCEPT ![i] = NoEntry]
<1>1. /\ \A s \in Slots \ {p} : t[s] = st[s]
      /\ t[p] = "RUN"
  OBVIOUS
<1>2. /\ \A k \in Entries \ {i} : v[k] = q[k]
      /\ v[i] = NoEntry /\ v[i].pid = 0
  BY DEF Queues, NoEntry
<1>3. /\ \A s \in Slots : st[s] = "BLOCKED" => state[s] = "BLOCKED"
      /\ \A s, r \in Slots : state[s] = "BLOCKED" /\ state[r] = "BLOCKED" /\ pid[s] = pid[r] => s = r
      /\ \A s \in Slots : state[s] = "BLOCKED" => pid[s] # 0
  BY DEF Derives, GoodTable, Live
<1> HIDE DEF t, v
<1>4. ASSUME NEW k \in Entries, Waiting(v, k)
      PROVE  \E s \in Slots : pid[s] = v[k].pid /\ t[s] = "BLOCKED"
  <2>1. k # i /\ v[k] = q[k] /\ Waiting(q, k)
    BY <1>2, <1>4 DEF Waiting
  <2>2. PICK s \in Slots : pid[s] = q[k].pid /\ st[s] = "BLOCKED"
    BY <2>1 DEF Waiters
  <2>3. s # p
    BY <2>1, <2>2 DEF Waiters
  <2> QED
    BY <1>1, <2>1, <2>2, <2>3
<1>5. ASSUME NEW s \in Slots, t[s] = "BLOCKED"
      PROVE  \E k \in Entries : v[k].pid = pid[s]
  <2>1. s # p /\ st[s] = "BLOCKED"
    BY <1>1, <1>5
  <2>2. PICK k \in Entries : q[k].pid = pid[s]
    BY <2>1 DEF Waiters
  <2>3. k # i
    BY <1>3, <2>1, <2>2
  <2> QED
    BY <1>2, <2>2, <2>3
<1>6. ASSUME NEW k \in Entries, NEW j \in Entries, Waiting(v, k), v[k].pid = v[j].pid
      PROVE  k = j
  <2>1. k # i /\ v[k] = q[k] /\ Waiting(q, k)
    BY <1>2, <1>6 DEF Waiting
  <2>2. q[k].pid # 0
    BY <2>1, EntryIs
  <2>3. j # i /\ q[j] = v[j]
    BY <1>2, <1>6, <2>1, <2>2
  <2> QED
    BY <1>6, <2>1, <2>3 DEF Waiters
<1>7. Waiters(t, v)
  BY <1>4, <1>5, <1>6 DEF Waiters
<1> QED
  BY <1>7 DEF t, v

\* A reader that waits again only changes its place.
LEMMA WaiterMoved ==
  ASSUME GoodTable(state), NEW st \in [Slots -> States], NEW q \in Queues,
         Waiters(st, q), Derives(st),
         NEW i \in Entries, Waiting(q, i), NEW j \in Entries, ~Waiting(q, j)
  PROVE  Waiters(st, [[q EXCEPT ![j] = q[i]] EXCEPT ![i] = NoEntry])
<1> DEFINE v == [[q EXCEPT ![j] = q[i]] EXCEPT ![i] = NoEntry]
<1>1. i # j
  OBVIOUS
<1>2. /\ \A k \in Entries \ {i, j} : v[k] = q[k]
      /\ v[j] = q[i] /\ v[i] = NoEntry /\ v[i].pid = 0 /\ q[j].pid = 0
  BY <1>1, EntryIs DEF Queues, NoEntry
<1>3. \A s \in Slots : st[s] = "BLOCKED" => pid[s] # 0
  BY DEF Derives, GoodTable, Live
<1> HIDE DEF v
<1> DEFINE was(k) == IF k = j THEN i ELSE k
<1>4. \A k \in Entries : Waiting(v, k) => was(k) \in Entries \ {j} /\ Waiting(q, was(k)) /\ v[k] = q[was(k)] /\ k # i
  BY <1>1, <1>2 DEF Waiting
<1>5. ASSUME NEW k \in Entries, Waiting(v, k)
      PROVE  \E s \in Slots : pid[s] = v[k].pid /\ st[s] = "BLOCKED"
  BY <1>4, <1>5 DEF Waiters
<1>6. ASSUME NEW s \in Slots, st[s] = "BLOCKED"
      PROVE  \E k \in Entries : v[k].pid = pid[s]
  <2>1. PICK k \in Entries : q[k].pid = pid[s]
    BY <1>6 DEF Waiters
  <2>2. k # j
    BY <1>2, <1>3, <1>6, <2>1
  <2> QED
    BY <1>2, <2>1, <2>2
<1>7. ASSUME NEW k \in Entries, NEW l \in Entries, Waiting(v, k), v[k].pid = v[l].pid
      PROVE  k = l
  <2>1. v[k].pid # 0
    BY <1>4, <1>7, EntryIs
  <2>2. l # i
    BY <1>2, <1>7, <2>1
  <2>3. v[l] = q[was(l)] /\ was(l) \in Entries
    BY <1>2, <2>2
  <2>4. was(k) = was(l)
    BY <1>4, <1>7, <2>3 DEF Waiters
  <2> QED
    BY <1>4, <1>7, <2>2, <2>4
<1>8. Waiters(st, v)
  BY <1>5, <1>6, <1>7 DEF Waiters
<1> QED
  BY <1>8 DEF v

\* So a visit leaves what it found: entries and blocked readers in step.
LEMMA VisitKeepsGood ==
  ASSUME GoodTable(state), NEW z, Good(z), NEW what, NEW i \in Entries
  PROVE  Good(visit(z, what, i))
<1> DEFINE y == visit(z, what, i)
<1> SUFFICES Good(y)
  OBVIOUS
<1>1. z \in Zs /\ ~z.panic /\ Waiters(z.st, z.wq) /\ Derives(z.st)
  BY DEF Good
<1>2. z.st \in [Slots -> States] /\ z.wq \in Queues /\ z.uart \in Buffers /\ z.e \in 0 .. WAITQ_LENGTH
  BY <1>1, ZFields
<1>3. Passes(z, y, what, i) \/ Reads(z, y, i) \/ Moves(z, y, i)
  BY VisitIs
<1> HIDE DEF y
<1>4. CASE Passes(z, y, what, i)
  BY <1>4 DEF Passes
<1>5. CASE Reads(z, y, i)
  <2>1. PICK p \in Slots \ {0} :
             /\ pid[p] = z.wq[i].pid /\ z.st[p] = "BLOCKED"
             /\ y = Zed([z.st EXCEPT ![p] = "RUN"], [z.wq EXCEPT ![i] = NoEntry],
                        y.uart, z.e, FALSE)
    BY <1>5 DEF Reads
  <2> DEFINE t == [z.st EXCEPT ![p] = "RUN"]
             v == [z.wq EXCEPT ![i] = NoEntry]
             b == y.uart
             n == z.e
             calm == FALSE
  <2>2. t \in [Slots -> States] /\ v \in Queues /\ b \in Buffers /\ FALSE \in BOOLEAN
    BY <1>2, <1>5 DEF States, Queues, Reads
  <2>3. Waiters(t, v)
    BY <1>1, <1>2, <2>1, WaiterServed
  <2>4. Derives(t)
    BY <1>1, <1>2, <2>1 DEF Derives
  <2>5. y = Zed(t, v, b, n, calm) /\ n \in 0 .. WAITQ_LENGTH /\ calm \in BOOLEAN /\ ~calm
    BY <1>2, <2>1
  <2> HIDE DEF t, v, b, n, calm
  <2>6. y.st = t /\ y.wq = v /\ y.panic = calm /\ y \in Zs
    BY <2>2, <2>5, ZedIs
  <2> QED
    BY <2>3, <2>4, <2>5, <2>6 DEF Good
<1>6. CASE Moves(z, y, i)
  <2>1. PICK j \in Entries :
             /\ ~Waiting(z.wq, j)
             /\ y = Zed(z.st, [[z.wq EXCEPT ![j] = z.wq[i]] EXCEPT ![i] = NoEntry],
                        z.uart, z.e, FALSE)
    BY <1>6 DEF Moves
  <2> DEFINE v == [[z.wq EXCEPT ![j] = z.wq[i]] EXCEPT ![i] = NoEntry]
             t == z.st
             b == z.uart
             n == z.e
             calm == FALSE
  <2>2. v \in Queues
    BY <1>2 DEF Queues
  <2>3. Waiters(z.st, v)
    <3>1. Waiting(z.wq, i)
      BY <1>6 DEF Moves
    <3> QED
      BY <1>1, <1>2, <2>1, <3>1, WaiterMoved
  <2>4. /\ y = Zed(t, v, b, n, calm)
        /\ t \in [Slots -> States] /\ b \in Buffers /\ n \in 0 .. WAITQ_LENGTH
        /\ calm \in BOOLEAN /\ ~calm /\ Waiters(t, v) /\ Derives(t)
    BY <1>1, <1>2, <2>1, <2>3
  <2> HIDE DEF v, t, b, n, calm
  <2>5. y.st = t /\ y.wq = v /\ y.panic = calm /\ y \in Zs
    BY <2>2, <2>4, ZedIs
  <2> QED
    BY <2>4, <2>5 DEF Good
<1> QED
  BY <1>3, <1>4, <1>5, <1>6

-----------------------------------------------------------------------------
(* The terminals: the pass of the worker                                   *)

\* The kernels after one more entry, and after one more notification.
Visited(S, what, i) == {visit(x, what, i) : x \in S}
Woken(S, what) == UNION {wake(z, what) : z \in S}

Begun == [st |-> state, wq |-> waitq, uart |-> uart, e |-> 0, panic |-> FALSE]

\* f is what wake computes for the first k entries.
Passing(f, z, what, k) ==
  f = [i \in 0 .. k |-> IF i = 0 THEN {z} ELSE Visited(f[i - 1], what, i - 1)]

\* f is what served computes for the first k notifications.
Serving(f, k) ==
  f = [i \in 0 .. k |-> IF i = 0 THEN {Begun} ELSE Woken(f[i - 1], pending[i])]

\* The equation that defines the inner loop has a solution, entry by entry.
LEMMA WakeIs ==
  ASSUME NEW z, NEW what
  PROVE  \E f : /\ f[0] = {z}
                /\ \A i \in 0 .. WAITQ_LENGTH - 1 : f[i + 1] = Visited(f[i], what, i)
                /\ wake(z, what) = {[y EXCEPT !.e = WAITQ_LENGTH] : y \in f[WAITQ_LENGTH]}
<1> DEFINE G == {k \in 0 .. WAITQ_LENGTH : \E f : Passing(f, z, what, k)}
<1>1. 0 \in G
  <2> DEFINE f == [i \in 0 .. 0 |-> {z}]
  <2>1. \A i \in 0 .. 0 : f[i] = IF i = 0 THEN {z} ELSE Visited(f[i - 1], what, i - 1)
    OBVIOUS
  <2>2. Passing(f, z, what, 0)
    BY <2>1 DEF Passing
  <2> HIDE DEF f
  <2> QED
    BY <2>2
<1>2. ASSUME NEW k \in 0 .. WAITQ_LENGTH - 1, k \in G PROVE k + 1 \in G
  <2>1. PICK f : Passing(f, z, what, k)
    BY <1>2
  <2>2. \A i \in 0 .. k : f[i] = IF i = 0 THEN {z} ELSE Visited(f[i - 1], what, i - 1)
    BY <2>1 DEF Passing
  <2> DEFINE g == [i \in 0 .. k + 1 |-> IF i = k + 1 THEN Visited(f[k], what, k) ELSE f[i]]
  <2>3. \A i \in 0 .. k + 1 : g[i] = IF i = 0 THEN {z} ELSE Visited(g[i - 1], what, i - 1)
    <3> SUFFICES ASSUME NEW i \in 0 .. k + 1
                 PROVE  g[i] = IF i = 0 THEN {z} ELSE Visited(g[i - 1], what, i - 1)
      OBVIOUS
    <3>1. CASE i = 0
      <4>1. 0 \in 0 .. k /\ i # k + 1
        BY <3>1
      <4> QED
        BY <2>2, <3>1, <4>1
    <3>2. CASE i # 0
      <4>1. i - 1 \in 0 .. k /\ i - 1 \in 0 .. k + 1 /\ i - 1 # k + 1
        BY <3>2
      <4>2. g[i - 1] = f[i - 1]
        BY <4>1
      <4>3. CASE i = k + 1
        <5>1. i - 1 = k
          BY <4>3
        <5> QED
          BY <3>2, <4>2, <4>3, <5>1
      <4>4. CASE i # k + 1
        <5>1. i \in 0 .. k
          BY <4>4
        <5>2. g[i] = f[i]
          BY <4>4
        <5>3. f[i] = Visited(f[i - 1], what, i - 1)
          BY <2>2, <3>2, <5>1
        <5> QED
          BY <3>2, <4>2, <5>2, <5>3
      <4> QED
        BY <4>3, <4>4
    <3> QED
      BY <3>1, <3>2
  <2>4. Passing(g, z, what, k + 1)
    BY <2>3 DEF Passing
  <2> HIDE DEF g
  <2> QED
    BY <2>4
<1> HIDE DEF G
<1>3. WAITQ_LENGTH \in G
  BY <1>1, <1>2, LoopEnds
<1>4. \E f : Passing(f, z, what, WAITQ_LENGTH)
  BY <1>3 DEF G
<1> DEFINE c == CHOOSE f : Passing(f, z, what, WAITQ_LENGTH)
<1>5. wake(z, what) = {[y EXCEPT !.e = WAITQ_LENGTH] : y \in c[WAITQ_LENGTH]}
  BY Zenon DEF wake, Passing, Visited
<1>6. Passing(c, z, what, WAITQ_LENGTH)
  BY <1>4
<1> HIDE DEF c
<1>7. \A i \in 0 .. WAITQ_LENGTH : c[i] = IF i = 0 THEN {z} ELSE Visited(c[i - 1], what, i - 1)
  BY <1>6 DEF Passing
<1>8. ASSUME NEW i \in 0 .. WAITQ_LENGTH - 1
      PROVE  c[i + 1] = Visited(c[i], what, i)
  <2>1. i + 1 \in 0 .. WAITQ_LENGTH /\ i + 1 # 0 /\ (i + 1) - 1 = i
    OBVIOUS
  <2> QED
    BY <1>7, <2>1
<1>9. c[0] = {z}
  BY <1>7
<1> QED
  BY <1>5, <1>8, <1>9

\* The same for the outer loop, notification by notification.
LEMMA ServedIs ==
  ASSUME pending \in Seq(Ttys)
  PROVE  /\ served[0] = {Begun}
         /\ \A k \in 0 .. Len(pending) - 1 : served[k + 1] = Woken(served[k], pending[k + 1])
<1> DEFINE N == Len(pending)
           G == {k \in 0 .. N : \E f : Serving(f, k)}
<1>0. N \in Nat
  OBVIOUS
<1> HIDE DEF N
<1>1. 0 \in G
  <2> DEFINE f == [i \in 0 .. 0 |-> {Begun}]
  <2>1. \A i \in 0 .. 0 : f[i] = IF i = 0 THEN {Begun} ELSE Woken(f[i - 1], pending[i])
    OBVIOUS
  <2>2. Serving(f, 0)
    BY <2>1 DEF Serving
  <2> HIDE DEF f
  <2> QED
    BY <1>0, <2>2
<1>2. ASSUME NEW k \in 0 .. N - 1, k \in G PROVE k + 1 \in G
  <2>0. k \in Nat /\ k + 1 \in 0 .. N
    BY <1>0
  <2>1. PICK f : Serving(f, k)
    BY <1>2
  <2>2. \A i \in 0 .. k : f[i] = IF i = 0 THEN {Begun} ELSE Woken(f[i - 1], pending[i])
    BY <2>1 DEF Serving
  <2> DEFINE g == [i \in 0 .. k + 1 |-> IF i = k + 1 THEN Woken(f[k], pending[k + 1]) ELSE f[i]]
  <2>3. \A i \in 0 .. k + 1 : g[i] = IF i = 0 THEN {Begun} ELSE Woken(g[i - 1], pending[i])
    <3> SUFFICES ASSUME NEW i \in 0 .. k + 1
                 PROVE  g[i] = IF i = 0 THEN {Begun} ELSE Woken(g[i - 1], pending[i])
      OBVIOUS
    <3>1. CASE i = 0
      <4>1. 0 \in 0 .. k /\ i # k + 1
        BY <2>0, <3>1
      <4> QED
        BY <2>2, <3>1, <4>1
    <3>2. CASE i # 0
      <4>1. i - 1 \in 0 .. k /\ i - 1 \in 0 .. k + 1 /\ i - 1 # k + 1
        BY <2>0, <3>2
      <4>2. g[i - 1] = f[i - 1]
        BY <4>1
      <4>3. CASE i = k + 1
        <5>1. i - 1 = k
          BY <2>0, <4>3
        <5> QED
          BY <3>2, <4>2, <4>3, <5>1
      <4>4. CASE i # k + 1
        <5>1. i \in 0 .. k
          BY <2>0, <4>4
        <5>2. g[i] = f[i]
          BY <4>4
        <5>3. f[i] = Woken(f[i - 1], pending[i])
          BY <2>2, <3>2, <5>1
        <5> QED
          BY <3>2, <4>2, <5>2, <5>3
      <4> QED
        BY <4>3, <4>4
    <3> QED
      BY <3>1, <3>2
  <2>4. Serving(g, k + 1)
    BY <2>3 DEF Serving
  <2> HIDE DEF g
  <2> QED
    BY <2>0, <2>4
<1> HIDE DEF G
<1>3. \A k \in 0 .. N : k \in G
  BY <1>0, <1>1, <1>2, LoopEnds
<1>4. \E f : Serving(f, N)
  BY <1>0, <1>3 DEF G
<1>5. served = CHOOSE f : Serving(f, N)
  BY Zenon DEF served, Serving, Woken, Begun, N
<1>6. Serving(served, N)
  BY <1>4, <1>5
<1>7. \A i \in 0 .. N : served[i] = IF i = 0 THEN {Begun} ELSE Woken(served[i - 1], pending[i])
  BY <1>6 DEF Serving
<1>8. ASSUME NEW k \in 0 .. N - 1
      PROVE  served[k + 1] = Woken(served[k], pending[k + 1])
  <2>1. k + 1 \in 0 .. N /\ k + 1 # 0 /\ (k + 1) - 1 = k
    BY <1>0
  <2> QED
    BY <1>7, <2>1
<1>9. served[0] = {Begun}
  BY <1>0, <1>7
<1> QED
  BY <1>8, <1>9 DEF N

\* The place the worker looks at is no part of what is in step.
LEMMA PlaceKeepsGood ==
  ASSUME NEW z, Good(z)
  PROVE  LET y == [z EXCEPT !.e = WAITQ_LENGTH] IN
         /\ Good(y) /\ y.e = WAITQ_LENGTH /\ y.uart = z.uart /\ y.wq = z.wq /\ y.st = z.st
<1> DEFINE y == [z EXCEPT !.e = WAITQ_LENGTH]
           n == WAITQ_LENGTH
<1>1. z \in Zs /\ ~z.panic /\ Waiters(z.st, z.wq) /\ Derives(z.st)
  BY DEF Good
<1>2. /\ z = Zed(z.st, z.wq, z.uart, z.e, z.panic)
      /\ z.st \in [Slots -> States] /\ z.wq \in Queues /\ z.uart \in Buffers
      /\ z.panic \in BOOLEAN
  BY <1>1, ZFields
<1>3. y = Zed(z.st, z.wq, z.uart, n, z.panic)
  BY <1>1, ZedExcept
<1>4. n \in 0 .. WAITQ_LENGTH
  OBVIOUS
<1> HIDE DEF y
<1>5. /\ y.st = z.st /\ y.wq = z.wq /\ y.uart = z.uart /\ y.e = n /\ y.panic = z.panic
      /\ y \in Zs
  BY <1>2, <1>3, <1>4, ZedIs
<1>6. Good(y)
  BY <1>1, <1>5 DEF Good
<1> QED
  BY <1>5, <1>6 DEF y

\* The worker's turn for one notification leaves what it found.
LEMMA WakeKeepsGood ==
  ASSUME GoodTable(state), NEW z, Good(z), NEW what, NEW y \in wake(z, what)
  PROVE  Good(y)
<1>1. PICK f : /\ f[0] = {z}
               /\ \A i \in 0 .. WAITQ_LENGTH - 1 : f[i + 1] = Visited(f[i], what, i)
               /\ wake(z, what) = {[x EXCEPT !.e = WAITQ_LENGTH] : x \in f[WAITQ_LENGTH]}
  BY WakeIs
<1> DEFINE G == {i \in 0 .. WAITQ_LENGTH : \A x \in f[i] : Good(x)}
<1>2. 0 \in G
  BY <1>1
<1>3. ASSUME NEW i \in 0 .. WAITQ_LENGTH - 1, i \in G PROVE i + 1 \in G
  <2> SUFFICES ASSUME NEW x \in f[i + 1] PROVE Good(x)
    OBVIOUS
  <2>1. PICK w \in f[i] : x = visit(w, what, i)
    BY <1>1 DEF Visited
  <2>2. Good(w)
    BY <1>3
  <2> QED
    BY <2>1, <2>2, VisitKeepsGood
<1> HIDE DEF G
<1>4. WAITQ_LENGTH \in G
  BY <1>2, <1>3, LoopEnds
<1>5. PICK x \in f[WAITQ_LENGTH] : y = [x EXCEPT !.e = WAITQ_LENGTH]
  BY <1>1
<1>6. Good(x)
  BY <1>4 DEF G
<1>7. Good([x EXCEPT !.e = WAITQ_LENGTH])
  BY <1>6, PlaceKeepsGood
<1> QED
  BY <1>5, <1>7

\* What the worker begins with.
LEMMA BegunIsGood ==
  ASSUME GoodTable(state), waitq \in Queues, uart \in Buffers, Waiters(state, waitq)
  PROVE  Good(Begun)
<1>1. Begun = Zed(state, waitq, uart, 0, FALSE)
  BY DEF Begun, Zed
<1>2. 0 \in 0 .. WAITQ_LENGTH /\ FALSE \in BOOLEAN /\ state \in [Slots -> States]
  BY DEF GoodTable
<1> DEFINE y == Begun
           e == 0
           calm == FALSE
<1>3. y = Zed(state, waitq, uart, e, calm)
  BY <1>1
<1> HIDE DEF y, e, calm
<1>4. y.st = state /\ y.wq = waitq /\ y.panic = calm /\ (e \in 0 .. WAITQ_LENGTH /\ calm \in BOOLEAN => y \in Zs)
  BY <1>2, <1>3, ZedIs
<1>5. Begun \in Zs /\ Begun.st = state /\ Begun.wq = waitq /\ Begun.panic = FALSE
  BY <1>2, <1>4 DEF y, e, calm
<1>6. Derives(state)
  BY DEF Derives
<1> QED
  BY <1>5, <1>6 DEF Good

\* And so do all the notifications together.
LEMMA ServedIsGood ==
  ASSUME GoodTable(state), waitq \in Queues, uart \in Buffers, Waiters(state, waitq),
         pending \in Seq(Ttys), NEW k \in 0 .. Len(pending), NEW z \in served[k]
  PROVE  Good(z)
<1> DEFINE N == Len(pending)
           G == {i \in 0 .. N : \A x \in served[i] : Good(x)}
<1>1. /\ N \in Nat /\ served[0] = {Begun}
      /\ \A i \in 0 .. N - 1 : served[i + 1] = Woken(served[i], pending[i + 1])
  BY ServedIs
<1> HIDE DEF N
<1>2. 0 \in G
  BY <1>1, BegunIsGood
<1>3. ASSUME NEW i \in 0 .. N - 1, i \in G PROVE i + 1 \in G
  <2> SUFFICES ASSUME NEW x \in served[i + 1] PROVE Good(x)
    BY <1>1
  <2>1. PICK w \in served[i] : x \in wake(w, pending[i + 1])
    BY <1>1 DEF Woken
  <2>2. Good(w)
    BY <1>3
  <2> QED
    BY <2>1, <2>2, WakeKeepsGood
<1> HIDE DEF G
<1>4. k \in G
  BY <1>1, <1>2, <1>3, LoopEnds DEF N
<1> QED
  BY <1>4 DEF G

-----------------------------------------------------------------------------
(* The terminals: the invariant                                            *)

\* The only signal there is without kill is the one a fault leaves.
OnlyKill == \A s \in Slots : sigs[s] \in {{}, {SIGKILL}}

\* Nobody with a signal pending is on the CPU, so nobody with one blocks; and the
\* worker, which no fault is charged to, has none.
Quiet == OnlyKill /\ sigs[0] = {} /\ ~Fatal(sigs, currentTask)

Terminals ==
  /\ Parts /\ Quiet
  /\ waitq \in Queues /\ uart \in Buffers /\ pending \in Seq(Ttys)
  /\ Waiters(state, waitq)

\* The invariant says what TtyInv says, and more.
LEMMA TerminalsAreSound == Terminals => TtyInv
<1> SUFFICES ASSUME Terminals PROVE TtyInv
  OBVIOUS
<1>1. TypeOK /\ CurrentIsRunning
  BY DEF Terminals, Parts, GoodTable, Resources, TypeOK, CurrentIsRunning
<1>2. \A i \in Entries : Waiting(waitq, i) => waitq[i] \in EntryRecords
  BY EntryIs DEF Terminals
<1>3. TtyTypeOK
  BY <1>1, <1>2 DEF TtyTypeOK, Terminals, Queues, Buffers, EntryRecords
<1>4. WaitersBlocked
  BY DEF WaitersBlocked, Terminals, Waiters
<1> QED
  BY <1>1, <1>3, <1>4 DEF TtyInv

\* SIGKILL is fatal, so the process on the CPU has no signal pending.
LEMMA QuietCpu ==
  ASSUME Quiet, currentTask \in Slots
  PROVE  sigs[currentTask] = {}
<1> SUFFICES ASSUME sigs[currentTask] = {SIGKILL} PROVE Fatal(sigs, currentTask)
  BY DEF Quiet, OnlyKill
<1> DEFINE B == {i \in 0 .. SIGNUM - 1 : i \in {SIGKILL}}
<1>1. B = {3}
  BY DEF SIGKILL, SIGNUM
<1>2. 3 \in {3} /\ \A x \in {3} : x = 3
  OBVIOUS
<1>3. Lowest({3}) = 3
  <2>1. Lowest({3}) \in {3}
    BY LowestIsLeast
  <2> QED
    BY <2>1
<1>4. getSignalFromMask({SIGKILL}) = 3
  BY <1>1, <1>3 DEF getSignalFromMask, SIGKILL, SIGNUM
<1> QED
  BY <1>4 DEF Fatal, SIGKILL

-----------------------------------------------------------------------------
(* The terminals: every step keeps the invariant                           *)

\* No step of the process core but kill sends another signal.
LEMMA StepKeepsOnlyKill ==
  ASSUME Parts, OnlyKill, [Next]_vars, ~sys_kill
  PROVE  OnlyKill'
<1>1. /\ GoodTable(state) /\ currentTask \in Slots
      /\ sigs \in [Slots -> SUBSET SignalSet]
  BY DEF Parts
<1>2. CASE UNCHANGED sigs
  BY <1>2 DEF OnlyKill
<1>3. CASE timer_interrupt \/ sys_yield
  BY <1>2, <1>3 DEF timer_interrupt, sys_yield, resched
<1>4. CASE sys_fork \/ sys_clone \/ sys_execve \/ sys_waitpid \/ sys_exit
  <2>1. ASSUME NEW type, NEW target, NEW nohang, Park(type, target, nohang)
        PROVE  UNCHANGED sigs
    BY <2>1 DEF Park, resched
  <2> QED
    BY <1>2, <1>4, <2>1 DEF sys_fork, sys_clone, sys_execve, sys_waitpid, sys_exit
<1>5. CASE decoder_interrupt
  <2> DEFINE c == currentTask
             sg == sendSig(pid[c], SIGKILL)
  <2>1. c \in Slots \ {0} /\ state[c] = "RUN"
    BY <1>1, <1>5 DEF decoder_interrupt, InProgram, Parts
  <2>2. pid[c] \in 1 .. MaxPid
    BY <1>1, <2>1 DEF GoodTable, Live
  <2>3. SIGKILL \in SignalSet
    BY DEF SignalSet
  <2>4. \A s \in Slots : sg[s] = sigs[s] \/ sg[s] = sigs[s] \cup {SIGKILL}
    BY <2>2, <2>3, SendSigKeeps
  <2>5. sigs' = sg
    BY <1>5 DEF decoder_interrupt, resched
  <2> HIDE DEF sg
  <2> QED
    BY <2>4, <2>5 DEF OnlyKill
<1>6. CASE kernel_worker
  <2> DEFINE i == wpos
             p == findProcByPid(ktq[i].caller)
             n == get_free_proc
  <2>1. i \in Tasks
    BY <1>6 DEF kernel_worker
  <2>2. ASSUME ktq[i].type # "NONE", ~CallerGone(i), NEW clone, do_fork(p, n, clone)
        PROVE  OnlyKill'
    <3>1. p \in Slots
      <4>1. state[0] = "RUN"
        BY <1>6 DEF Parts, kernel_worker
      <4> QED
        BY <2>1, <2>2, <4>1, TaskCaller
    <3>2. sigs' = [sigs EXCEPT ![n] = sigs[p]]
      BY <2>2 DEF do_fork
    <3> HIDE DEF p, n
    <3> QED
      BY <1>1, <3>1, <3>2 DEF OnlyKill
  <2>3. CASE do_kernel_task_fork(i) \/ do_kernel_task_clone(i)
    <3>1. CASE CallerGone(i) \/ FreeProcs = {}
      BY <1>2, <2>3, <3>1
      DEF do_kernel_task_fork, do_kernel_task_clone, TaskStays, NullProcess, procVars
    <3>2. CASE ~CallerGone(i) /\ FreeProcs # {}
      <4>1. ktq[i].type # "NONE" /\ \E clone \in BOOLEAN : do_fork(p, n, clone)
        BY <2>3, <3>2 DEF do_kernel_task_fork, do_kernel_task_clone
      <4> QED
        BY <2>2, <3>2, <4>1
    <3> QED
      BY <3>1, <3>2
  <2>4. CASE TaskIdle(i) \/ do_kernel_task_execve(i) \/ do_kernel_task_waitpid(i)
             \/ do_kernel_task_exit(i)
    BY <1>2, <2>4
    DEF TaskIdle, do_kernel_task_execve, do_kernel_task_waitpid, do_kernel_task_exit,
        TaskStays, procVars
  <2> QED
    BY <1>6, <2>3, <2>4 DEF kernel_worker
<1>7. CASE processWaiting \/ panic \/ UNCHANGED vars
  BY <1>2, <1>7 DEF processWaiting, panic, procVars, vars
<1> QED
  BY <1>3, <1>4, <1>5, <1>6, <1>7 DEF Next

\* The process core neither blocks a process nor wakes a blocked one.
LEMMA CoreKeepsTerminals ==
  ASSUME "kill" \notin Calls, Terminals, SchedStep
  PROVE  Terminals' /\ (halted' = "panic" => halted = "panic")
<1>1. [Next]_vars /\ ~sys_kill /\ UNCHANGED ioVars
  BY DEF SchedStep, Next, sys_kill, InProgram
<1>2. Parts /\ Quiet /\ OnlyKill /\ Waiters(state, waitq)
  BY DEF Terminals, Quiet
<1>3. Parts' /\ Same
  BY <1>1, <1>2, StepKeepsParts
<1>4. OnlyKill'
  BY <1>1, <1>2, StepKeepsOnlyKill
<1>5. Quiet'
  BY <1>2, <1>3, <1>4 DEF Same, Quiet, WorkerKilled
<1>6. UNCHANGED <<waitq, uart, pending>>
  BY <1>1 DEF ioVars
<1>7. Waiters(state, waitq)'
  <2>1. \A i \in Entries : Waiting(waitq, i) =>
          \E s \in Slots : pid'[s] = waitq[i].pid /\ state'[s] = "BLOCKED"
    BY <1>2, <1>3 DEF Same, Waiters
  <2>2. \A s \in Slots : state'[s] = "BLOCKED" => \E i \in Entries : waitq[i].pid = pid'[s]
    BY <1>2, <1>3 DEF Same, Waiters
  <2> QED
    BY <1>2, <1>6, <2>1, <2>2 DEF Waiters, Waiting
<1> QED
  BY <1>2, <1>3, <1>5, <1>6, <1>7 DEF Terminals, Queues, Buffers, Same, Quiet, WorkerKilled

\* Characters arrive: nobody is woken yet.
LEMMA UartKeepsTerminals ==
  ASSUME Terminals, NEW m \in Ttys, uart_interrupt(m)
  PROVE  Terminals'
<1>1. Parts /\ Quiet /\ waitq \in Queues /\ uart \in Buffers /\ pending \in Seq(Ttys)
      /\ Waiters(state, waitq)
  BY DEF Terminals
<1>2. UNCHANGED <<procVars, selectorMap, nextPid, currentTask, ktq, wpos, waitq>>
      /\ halted' \in {"no", "panic"} /\ (halted' = "no" => halted = "no")
  BY DEF uart_interrupt
<1>3. Parts'
  BY <1>1, <1>2
  DEF Parts, GoodTable, Linked, Busy, Resources, SelectorsPrivate, Alive, Live, ForksIn,
      Calm, procVars, WorkerKilled
<1>4. Quiet'
  BY <1>1, <1>2 DEF Quiet, OnlyKill, Fatal, procVars
<1>5. pending' \in Seq(Ttys)
  BY <1>1 DEF uart_interrupt
<1>6. uart' \in Buffers
  <2>1. PICK k \in 1 .. UART_BUFFER_SIZE : uart' = [uart EXCEPT ![m] = stored(@, k)]
    BY DEF uart_interrupt
  <2>2. uart[m] \in 0 .. UART_BUFFER_SIZE
    BY <1>1 DEF Buffers
  <2>3. stored(uart[m], k) \in 0 .. UART_BUFFER_SIZE
    BY <2>2 DEF stored, FewerOf
  <2>4. uart' = [uart EXCEPT ![m] = stored(uart[m], k)]
    BY <2>1
  <2> QED
    BY <1>1, <2>3, <2>4 DEF Buffers
<1>7. Waiters(state, waitq)' /\ waitq' \in Queues
  BY <1>1, <1>2 DEF Waiters, Waiting, procVars, Queues
<1> QED
  BY <1>3, <1>4, <1>5, <1>6, <1>7 DEF Terminals, Queues, Buffers

\* A program that finds its terminal empty blocks and leaves an entry.
LEMMA ReadBlocks ==
  ASSUME Terminals, NEW m \in Ttys, NEW n \in ReadSizes, sys_read(m, n), uart[m] = 0
  PROVE  /\ Terminals' /\ halted' = halted /\ uart' = uart /\ pending' = pending
         /\ \E j \in Entries : ~Waiting(waitq, j)
              /\ waitq' = [waitq EXCEPT ![j] = Entry(pid[currentTask], m, n)]
<1> DEFINE c == currentTask
           j == Lowest(FreeEntries(waitq))
           x == Entry(pid[c], m, n)
           v == [waitq EXCEPT ![j] = x]
           st == [state EXCEPT ![c] = "BLOCKED"]
<1>1. /\ Parts /\ Quiet /\ waitq \in Queues /\ uart \in Buffers /\ pending \in Seq(Ttys)
      /\ Waiters(state, waitq)
      /\ GoodTable(state) /\ Linked(state, ktq) /\ Calm(state, sigs)
      /\ ktq \in [Tasks -> TaskRecords] /\ sigs \in [Slots -> SUBSET SignalSet]
      /\ sigs[0] = {} /\ nextPid + Cardinality(ForksIn(ktq)) <= MaxPid
      /\ state[0] = "RUN"
  BY DEF Terminals, Parts, Quiet, WorkerKilled, GoodTable
<1>2. halted = "no" /\ c \in Slots \ {0} /\ state[c] = "RUN"
  BY <1>1 DEF sys_read, Parts
<1>3. sigs[c] = {}
  BY <1>1, <1>2, QuietCpu
<1>4. FreeEntries(waitq) # {}
  <2>1. state[0] # "BLOCKED"
    BY <1>1
  <2> QED
    BY <1>1, <2>1, RoomToWait
<1>5. j \in Entries /\ ~Waiting(waitq, j)
  <2>1. FreeEntries(waitq) \in SUBSET Nat
    BY DEF FreeEntries
  <2> QED
    BY <1>4, <2>1, LowestIsLeast DEF FreeEntries
<1>6. /\ waitq' = waitqAddEntry(waitq, x) /\ resched(st, sigs, ktq)
      /\ UNCHANGED <<pid, parent, isThread, sel, selectorMap, nextPid, wpos, uart, pending>>
  BY <1>4 DEF sys_read
<1>7. waitq' = v
  BY <1>6 DEF waitqAddEntry
<1>8. pid[c] \in 1 .. MaxPid
  BY <1>1, <1>2 DEF GoodTable, Live
<1>9. x \in EntryRecords /\ x.pid = pid[c]
  BY <1>8 DEF Entry, EntryRecords
<1>10. /\ \A s \in Slots \ {c} : st[s] = state[s]
       /\ st[c] = "BLOCKED" /\ st \in [Slots -> States]
  BY <1>1, <1>2 DEF GoodTable, States
<1> HIDE DEF j, x
<1>11. v \in Queues /\ Waiters(st, v)
  BY <1>1, <1>2, <1>5, <1>9, WaiterAdded
<1> HIDE DEF v, st
<1>12. GoodTable(st) /\ Calm(st, sigs)
       /\ \A s \in Slots : /\ st[s] = "NONE" <=> state[s] = "NONE"
                           /\ st[s] = "ZOMBIE" <=> state[s] = "ZOMBIE"
  <2>1. \A s \in Slots : /\ st[s] = "NONE" <=> state[s] = "NONE"
                         /\ st[s] = "ZOMBIE" <=> state[s] = "ZOMBIE"
                         /\ st[s] = "SLEEP" <=> state[s] = "SLEEP"
                         /\ st[s] = "BLOCKED" <=> s = c \/ state[s] = "BLOCKED"
    BY <1>2, <1>10
  <2>2. 0 \in Slots /\ st[0] = state[0]
    BY <1>2, <1>10 DEF Slots
  <2>3. GoodTable(st)
    BY <1>1, <1>10, <2>1, <2>2 DEF GoodTable, Live
  <2>4. Calm(st, sigs)
    BY <1>1, <1>3, <2>1 DEF Calm
  <2> QED
    BY <2>1, <2>3, <2>4
<1>13. Linked(st, ktq)
  <2>1. \A s \in Slots : /\ st[s] = "KWORKER" <=> state[s] = "KWORKER"
                         /\ st[s] = "CONSTRUCT" <=> state[s] = "CONSTRUCT"
    BY <1>2, <1>10
  <2> QED
    BY <1>1, <2>1 DEF Linked
<1>t. Turns(st, sigs) /\ st[0] = state[0]
  BY <1>1, <1>2, <1>10 DEF Turns, Slots
<1>14. /\ Parts' /\ halted' = halted /\ ~Fatal(sigs, currentTask)'
       /\ \A s \in Slots : state'[s] = "BLOCKED" <=> st[s] = "BLOCKED"
  <2>1. ~WorkerKilled
    BY <1>1 DEF WorkerKilled
  <2> QED
    BY <1>1, <1>6, <1>12, <1>t, <1>13, <2>1, ReschedKeepsInv
<1>15. Quiet'
  <2>1. sigs' = sigs
    BY <1>6 DEF resched
  <2> QED
    BY <1>1, <1>14, <2>1 DEF Quiet, OnlyKill
<1>16. Waiters(state, waitq)'
  <2>1. waitq' = v /\ pid' = pid
    BY <1>6, <1>7
  <2> QED
    BY <1>11, <1>14, <2>1 DEF Waiters, Waiting
<1>17. Terminals'
  BY <1>1, <1>6, <1>7, <1>11, <1>14, <1>15, <1>16 DEF Terminals, Queues, Buffers
<1> QED
  BY <1>5, <1>6, <1>7, <1>14, <1>17 DEF v, x

\* The invariant is about these variables.
LEMMA TerminalsStay ==
  ASSUME Terminals, UNCHANGED <<vars, waitq>>, uart' \in Buffers, pending' \in Seq(Ttys)
  PROVE  Terminals' /\ halted' = halted
<1>1. Parts'
  BY DEF Terminals, Parts, GoodTable, Linked, Busy, Resources, SelectorsPrivate, Alive, Live,
         ForksIn, Calm, vars, WorkerKilled
<1>2. Quiet' /\ halted' = halted
  BY DEF Terminals, Quiet, OnlyKill, Fatal, vars
<1>3. Waiters(state, waitq)' /\ waitq' \in Queues
  BY DEF Terminals, Waiters, Waiting, vars
<1> QED
  BY <1>1, <1>2, <1>3 DEF Terminals, Queues, Buffers

LEMMA ReadKeepsTerminals ==
  ASSUME Terminals, NEW m \in Ttys, NEW n \in ReadSizes, sys_read(m, n)
  PROVE  Terminals' /\ halted' = halted
<1>1. CASE uart[m] = 0
  BY <1>1, ReadBlocks
<1>2. CASE uart[m] # 0
  <2>1. /\ uart' = [uart EXCEPT ![m] = tty_read(uart[m], n)]
        /\ UNCHANGED <<vars, waitq, pending>>
    BY <1>2 DEF sys_read
  <2>2. uart \in Buffers /\ uart[m] \in 0 .. UART_BUFFER_SIZE
    BY DEF Terminals, Buffers
  <2>3. tty_read(uart[m], n) \in 0 .. UART_BUFFER_SIZE
    BY <2>2 DEF tty_read, FewerOf
  <2>4. uart' \in Buffers
    BY <2>1, <2>2, <2>3 DEF Buffers
  <2>5. pending' \in Seq(Ttys)
    BY <2>1 DEF Terminals
  <2> QED
    BY <2>1, <2>4, <2>5, TerminalsStay
<1> QED
  BY <1>1, <1>2

\* The worker's repeated reads wake readers, and nothing else.
LEMMA ServeKeepsTerminals ==
  ASSUME Terminals, processWaitingIO
  PROVE  Terminals' /\ halted' = "no"
<1>1. /\ Parts /\ Quiet /\ waitq \in Queues /\ uart \in Buffers /\ pending \in Seq(Ttys)
      /\ Waiters(state, waitq) /\ GoodTable(state)
  BY DEF Terminals, Parts
<1>2. PICK z \in served[Len(pending)] :
           /\ state' = z.st /\ waitq' = z.wq /\ uart' = z.uart
           /\ halted' = IF z.panic THEN "panic" ELSE "no"
  BY DEF processWaitingIO
<1>3. pending' = <<>> /\ wpos' = 0
      /\ UNCHANGED <<pid, parent, sigs, isThread, sel, selectorMap, nextPid, currentTask, ktq>>
  BY DEF processWaitingIO
<1>4. Good(z)
  <2>1. Len(pending) \in 0 .. Len(pending)
    BY <1>1
  <2> QED
    BY <1>1, <1>2, <2>1, ServedIsGood
<1>5. z \in Zs /\ ~z.panic /\ Waiters(z.st, z.wq) /\ Derives(z.st)
  BY <1>4 DEF Good
<1>6. z.st \in [Slots -> States] /\ z.wq \in Queues /\ z.uart \in Buffers
  BY <1>5, ZFields
<1>7. halted' = "no" /\ halted = "no"
  BY <1>2, <1>5 DEF processWaitingIO
<1>8. \A s \in Slots : state'[s] = state[s] \/ (state[s] = "BLOCKED" /\ state'[s] = "RUN")
  BY <1>2, <1>5 DEF Derives
<1>9. GoodTable(state)'
  <2>1. \A s \in Slots : /\ state'[s] = "NONE" <=> state[s] = "NONE"
                         /\ state'[s] = "SLEEP" <=> state[s] = "SLEEP"
    BY <1>8
  <2>2. 0 \in Slots /\ state'[0] = "RUN" /\ pid[0] = 0
    BY <1>1, <1>8 DEF GoodTable, Slots, Parts, processWaitingIO
  <2>3. state' \in [Slots -> States]
    BY <1>2, <1>6
  <2> QED
    BY <1>1, <1>3, <2>1, <2>2, <2>3 DEF GoodTable, Live
<1>10. \A s \in Slots : /\ state'[s] = "KWORKER" <=> state[s] = "KWORKER"
                        /\ state'[s] = "CONSTRUCT" <=> state[s] = "CONSTRUCT"
                        /\ state'[s] = "NONE" <=> state[s] = "NONE"
                        /\ state'[s] = "ZOMBIE" <=> state[s] = "ZOMBIE"
                        /\ state[s] = "RUN" => state'[s] = "RUN"
                        /\ state'[s] = "BLOCKED" => state[s] = "BLOCKED"
  BY <1>8
<1>11. Linked(state, ktq)'
  <2>1. Linked(state, ktq)
    BY <1>1 DEF Parts
  <2> QED
    BY <1>3, <1>10, <2>1 DEF Linked, Busy
<1>12. Resources'
  <2>1. \A s \in Slots : Alive(s)' <=> Alive(s)
    BY <1>10 DEF Alive
  <2>2. Resources
    BY <1>1 DEF Parts
  <2> QED
    BY <1>3, <2>1, <2>2, ResourcesStay
<1>13. Calm(state, sigs)'
  BY <1>1, <1>3, <1>10 DEF Parts, Calm
<1>r. /\ state[currentTask] = "RUN" /\ currentTask = 0
      /\ (state[0] = "KWORKER" => WorkerKilled)'
  BY <1>1, <1>3, <1>7, <1>8 DEF Parts, processWaitingIO, WorkerKilled
<1>14. Parts'
  BY <1>1, <1>3, <1>7, <1>9, <1>10, <1>r, <1>11, <1>12, <1>13 DEF Parts, ForksIn
<1>15. Quiet'
  BY <1>1, <1>3 DEF Quiet, OnlyKill, Fatal
<1>16. Waiters(state, waitq)'
  BY <1>2, <1>3, <1>5 DEF Waiters, Waiting
<1> QED
  BY <1>2, <1>3, <1>6, <1>7, <1>14, <1>15, <1>16 DEF Terminals, Queues, Buffers

\* Without kill every step keeps the invariant, and only a terminal's interrupt
\* can panic.
LEMMA TStepKeepsTerminals ==
  ASSUME "kill" \notin Calls, Terminals, [TNext]_allVars
  PROVE  /\ Terminals'
         /\ halted' = "panic" => halted = "panic" \/ \E m \in Ttys : uart_interrupt(m)
<1>1. CASE SchedStep
  BY <1>1, CoreKeepsTerminals
<1>2. ASSUME NEW m \in Ttys, uart_interrupt(m)
      PROVE  Terminals'
  BY <1>2, UartKeepsTerminals
<1>3. ASSUME NEW m \in Ttys, NEW n \in ReadSizes, sys_read(m, n)
      PROVE  Terminals' /\ halted' = halted
  BY <1>3, ReadKeepsTerminals
<1>4. CASE processWaitingIO
  BY <1>4, ServeKeepsTerminals
<1>5. CASE UNCHANGED allVars
  BY <1>5, TerminalsStay DEF allVars, ioVars, Terminals
<1> QED
  BY <1>1, <1>2, <1>3, <1>4, <1>5 DEF TNext

LEMMA TInitTerminals == TInit => Terminals /\ halted = "no"
<1> SUFFICES ASSUME TInit PROVE Terminals /\ halted = "no"
  OBVIOUS
<1>1. Parts /\ Awake /\ halted = "no" /\ \A s \in Slots : sigs[s] = {}
  BY InitInv DEF TInit
<1>2. uart \in Buffers /\ pending \in Seq(Ttys)
  BY DEF TInit, Buffers
<1>3. waitq \in Queues /\ \A i \in Entries : ~Waiting(waitq, i) /\ waitq[i].pid = 0
  BY DEF TInit, waitq_init, Queues, Waiting, NoEntry
<1>4. Waiters(state, waitq)
  BY <1>1, <1>3 DEF Waiters, Awake
<1>5. Quiet
  <2>1. currentTask \in Slots /\ 0 \in Slots
    BY <1>1 DEF Parts, Slots
  <2> QED
    BY <1>1, <2>1 DEF Quiet, OnlyKill, Fatal
<1> QED
  BY <1>1, <1>2, <1>3, <1>4, <1>5 DEF Terminals

\* Terminals, wait queue and process table stay in step: a blocked process has
\* one entry, every entry is of a blocked process, and the worker's repeated
\* reads leave the CPU in a running one.  Programs do not signal each other: a
\* process that is killed while it waits leaves its entry behind.
THEOREM TtySound ==
  ASSUME "kill" \notin Calls
  PROVE  TSpec => []TtyInv
<1>1. TInit => Terminals
  BY TInitTerminals
<1>2. Terminals /\ [TNext]_allVars => Terminals'
  BY TStepKeepsTerminals
<1> QED
  BY <1>1, <1>2, TerminalsAreSound, PTL DEF TSpec

\* The kernel never panics for want of a process to run or of an entry for a
\* reader, nor, while notifications do not outnumber the places for them, for
\* want of one: nothing takes the worker away either.
THEOREM TtyNoPanic ==
  ASSUME "kill" \notin Calls, Burst =< WAITQ_PENDING_LENGTH
  PROVE  TSpec => [](NoPanic /\ ~WorkerKilled)
<1> DEFINE Up == halted # "panic"
<1>1. TInit => Terminals /\ Up
  BY TInitTerminals
<1>2. (Terminals /\ Up) /\ [TNext]_allVars => (Terminals /\ Up)'
  <2> SUFFICES ASSUME Terminals, Up, [TNext]_allVars PROVE Terminals' /\ Up'
    OBVIOUS
  <2>1. ASSUME NEW m \in Ttys, uart_interrupt(m)
        PROVE  halted' = "no"
    <3>1. Len(pending) \in Nat
      BY DEF Terminals
    <3> QED
      BY <2>1, <3>1 DEF uart_interrupt
  <2> QED
    BY <2>1, TStepKeepsTerminals
<1>3. Terminals /\ Up => NoPanic /\ ~WorkerKilled
  BY DEF Terminals, Quiet, NoPanic, WorkerKilled
<1> QED
  BY <1>1, <1>2, <1>3, PTL DEF TSpec

-----------------------------------------------------------------------------
(* The terminals: no wakeup is lost                                        *)

\* Nobody waits at the entries before i while terminal m has characters.
Drained(z, m, i) ==
  \A j \in Entries : j < i /\ Waiting(z.wq, j) => z.uart[m] = 0

\* The first notification brings the worker past every entry, each of which is
\* of the one terminal.
LEMMA FirstWakeDrains ==
  ASSUME GoodTable(state), NEW m, Ttys = {m}, NEW z, Good(z), z.e = 0, NEW y \in wake(z, m)
  PROVE  y.e = WAITQ_LENGTH /\ Drained(y, m, WAITQ_LENGTH)
<1>1. PICK f : /\ f[0] = {z}
               /\ \A i \in 0 .. WAITQ_LENGTH - 1 : f[i + 1] = Visited(f[i], m, i)
               /\ wake(z, m) = {[x EXCEPT !.e = WAITQ_LENGTH] : x \in f[WAITQ_LENGTH]}
  BY WakeIs
<1> DEFINE G == {i \in 0 .. WAITQ_LENGTH :
                   \A x \in f[i] : Good(x) /\ x.e = 0 /\ Drained(x, m, i)}
<1>2. 0 \in G
  BY <1>1 DEF Drained
<1>3. ASSUME NEW i \in 0 .. WAITQ_LENGTH - 1, i \in G PROVE i + 1 \in G
  <2> SUFFICES ASSUME NEW x \in f[i + 1]
               PROVE  Good(x) /\ x.e = 0 /\ Drained(x, m, i + 1)
    OBVIOUS
  <2>1. PICK w \in f[i] : x = visit(w, m, i)
    BY <1>1 DEF Visited
  <2>2. Good(w) /\ w.e = 0 /\ Drained(w, m, i)
    BY <1>3
  <2>3. Good(x)
    BY <2>1, <2>2, VisitKeepsGood
  <2>4. w.wq \in Queues
    BY <2>2, ZFields DEF Good
  <2>5. Passes(w, x, m, i) \/ Reads(w, x, i) \/ Moves(w, x, i)
    BY <2>1, <2>2, VisitIs
  <2>6. CASE Passes(w, x, m, i)
    <3>1. x = w /\ ~Waiting(w.wq, i)
      BY <2>2, <2>4, <2>6, EntryIs DEF Passes
    <3>2. \A j \in Entries : j < i + 1 => j < i \/ j = i
      OBVIOUS
    <3> QED
      BY <2>2, <2>3, <3>1, <3>2 DEF Drained
  <2>7. CASE Reads(w, x, i)
    <3>1. PICK p \in Slots \ {0} :
               x = Zed([w.st EXCEPT ![p] = "RUN"], [w.wq EXCEPT ![i] = NoEntry],
                       x.uart, w.e, FALSE)
      BY <2>7 DEF Reads
    <3>2. x.wq = [w.wq EXCEPT ![i] = NoEntry] /\ x.e = w.e
      BY <3>1 DEF Zed
    <3>3. w.uart[m] # 0
      BY <2>4, <2>7, EntryIs DEF Reads
    <3>4. \A j \in Entries : j < i + 1 => ~Waiting(x.wq, j)
      <4> SUFFICES ASSUME NEW j \in Entries, j < i + 1 PROVE ~Waiting(x.wq, j)
        OBVIOUS
      <4>1. CASE j = i
        BY <2>4, <3>2, <4>1 DEF Waiting, Queues
      <4>2. CASE j # i
        <5>1. j < i /\ x.wq[j] = w.wq[j]
          BY <2>4, <3>2, <4>2 DEF Queues
        <5> QED
          BY <2>2, <3>3, <5>1 DEF Drained, Waiting
      <4> QED
        BY <4>1, <4>2
    <3> QED
      BY <2>2, <2>3, <3>2, <3>4 DEF Drained
  <2>8. CASE Moves(w, x, i)
    <3>1. w.uart[m] = 0
      BY <2>4, <2>8, EntryIs DEF Moves
    <3>2. x.uart = w.uart /\ x.e = w.e
      BY <2>8 DEF Moves, Zed
    <3> QED
      BY <2>2, <2>3, <3>1, <3>2 DEF Drained
  <2> QED
    BY <2>5, <2>6, <2>7, <2>8
<1> HIDE DEF G
<1>4. WAITQ_LENGTH \in G
  BY <1>2, <1>3, LoopEnds
<1>5. PICK x \in f[WAITQ_LENGTH] : y = [x EXCEPT !.e = WAITQ_LENGTH]
  BY <1>1
<1>6. Good(x) /\ Drained(x, m, WAITQ_LENGTH)
  BY <1>4 DEF G
<1>7. y.e = WAITQ_LENGTH /\ y.uart = x.uart /\ y.wq = x.wq
  BY <1>5, <1>6, PlaceKeepsGood
<1> QED
  BY <1>6, <1>7 DEF Drained

\* Later notifications find nothing behind the last entry.
LEMMA LaterWakeIdles ==
  ASSUME NEW z, Good(z), NEW what, NEW y \in wake(z, what)
  PROVE  z.e = WAITQ_LENGTH => y.e = WAITQ_LENGTH /\ y.uart = z.uart /\ y.wq = z.wq
<1>1. PICK f : /\ f[0] = {z}
               /\ \A i \in 0 .. WAITQ_LENGTH - 1 : f[i + 1] = Visited(f[i], what, i)
               /\ wake(z, what) = {[x EXCEPT !.e = WAITQ_LENGTH] : x \in f[WAITQ_LENGTH]}
  BY WakeIs
<1> DEFINE G == {i \in 0 .. WAITQ_LENGTH : z.e = WAITQ_LENGTH => \A x \in f[i] : x = z}
<1>2. 0 \in G
  BY <1>1
<1>3. ASSUME NEW i \in 0 .. WAITQ_LENGTH - 1, i \in G PROVE i + 1 \in G
  <2> SUFFICES ASSUME z.e = WAITQ_LENGTH, NEW x \in f[i + 1] PROVE x = z
    OBVIOUS
  <2>1. PICK w \in f[i] : x = visit(w, what, i)
    BY <1>1 DEF Visited
  <2>2. w = z /\ i < w.e
    BY <1>3
  <2> QED
    BY <2>1, <2>2 DEF visit
<1> HIDE DEF G
<1>4. WAITQ_LENGTH \in G
  BY <1>2, <1>3, LoopEnds
<1>5. PICK x \in f[WAITQ_LENGTH] : y = [x EXCEPT !.e = WAITQ_LENGTH]
  BY <1>1
<1>6. z.e = WAITQ_LENGTH => x = z
  BY <1>4 DEF G
<1> QED
  BY <1>5, <1>6, PlaceKeepsGood

\* So a pass with at least one notification leaves nobody to be woken.
LEMMA ServedIsDrained ==
  ASSUME Terminals, NEW m, Ttys = {m}, pending # <<>>, NEW z \in served[Len(pending)]
  PROVE  Drained(z, m, WAITQ_LENGTH)
<1> DEFINE N == Len(pending)
           G == {i \in 0 .. N - 1 : \A x \in served[i + 1] :
                   x.e = WAITQ_LENGTH /\ Drained(x, m, WAITQ_LENGTH)}
<1>1. /\ pending \in Seq(Ttys) /\ GoodTable(state) /\ waitq \in Queues /\ uart \in Buffers
      /\ Waiters(state, waitq)
  BY DEF Terminals, Parts
<1>2. N \in Nat \ {0} /\ \A i \in 1 .. N : pending[i] \in Ttys
  BY <1>1
<1>3. /\ served[0] = {Begun}
      /\ \A i \in 0 .. N - 1 : served[i + 1] = Woken(served[i], pending[i + 1])
  BY <1>1, ServedIs
<1>4. \A i \in 0 .. N : \A x \in served[i] : Good(x)
  BY <1>1, ServedIsGood
<1> HIDE DEF N
<1>5. 0 \in G
  <2> SUFFICES ASSUME NEW x \in served[1]
               PROVE  x.e = WAITQ_LENGTH /\ Drained(x, m, WAITQ_LENGTH)
    BY <1>2
  <2>1. 0 \in 0 .. N - 1 /\ 1 \in 1 .. N
    BY <1>2
  <2>2. pending[1] = m
    BY <1>2, <2>1
  <2>3. served[0 + 1] = Woken(served[0], pending[0 + 1])
    BY <1>3, <2>1
  <2>4. x \in wake(Begun, m)
    <3>1. 0 + 1 = 1
      OBVIOUS
    <3>2. served[1] = Woken({Begun}, m)
      BY <1>3, <2>2, <2>3, <3>1
    <3> QED
      BY <3>2 DEF Woken
  <2>5. Good(Begun) /\ Begun.e = 0
    BY <1>1, BegunIsGood DEF Begun
  <2> QED
    BY <1>1, <2>4, <2>5, FirstWakeDrains
<1>6. ASSUME NEW i \in 0 .. (N - 1) - 1, i \in G PROVE i + 1 \in G
  <2>1. i + 1 \in 0 .. N - 1 /\ i + 1 \in 0 .. N
    BY <1>2
  <2> SUFFICES ASSUME NEW x \in served[(i + 1) + 1]
               PROVE  x.e = WAITQ_LENGTH /\ Drained(x, m, WAITQ_LENGTH)
    BY <2>1
  <2>2. PICK w \in served[i + 1] : x \in wake(w, pending[(i + 1) + 1])
    BY <1>3, <2>1 DEF Woken
  <2>3. Good(w) /\ w.e = WAITQ_LENGTH /\ Drained(w, m, WAITQ_LENGTH)
    BY <1>4, <1>6, <2>1
  <2>4. x.e = WAITQ_LENGTH /\ x.uart = w.uart /\ x.wq = w.wq
    BY <2>2, <2>3, LaterWakeIdles
  <2> QED
    BY <2>3, <2>4 DEF Drained
<1> HIDE DEF G
<1>7. N - 1 \in Nat /\ N - 1 \in 0 .. N - 1 /\ (N - 1) + 1 = N
  BY <1>2
<1>8. N - 1 \in G
  BY <1>5, <1>6, <1>7, LoopEnds
<1>9. z \in served[(N - 1) + 1]
  BY <1>7 DEF N
<1> QED
  BY <1>8, <1>9 DEF G

\* NoLostWakeup of the one terminal there is.
Notified(m) == uart[m] # 0 /\ (\E i \in Entries : Waiting(waitq, i)) => pending # <<>>

LEMMA NotifiedIsEnough ==
  ASSUME Terminals, NEW m, Ttys = {m}
  PROVE  NoLostWakeup <=> Notified(m)
<1>1. waitq \in Queues /\ pending \in Seq(Ttys)
  BY DEF Terminals
<1>2. \A i \in Entries : Waiting(waitq, i) => waitq[i].trigger = m
  BY <1>1, EntryIs
<1>3. (\E k \in 1 .. Len(pending) : pending[k] = m) <=> pending # <<>>
  <2>1. ASSUME pending # <<>> PROVE \E k \in 1 .. Len(pending) : pending[k] = m
    <3>1. 1 \in 1 .. Len(pending) /\ pending[1] \in Ttys
      BY <1>1, <2>1
    <3> QED
      BY <3>1
  <2>2. ASSUME pending = <<>> PROVE 1 .. Len(pending) = {}
    BY <2>2
  <2> QED
    BY <2>1, <2>2
<1> QED
  BY <1>2, <1>3 DEF NoLostWakeup, Notified

LEMMA NotifiedPrime ==
  ASSUME NEW m, Ttys = {m}
  PROVE  Terminals' => (NoLostWakeup' <=> Notified(m)')
<1>1. Terminals => (NoLostWakeup <=> Notified(m))
  BY NotifiedIsEnough
<1> QED
  BY <1>1, PTL

\* While a reader is blocked on the terminal and the terminal has characters, a
\* notification is still to be served.  The worker sets its place in the wait
\* queue to 0 once for all the notifications it serves, so with two terminals
\* this is not so.
THEOREM TtyWakes ==
  ASSUME "kill" \notin Calls, \E m : Ttys = {m}
  PROVE  TSpec => []NoLostWakeup
<1> PICK m : Ttys = {m}
  OBVIOUS
<1>1. TInit => Terminals /\ NoLostWakeup
  <2>1. TInit => Notified(m)
    BY DEF TInit, Notified
  <2> QED
    BY <2>1, TInitTerminals, NotifiedIsEnough
<1>2. (Terminals /\ NoLostWakeup) /\ [TNext]_allVars => (Terminals /\ NoLostWakeup)'
  <2> SUFFICES ASSUME Terminals, NoLostWakeup, [TNext]_allVars
               PROVE  Terminals' /\ Notified(m)'
    BY NotifiedPrime
  <2>0. /\ Notified(m) /\ waitq \in Queues /\ uart \in Buffers /\ pending \in Seq(Ttys)
        /\ m \in Ttys
    BY NotifiedIsEnough DEF Terminals
  <2>1. Terminals'
    BY TStepKeepsTerminals
  <2>2. CASE SchedStep \/ UNCHANGED allVars
    BY <2>0, <2>1, <2>2 DEF SchedStep, allVars, ioVars, Notified, Waiting
  <2>3. CASE uart_interrupt(m)
    <3>1. CASE Len(pending) < WAITQ_PENDING_LENGTH
      <4>1. pending' = Append(pending, m)
        BY <2>3, <3>1 DEF uart_interrupt
      <4>2. pending' # <<>>
        BY <2>0, <4>1
      <4> QED
        BY <2>1, <4>2 DEF Notified
    <3>2. CASE ~(Len(pending) < WAITQ_PENDING_LENGTH)
      <4>1. pending' = pending /\ Len(pending) # 0
        BY <2>0, <2>3, <3>2 DEF uart_interrupt
      <4> QED
        BY <2>1, <4>1 DEF Notified
    <3> QED
      BY <3>1, <3>2
  <2>4. ASSUME NEW n \in ReadSizes, sys_read(m, n)
        PROVE  Notified(m)'
    <3>1. CASE uart[m] = 0
      <4>1. uart' = uart
        BY <2>0, <2>4, <3>1, ReadBlocks
      <4> QED
        BY <3>1, <4>1 DEF Notified
    <3>2. CASE uart[m] # 0
      <4>1. UNCHANGED <<waitq, pending>>
        BY <2>4, <3>2 DEF sys_read
      <4> QED
        BY <2>0, <3>2, <4>1 DEF Notified, Waiting
    <3> QED
      BY <3>1, <3>2
  <2>5. CASE processWaitingIO
    <3>1. PICK z \in served[Len(pending)] : waitq' = z.wq /\ uart' = z.uart
      BY <2>5 DEF processWaitingIO
    <3>2. CASE pending = <<>>
      <4>1. z = Begun
        <5>1. Len(pending) = 0
          BY <3>2
        <5> QED
          BY <2>0, <3>1, <5>1, ServedIs
      <4>2. waitq' = waitq /\ uart' = uart
        BY <3>1, <4>1 DEF Begun
      <4> QED
        BY <2>0, <2>1, <3>2, <4>2 DEF Notified, Waiting
    <3>3. CASE pending # <<>>
      <4>1. Drained(z, m, WAITQ_LENGTH)
        BY <3>1, <3>3, ServedIsDrained
      <4>2. \A i \in Entries : Waiting(z.wq, i) => z.uart[m] = 0
        <5>1. \A i \in Entries : i < WAITQ_LENGTH
          OBVIOUS
        <5> QED
          BY <4>1, <5>1 DEF Drained
      <4> QED
        BY <2>1, <3>1, <4>2 DEF Notified, Waiting
    <3> QED
      BY <3>2, <3>3
  <2> QED
    BY <2>1, <2>2, <2>3, <2>4, <2>5 DEF TNext
<1> QED
  BY <1>1, <1>2, PTL DEF TSpec

=============================================================================
