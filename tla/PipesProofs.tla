----------------------------- MODULE PipesProofs -----------------------------
(***************************************************************************)
(* A pipe, for any sizes of its ring, of the calls and of the wait queue:  *)
(* module Pipes counts its words and says who waits for them, and module   *)
(* CircularBuffer, the ring they are kept in, says that they come out in   *)
(* the order they went in.                                                 *)
(***************************************************************************)
EXTENDS Pipes, CircularBuffer, FirstFitProofs, SequenceTheorems

USE PipesAssumption DEF Entries, Ends, Procs

-----------------------------------------------------------------------------
(* The pass over the wait queue                                            *)

Start == [Kernel EXCEPT !.pending = 0]
Pass(S, i) == {processWaitQEntry(z, i) : z \in S}

\* The equation that defines served has a solution.
LEMMA ServedStep ==
  /\ served[0] = {Start}
  /\ \A i \in 0 .. WAITQ_LENGTH - 1 : served[i + 1] = Pass(served[i], i)
<1> DEFINE Of(f, i) == IF i = 0 THEN {Start} ELSE Pass(f[i - 1], i - 1)
           Solves(f, k) == f = [i \in 0 .. k |-> Of(f, i)]
           G == {k \in 0 .. WAITQ_LENGTH : \E f : Solves(f, k)}
<1>1. 0 \in G
  <2>1. Solves([i \in 0 .. 0 |-> {Start}], 0)
    OBVIOUS
  <2>2. \E f : Solves(f, 0)
    BY <2>1
  <2> HIDE DEF Solves
  <2> QED
    BY <2>2
<1>2. ASSUME NEW k \in 0 .. WAITQ_LENGTH - 1, k \in G PROVE k + 1 \in G
  <2>1. PICK f : Solves(f, k)
    BY <1>2
  <2> DEFINE g == [i \in 0 .. k + 1 |-> IF i = k + 1 THEN Of(f, i) ELSE f[i]]
  <2>2. \A i \in 0 .. k + 1 : g[i] = Of(g, i)
    <3> SUFFICES ASSUME NEW i \in 0 .. k + 1 PROVE g[i] = Of(g, i)
      OBVIOUS
    <3>1. CASE i = 0
      BY <2>1, <3>1
    <3>2. CASE i # 0
      <4>1. i - 1 \in 0 .. k /\ i - 1 # k + 1
        BY <3>2
      <4>2. g[i - 1] = f[i - 1]
        BY <4>1
      <4>3. ASSUME i # k + 1 PROVE g[i] = Of(f, i)
        <5>1. i \in 0 .. k
          BY <4>3
        <5>2. f[i] = Of(f, i)
          BY <2>1, <5>1
        <5> QED
          BY <4>3, <5>2
      <4>4. g[i] = Of(f, i)
        BY <4>3
      <4> QED
        BY <3>2, <4>2, <4>4
    <3> QED
      BY <3>1, <3>2
  <2>3. Solves(g, k + 1)
    BY <2>2
  <2>4. \E h : Solves(h, k + 1)
    BY <2>3
  <2> HIDE DEF Solves
  <2> QED
    BY <2>4
<1> HIDE DEF G
<1>3. WAITQ_LENGTH \in G
  BY <1>1, <1>2, LoopEnds
<1>4. \E f : Solves(f, WAITQ_LENGTH)
  BY <1>3 DEF G
<1>5. served = CHOOSE f : Solves(f, WAITQ_LENGTH)
  BY Zenon DEF served, Start, Pass
<1>6. Solves(served, WAITQ_LENGTH)
  BY <1>4, <1>5
<1>7. \A i \in 0 .. WAITQ_LENGTH : served[i] = Of(served, i)
  BY <1>6
<1>8. ASSUME NEW i \in 0 .. WAITQ_LENGTH - 1
      PROVE  served[i + 1] = Pass(served[i], i)
  <2>1. i + 1 \in 0 .. WAITQ_LENGTH /\ i + 1 # 0 /\ (i + 1) - 1 = i
    OBVIOUS
  <2> QED
    BY <1>7, <2>1
<1> QED
  BY <1>7, <1>8

-----------------------------------------------------------------------------
(* One call                                                                *)

EntryRecords == [pid : Procs, end : Ends, n : IoSizes]
PipeRecords == [used : BOOLEAN, size : 0 .. PIPE_MAX_LENGTH,
                readClosed : BOOLEAN, writeClosed : BOOLEAN]
ProcTables == [Procs -> {"RUN", "BLOCKED"}]
Queues == [Entries -> EntryRecords \cup {NoEntry}]
Kernels == [proc : ProcTables, sig : SUBSET Procs, pipe : PipeRecords, wq : Queues,
            pending : 0 .. WAITQ_PENDING_LENGTH, req : 0 .. 2,
            halted : {"no", "panic", "freed"}]

\* Nothing to read, or no room to write.
Stuck(end, n) == IF end = "read" THEN n = 0 ELSE n = PIPE_MAX_LENGTH

\* The pipe keeps its flags, and no notification is taken back.
Keeps(a, b) ==
  /\ b.pipe = [a.pipe EXCEPT !.size = b.pipe.size]
  /\ a.pending <= b.pending

\* The call returned to p, which told the other end if that was stuck; now the
\* other end is not.
Returns(a, b, end) ==
  /\ b.wq = a.wq /\ b.proc = a.proc /\ b.sig = a.sig
  /\ WAITQ_PENDING_LENGTH > 0 /\ (\E o \in Ends \ {end} : Stuck(o, a.pipe.size))
       => b.pending > 0
  /\ \A o \in Ends \ {end} : ~Stuck(o, b.pipe.size)

\* The call gave p a SIGPIPE: it wrote to a pipe without a reader.
Signals(a, b, p, end) ==
  /\ end = "write" /\ a.pipe.readClosed
  /\ b.wq = a.wq /\ b.proc = [a.proc EXCEPT ![p] = "BLOCKED"]
  /\ b.sig = a.sig \cup {p}
  /\ b.pipe.size = a.pipe.size /\ b.pending = a.pending

\* The call found the wait queue full.
FindsNoRoom(a, b) ==
  /\ b.halted = "panic"
  /\ b.wq = a.wq /\ b.proc = a.proc /\ b.sig = a.sig

\* The call left an entry and blocked p.
Blocks(a, b, p, end, n) ==
  /\ Stuck(end, a.pipe.size) /\ FreeEntries(a.wq) # {}
  /\ b.wq = waitqAddEntry(a.wq, Entry(p, end, n))
  /\ b.proc = [a.proc EXCEPT ![p] = "BLOCKED"] /\ b.sig = a.sig
  /\ b.pipe.size = a.pipe.size /\ b.pending = a.pending

Outcome(a, b, p, end, n) ==
  /\ b \in Kernels /\ Keeps(a, b)
  /\ \/ Returns(a, b, end) \/ Signals(a, b, p, end)
     \/ FindsNoRoom(a, b) \/ Blocks(a, b, p, end, n)

IsKernel(a) ==
  a = [proc |-> a.proc, sig |-> a.sig, pipe |-> a.pipe, wq |-> a.wq,
       pending |-> a.pending, req |-> a.req, halted |-> a.halted]

\* The fields of a kernel.
LEMMA KernelFields ==
  ASSUME NEW a \in Kernels
  PROVE  /\ IsKernel(a)
         /\ a.proc \in ProcTables /\ a.sig \in SUBSET Procs
         /\ a.pipe \in PipeRecords /\ a.wq \in Queues
         /\ a.pending \in 0 .. WAITQ_PENDING_LENGTH /\ a.req \in 0 .. 2
         /\ a.halted \in {"no", "panic", "freed"}
         /\ a.pipe = [used |-> a.pipe.used, size |-> a.pipe.size,
                      readClosed |-> a.pipe.readClosed, writeClosed |-> a.pipe.writeClosed]
         /\ a.pipe.used \in BOOLEAN /\ a.pipe.size \in 0 .. PIPE_MAX_LENGTH
         /\ a.pipe.readClosed \in BOOLEAN /\ a.pipe.writeClosed \in BOOLEAN
<1>1. a.pipe \in PipeRecords
  BY DEF Kernels
<1> QED
  BY <1>1 DEF Kernels, PipeRecords, IsKernel

\* A free entry takes the call that blocks.
LEMMA EntryAdded ==
  ASSUME NEW q \in Queues, FreeEntries(q) # {}, NEW e \in EntryRecords
  PROVE  /\ waitqAddEntry(q, e) \in Queues
         /\ waitqAddEntry(q, e) = [q EXCEPT ![Lowest(FreeEntries(q))] = e]
         /\ Lowest(FreeEntries(q)) \in FreeEntries(q)
         /\ \A i \in FreeEntries(q) : Lowest(FreeEntries(q)) <= i
<1>1. FreeEntries(q) \in SUBSET Nat
  BY DEF FreeEntries
<1>2. /\ Lowest(FreeEntries(q)) \in FreeEntries(q)
      /\ \A i \in FreeEntries(q) : Lowest(FreeEntries(q)) <= i
  BY <1>1, LowestIsLeast
<1>3. [q EXCEPT ![Lowest(FreeEntries(q))] = e] \in Queues
  BY DEF Queues
<1> QED
  BY <1>2, <1>3 DEF waitqAddEntry

GivesUp(a, b, p, end, n) ==
  /\ b \in Kernels /\ b.pipe = a.pipe /\ b.pending = a.pending /\ b.sig = a.sig
  /\ \/ /\ b.halted = "panic" /\ b.wq = a.wq /\ b.proc = a.proc
     \/ /\ FreeEntries(a.wq) # {}
        /\ b.wq = waitqAddEntry(a.wq, Entry(p, end, n))
        /\ b.proc = [a.proc EXCEPT ![p] = "BLOCKED"]

\* Blocking: the caller leaves an entry, or finds no room for one.
LEMMA BlockIs ==
  ASSUME NEW a \in Kernels, NEW end \in Ends, NEW p \in Holders(end),
         NEW n \in IoSizes
  PROVE  GivesUp(a, Block(a, p, end, n), p, end, n)
<1> DEFINE b == Block(a, p, end, n)
<1>1. p \in Procs
  BY DEF Holders
<1>2. Entry(p, end, n) \in EntryRecords
  BY <1>1 DEF Entry, EntryRecords
<1>3. CASE FreeEntries(a.wq) = {}
  <2>1. b = [a EXCEPT !.halted = "panic"]
    BY <1>3 DEF Block
  <2>2. /\ b.proc = a.proc /\ b.sig = a.sig /\ b.pipe = a.pipe /\ b.wq = a.wq
        /\ b.pending = a.pending /\ b.req = a.req /\ b.halted = "panic" /\ IsKernel(b)
    <3>1. IsKernel(a)
      BY KernelFields
    <3> HIDE DEF b
    <3> QED
      BY <2>1, <3>1 DEF IsKernel
  <2>3. b \in Kernels
    <3> HIDE DEF b
    <3> QED
      BY <2>2, KernelFields DEF IsKernel, Kernels
  <2> QED
    BY <2>2, <2>3 DEF GivesUp
<1>4. CASE FreeEntries(a.wq) # {}
  <2>1. PICK t, v : /\ t = [a.proc EXCEPT ![p] = "BLOCKED"]
                    /\ v = waitqAddEntry(a.wq, Entry(p, end, n))
    OBVIOUS
  <2>2. b = [a EXCEPT !.req = 0, !.proc = t, !.wq = v]
    <3>1. b = [a EXCEPT !.req = 0, !.proc = [a.proc EXCEPT ![p] = "BLOCKED"],
                        !.wq = waitqAddEntry(a.wq, Entry(p, end, n))]
      BY <1>4 DEF Block
    <3> QED
      BY <2>1, <3>1, Zenon
  <2>3. /\ b.proc = t /\ b.sig = a.sig /\ b.pipe = a.pipe /\ b.wq = v
        /\ b.pending = a.pending /\ b.req = 0 /\ b.halted = a.halted /\ IsKernel(b)
    <3>1. IsKernel(a)
      BY KernelFields
    <3> HIDE DEF b
    <3> QED
      BY <2>2, <3>1 DEF IsKernel
  <2>4. v \in Queues
    BY <1>2, <1>4, <2>1, KernelFields, EntryAdded
  <2>5. t \in ProcTables
    BY <1>1, <2>1, KernelFields DEF ProcTables
  <2>6. b \in Kernels
    <3> HIDE DEF b
    <3> QED
      BY <2>3, <2>4, <2>5, KernelFields DEF IsKernel, Kernels
  <2> QED
    BY <1>4, <2>1, <2>3, <2>6 DEF GivesUp
<1> QED
  BY <1>3, <1>4

\* A notification is one more, unless its queue is full.
LEMMA NotifyIs ==
  ASSUME NEW a \in Kernels
  PROVE  LET b == waitqNotify(a) IN
         /\ b \in Kernels /\ b.pipe = a.pipe /\ b.wq = a.wq /\ b.proc = a.proc
         /\ b.sig = a.sig /\ a.pending <= b.pending
         /\ WAITQ_PENDING_LENGTH > 0 => b.pending > 0
<1> DEFINE b == waitqNotify(a)
<1>0. a.pending \in 0 .. WAITQ_PENDING_LENGTH
  BY KernelFields
<1>1. CASE a.pending < WAITQ_PENDING_LENGTH
  <2>1. b = [a EXCEPT !.pending = a.pending + 1]
    BY <1>1 DEF waitqNotify
  <2>2. /\ b.proc = a.proc /\ b.sig = a.sig /\ b.pipe = a.pipe /\ b.wq = a.wq
        /\ b.pending = a.pending + 1 /\ b.req = a.req /\ b.halted = a.halted /\ IsKernel(b)
    <3>1. IsKernel(a)
      BY KernelFields
    <3> HIDE DEF b
    <3> QED
      BY <2>1, <3>1 DEF IsKernel
  <2> HIDE DEF b
  <2>3. b \in Kernels
    BY <1>1, <2>2, KernelFields DEF IsKernel, Kernels
  <2> QED
    BY <1>0, <1>1, <2>2, <2>3 DEF b
<1>2. CASE ~(a.pending < WAITQ_PENDING_LENGTH)
  <2>1. b = [a EXCEPT !.halted = "panic"]
    BY <1>2 DEF waitqNotify
  <2>2. /\ b.proc = a.proc /\ b.sig = a.sig /\ b.pipe = a.pipe /\ b.wq = a.wq
        /\ b.pending = a.pending /\ b.req = a.req /\ b.halted = "panic" /\ IsKernel(b)
    <3>1. IsKernel(a)
      BY KernelFields
    <3> HIDE DEF b
    <3> QED
      BY <2>1, <3>1 DEF IsKernel
  <2> HIDE DEF b
  <2>3. b \in Kernels
    BY <2>2, KernelFields DEF IsKernel, Kernels
  <2>4. a.pending = WAITQ_PENDING_LENGTH
    BY <1>0, <1>2
  <2> QED
    BY <1>0, <2>2, <2>3, <2>4 DEF b
<1> QED
  BY <1>1, <1>2

Moved(a, s, q) == [a EXCEPT !.pipe.size = s, !.req = q]

\* A call that leaves s words in the pipe and the request q.
LEMMA MovedIs ==
  ASSUME NEW a \in Kernels, NEW s \in 0 .. PIPE_MAX_LENGTH, NEW q \in 0 .. 2
  PROVE  LET b == Moved(a, s, q) IN
         /\ b \in Kernels /\ b.wq = a.wq /\ b.proc = a.proc /\ b.sig = a.sig
         /\ b.pipe = [a.pipe EXCEPT !.size = s] /\ b.pipe.size = s
         /\ b.pending = a.pending /\ b.req = q
<1> DEFINE b == Moved(a, s, q)
<1>1. PICK x : x = [a.pipe EXCEPT !.size = s]
  OBVIOUS
<1>2. b = [a EXCEPT !.pipe = x, !.req = q]
  <2>1. b = [a EXCEPT !.pipe = [a.pipe EXCEPT !.size = s], !.req = q]
    BY DEF Moved
  <2> QED
    BY <1>1, <2>1, Zenon
<1>3. x \in PipeRecords /\ x.size = s
  BY <1>1, KernelFields DEF PipeRecords
<1>4. /\ b.proc = a.proc /\ b.sig = a.sig /\ b.pipe = x /\ b.wq = a.wq
      /\ b.pending = a.pending /\ b.req = q /\ b.halted = a.halted /\ IsKernel(b)
  <2>1. IsKernel(a)
    BY KernelFields
  <2> HIDE DEF b
  <2> QED
    BY <1>2, <2>1 DEF IsKernel
<1> HIDE DEF b
<1>5. b \in Kernels
  BY <1>3, <1>4, KernelFields DEF IsKernel, Kernels
<1> QED
  BY <1>1, <1>3, <1>4, <1>5 DEF b

\* A read of n words: what it leaves, and how many words it got.
LEMMA ReadIs ==
  ASSUME NEW a \in Kernels, NEW n \in IoSizes
  PROVE  LET got == piper_read(a, n) IN
         /\ got.z \in Kernels /\ Keeps(a, got.z)
         /\ got.z.wq = a.wq /\ got.z.proc = a.proc /\ got.z.sig = a.sig
         /\ got.done = 0 => Stuck("read", a.pipe.size) /\ got.z.pipe.size = a.pipe.size
                          /\ got.z.pending = a.pending
         /\ Returns(a, got.z, "read")
<1> DEFINE got == piper_read(a, n)
           y == IF a.pipe.size = PIPE_MAX_LENGTH THEN waitqNotify(a) ELSE a
           k == FewerOf(n, a.pipe.size)
           q == IF k = 0 /\ ~a.pipe.writeClosed THEN 1 ELSE y.req
<1>1. /\ y \in Kernels /\ y.pipe = a.pipe /\ y.wq = a.wq /\ y.proc = a.proc
      /\ y.sig = a.sig /\ a.pending <= y.pending
      /\ a.pipe.size = PIPE_MAX_LENGTH /\ WAITQ_PENDING_LENGTH > 0 => y.pending > 0
      /\ a.pipe.size # PIPE_MAX_LENGTH => y = a
  <2>1. a.pending \in 0 .. WAITQ_PENDING_LENGTH
    BY KernelFields
  <2>2. CASE a.pipe.size = PIPE_MAX_LENGTH
    BY <2>2, NotifyIs
  <2>3. CASE a.pipe.size # PIPE_MAX_LENGTH
    BY <2>1, <2>3
  <2> QED
    BY <2>2, <2>3
<1>2. a.pipe.size \in 0 .. PIPE_MAX_LENGTH /\ n \in Nat \ {0}
  BY KernelFields
<1>3. /\ k \in 0 .. a.pipe.size /\ (k = 0 <=> a.pipe.size = 0)
      /\ a.pipe.size - k \in 0 .. PIPE_MAX_LENGTH
  BY <1>2 DEF FewerOf
<1>4. q \in 0 .. 2
  <2>1. y.req \in 0 .. 2
    <3> HIDE DEF y
    <3> QED
      BY <1>1, KernelFields
  <2> QED
    BY <2>1
<1>5. got.done = k /\ got.z = Moved(y, a.pipe.size - k, q)
  <2>1. got = [z |-> [y EXCEPT !.pipe.size = @ - k,
                            !.req = IF k = 0 /\ ~a.pipe.writeClosed THEN 1 ELSE @],
             done |-> k]
    BY DEF piper_read
  <2>2. got.z = [y EXCEPT !.pipe.size = y.pipe.size - k, !.req = q]
    BY <2>1
  <2> QED
    <3> DEFINE x == y
    <3>1. got.z = Moved(x, x.pipe.size - k, q)
      BY <2>2 DEF Moved
    <3> HIDE DEF x, k, q
    <3> QED
      BY <1>1, <2>1, <3>1 DEF x
<1> HIDE DEF y, k, q, got
<1>6. /\ got.z \in Kernels /\ got.z.wq = y.wq /\ got.z.proc = y.proc /\ got.z.sig = y.sig
      /\ got.z.pipe = [y.pipe EXCEPT !.size = a.pipe.size - k]
      /\ got.z.pipe.size = a.pipe.size - k
      /\ got.z.pending = y.pending
  BY <1>1, <1>3, <1>4, <1>5, MovedIs
<1>7. Keeps(a, got.z)
  BY <1>1, <1>6 DEF Keeps
<1>8. ASSUME got.done = 0
      PROVE  /\ Stuck("read", a.pipe.size) /\ got.z.pipe.size = a.pipe.size
             /\ got.z.pending = a.pending
  BY <1>1, <1>2, <1>3, <1>5, <1>6, <1>8 DEF Stuck
<1>9. Returns(a, got.z, "read")
  BY <1>1, <1>2, <1>3, <1>6 DEF Returns, Stuck
<1> QED
  BY <1>1, <1>6, <1>7, <1>8, <1>9 DEF got

\* A write of n words, to a pipe that is read.
LEMMA WriteIs ==
  ASSUME NEW a \in Kernels, NEW n \in IoSizes, ~a.pipe.readClosed
  PROVE  LET got == piper_write(a, n) IN
         /\ got.z \in Kernels /\ Keeps(a, got.z)
         /\ got.z.wq = a.wq /\ got.z.proc = a.proc /\ got.z.sig = a.sig
         /\ got.done = 0 => Stuck("write", a.pipe.size) /\ got.z.pipe.size = a.pipe.size
                          /\ got.z.pending = a.pending
                          /\ got.z.req = 1
         /\ got.done # 0 => Returns(a, got.z, "write")
<1> DEFINE got == piper_write(a, n)
           y == IF a.pipe.size = 0 THEN waitqNotify(a) ELSE a
           k == FewerOf(n, PIPE_MAX_LENGTH - a.pipe.size)
           q == IF k = 0 THEN 1 ELSE y.req
<1>1. /\ y \in Kernels /\ y.pipe = a.pipe /\ y.wq = a.wq /\ y.proc = a.proc
      /\ y.sig = a.sig /\ a.pending <= y.pending
      /\ a.pipe.size = 0 /\ WAITQ_PENDING_LENGTH > 0 => y.pending > 0
      /\ a.pipe.size # 0 => y = a
  <2>1. a.pending \in 0 .. WAITQ_PENDING_LENGTH
    BY KernelFields
  <2>2. CASE a.pipe.size = 0
    BY <2>2, NotifyIs
  <2>3. CASE a.pipe.size # 0
    BY <2>1, <2>3
  <2> QED
    BY <2>2, <2>3
<1>2. a.pipe.size \in 0 .. PIPE_MAX_LENGTH /\ n \in Nat \ {0}
  BY KernelFields
<1>3. /\ k \in 0 .. PIPE_MAX_LENGTH - a.pipe.size
      /\ (k = 0 <=> a.pipe.size = PIPE_MAX_LENGTH)
      /\ a.pipe.size + k \in 0 .. PIPE_MAX_LENGTH
  BY <1>2 DEF FewerOf
<1>4. q \in 0 .. 2
  <2>1. y.req \in 0 .. 2
    <3> HIDE DEF y
    <3> QED
      BY <1>1, KernelFields
  <2> QED
    BY <2>1
<1>5. got.done = k /\ got.z = Moved(y, a.pipe.size + k, q)
  <2>1. got = [z |-> [y EXCEPT !.pipe.size = @ + k, !.req = IF k = 0 THEN 1 ELSE @],
             done |-> k]
    BY DEF piper_write
  <2>2. got.z = [y EXCEPT !.pipe.size = y.pipe.size + k, !.req = q]
    BY <2>1
  <2> QED
    <3> DEFINE x == y
    <3>1. got.z = Moved(x, x.pipe.size + k, q)
      BY <2>2 DEF Moved
    <3> HIDE DEF x, k, q
    <3> QED
      BY <1>1, <2>1, <3>1 DEF x
<1>10. k = 0 => q = 1
  OBVIOUS
<1> HIDE DEF y, k, q, got
<1>6. /\ got.z \in Kernels /\ got.z.wq = y.wq /\ got.z.proc = y.proc /\ got.z.sig = y.sig
      /\ got.z.pipe = [y.pipe EXCEPT !.size = a.pipe.size + k]
      /\ got.z.pipe.size = a.pipe.size + k
      /\ got.z.pending = y.pending /\ got.z.req = q
  BY <1>1, <1>3, <1>4, <1>5, MovedIs
<1>7. Keeps(a, got.z)
  BY <1>1, <1>6 DEF Keeps
<1>8. ASSUME got.done = 0
      PROVE  /\ Stuck("write", a.pipe.size) /\ got.z.pipe.size = a.pipe.size
             /\ got.z.pending = a.pending /\ got.z.req = 1
  BY <1>1, <1>2, <1>3, <1>5, <1>6, <1>8, <1>10 DEF Stuck
<1>9. got.done # 0 => Returns(a, got.z, "write")
  BY <1>1, <1>2, <1>3, <1>5, <1>6 DEF Returns, Stuck
<1> QED
  BY <1>1, <1>6, <1>7, <1>8, <1>9 DEF got

\* A call that blocked after it had moved nothing.
LEMMA BlockOutcome ==
  ASSUME NEW a \in Kernels, NEW c \in Kernels, NEW end \in Ends,
         NEW p \in Holders(end), NEW n \in IoSizes,
         Stuck(end, a.pipe.size), Keeps(a, c), c.pipe.size = a.pipe.size,
         c.wq = a.wq, c.proc = a.proc, c.sig = a.sig, c.pending = a.pending
  PROVE  Outcome(a, Block(c, p, end, n), p, end, n)
<1> DEFINE b == Block(c, p, end, n)
<1>1. GivesUp(c, b, p, end, n)
  BY BlockIs
<1> HIDE DEF b
<1>2. Keeps(a, b)
  BY <1>1 DEF Keeps, GivesUp
<1>3. FindsNoRoom(a, b) \/ Blocks(a, b, p, end, n)
  BY <1>1 DEF FindsNoRoom, Blocks, GivesUp
<1>4. Outcome(a, b, p, end, n)
  BY <1>1, <1>2, <1>3 DEF Outcome, GivesUp
<1> QED
  BY <1>4 DEF b

\* What try_k_read does.
LEMMA ReadOutcome ==
  ASSUME NEW a \in Kernels, NEW p \in Readers, NEW n \in IoSizes
  PROVE  Outcome(a, try_k_read(a, p, n), p, "read", n)
<1> DEFINE got == piper_read(a, n)
<1>1. /\ got.z \in Kernels /\ Keeps(a, got.z)
      /\ got.z.wq = a.wq /\ got.z.proc = a.proc /\ got.z.sig = a.sig
      /\ got.done = 0 => Stuck("read", a.pipe.size) /\ got.z.pipe.size = a.pipe.size
                       /\ got.z.pending = a.pending
      /\ Returns(a, got.z, "read")
  BY ReadIs
<1>2. try_k_read(a, p, n) = IF got.done = 0 /\ got.z.req # 0 THEN Block(got.z, p, "read", n)
                            ELSE got.z
  BY DEF try_k_read
<1> HIDE DEF got
<1>3. CASE got.done = 0 /\ got.z.req # 0
  <2>1. p \in Holders("read")
    BY DEF Holders
  <2> QED
    BY <1>1, <1>2, <1>3, <2>1, BlockOutcome
<1>4. CASE ~(got.done = 0 /\ got.z.req # 0)
  BY <1>1, <1>2, <1>4 DEF Outcome
<1> QED
  BY <1>3, <1>4

\* A write to a pipe that nobody reads any more.
LEMMA SignalOutcome ==
  ASSUME NEW a \in Kernels, NEW p \in Writers, NEW n \in IoSizes, a.pipe.readClosed
  PROVE  Outcome(a, try_k_write(a, p, n), p, "write", n)
<1>1. piper_write(a, n) = [z |-> [a EXCEPT !.req = 2], done |-> 0]
  BY DEF piper_write
<1>2. PICK c : c = [a EXCEPT !.req = 2]
  OBVIOUS
<1>3. IsKernel(a)
  BY KernelFields
<1>4. /\ c.proc = a.proc /\ c.sig = a.sig /\ c.pipe = a.pipe /\ c.wq = a.wq
      /\ c.pending = a.pending /\ c.req = 2 /\ c.halted = a.halted /\ IsKernel(c)
  BY <1>2, <1>3 DEF IsKernel
<1>5. piper_write(a, n).done = 0 /\ piper_write(a, n).z = c
  BY <1>1, <1>2
<1> DEFINE b == try_k_write(a, p, n)
<1>16. PICK wrote : wrote = piper_write(a, n)
  OBVIOUS
<1>17. b = IF wrote.done = 0 /\ wrote.z.req = 1 THEN Block(wrote.z, p, "write", n)
           ELSE IF wrote.done = 0 /\ wrote.z.req = 2
                THEN [wrote.z EXCEPT !.proc[p] = "BLOCKED", !.sig = @ \cup {p}]
                ELSE wrote.z
  BY <1>16 DEF try_k_write
<1>18. wrote.done = 0 /\ wrote.z = c
  BY <1>5, <1>16
<1> HIDE DEF b
<1>19. wrote.done = 0 /\ wrote.z.req = 2
  BY <1>4, <1>18
<1>20. b = [wrote.z EXCEPT !.proc[p] = "BLOCKED", !.sig = @ \cup {p}]
  BY <1>17, <1>19
<1>6. b = [c EXCEPT !.proc[p] = "BLOCKED", !.sig = @ \cup {p}]
  BY <1>18, <1>20
<1>7. PICK t, g : t = [c.proc EXCEPT ![p] = "BLOCKED"] /\ g = c.sig \cup {p}
  OBVIOUS
<1>8. b = [c EXCEPT !.proc = t, !.sig = g]
  BY <1>6, <1>7
<1>9. /\ b.proc = t /\ b.sig = g /\ b.pipe = a.pipe /\ b.wq = a.wq
      /\ b.pending = a.pending /\ b.req = 2 /\ b.halted = a.halted /\ IsKernel(b)
  BY <1>4, <1>8 DEF IsKernel
<1>10. t \in ProcTables /\ t = [a.proc EXCEPT ![p] = "BLOCKED"]
  BY <1>4, <1>7, KernelFields DEF ProcTables
<1>15. g \in SUBSET Procs /\ g = a.sig \cup {p}
  BY <1>4, <1>7, KernelFields
<1>11. b \in Kernels
  BY <1>9, <1>10, <1>15, KernelFields DEF IsKernel, Kernels
<1>12. Keeps(a, b)
  <2>1. PICK x : x = a.pipe
    OBVIOUS
  <2>2. x = [used |-> x.used, size |-> x.size, readClosed |-> x.readClosed,
             writeClosed |-> x.writeClosed]
    BY <2>1, KernelFields
  <2>3. x = [x EXCEPT !.size = x.size]
    BY <2>2
  <2>4. a.pending \in 0 .. WAITQ_PENDING_LENGTH
    BY KernelFields
  <2> QED
    BY <1>9, <2>1, <2>3, <2>4 DEF Keeps
<1>13. Signals(a, b, p, "write")
  BY <1>9, <1>10, <1>15 DEF Signals
<1>14. Outcome(a, b, p, "write", n)
  BY <1>11, <1>12, <1>13 DEF Outcome
<1> QED
  BY <1>14 DEF b

\* What try_k_write does.
LEMMA WriteOutcome ==
  ASSUME NEW a \in Kernels, NEW p \in Writers, NEW n \in IoSizes
  PROVE  Outcome(a, try_k_write(a, p, n), p, "write", n)
<1>1. CASE a.pipe.readClosed
  BY <1>1, SignalOutcome
<1>2. CASE ~a.pipe.readClosed
  <2> DEFINE got == piper_write(a, n)
  <2>1. /\ got.z \in Kernels /\ Keeps(a, got.z)
        /\ got.z.wq = a.wq /\ got.z.proc = a.proc /\ got.z.sig = a.sig
        /\ got.done = 0 => Stuck("write", a.pipe.size) /\ got.z.pipe.size = a.pipe.size
                         /\ got.z.pending = a.pending
                         /\ got.z.req = 1
        /\ got.done # 0 => Returns(a, got.z, "write")
    BY <1>2, WriteIs
  <2>2. try_k_write(a, p, n) =
          IF got.done = 0 /\ got.z.req = 1 THEN Block(got.z, p, "write", n)
          ELSE IF got.done = 0 /\ got.z.req = 2
               THEN [got.z EXCEPT !.proc[p] = "BLOCKED", !.sig = @ \cup {p}]
          ELSE got.z
    BY DEF try_k_write
  <2> HIDE DEF got
  <2>3. CASE got.done = 0
    <3>1. p \in Holders("write")
      BY DEF Holders
    <3>2. try_k_write(a, p, n) = Block(got.z, p, "write", n)
      BY <2>1, <2>2, <2>3
    <3> QED
      BY <2>1, <2>3, <3>1, <3>2, BlockOutcome
  <2>4. CASE got.done # 0
    <3>1. try_k_write(a, p, n) = got.z
      BY <2>2, <2>4
    <3> QED
      BY <2>1, <2>4, <3>1 DEF Outcome
  <2> QED
    BY <2>3, <2>4
<1> QED
  BY <1>1, <1>2

\* What a call does, at either end.
LEMMA TryOutcome ==
  ASSUME NEW a \in Kernels, NEW end \in Ends, NEW p \in Holders(end), NEW n \in IoSizes
  PROVE  Outcome(a, try(a, p, end, n), p, end, n)
<1>1. CASE end = "read"
  BY <1>1, ReadOutcome DEF try, Holders
<1>2. CASE end = "write"
  BY <1>2, WriteOutcome DEF try, Holders
<1> QED
  BY <1>1, <1>2

-----------------------------------------------------------------------------
(* Entries and blocked processes                                           *)

\* Every entry is of a process of its end, which is blocked unless it has a SIGPIPE
\* (sg); a blocked process without one has an entry, and no second one.
Waiters(st, q, sg) ==
  /\ \A i \in Entries : Waiting(q, i) =>
       /\ q[i].pid \in Holders(q[i].end)
       /\ st[q[i].pid] = "BLOCKED" \/ q[i].pid \in sg
  /\ \A p \in Procs \ sg : st[p] = "BLOCKED" => \E i \in Entries : q[i].pid = p
  /\ \A i, j \in Entries : Waiting(q, i) /\ q[i].pid = q[j].pid =>
       i = j \/ q[i].pid \in sg

\* A waiting entry is a record of its fields; a free one is of no process.
LEMMA EntryIs ==
  ASSUME NEW q \in Queues, NEW i \in Entries
  PROVE  /\ Waiting(q, i) => /\ q[i] \in EntryRecords /\ q[i].pid \in Procs
                             /\ q[i].end \in Ends /\ q[i].n \in IoSizes
                             /\ q[i] = Entry(q[i].pid, q[i].end, q[i].n)
         /\ q[i].pid \in Procs => Waiting(q, i)
<1>1. q[i] \in EntryRecords \cup {NoEntry}
  BY DEF Queues
<1>2. CASE q[i] = NoEntry
  BY <1>2 DEF Waiting, NoEntry
<1>3. CASE q[i] \in EntryRecords
  BY <1>3 DEF EntryRecords, Entry, Waiting, NoEntry
<1> QED
  BY <1>1, <1>2, <1>3

\* An entry was served: its process is ready again.
LEMMA WaiterServed ==
  ASSUME NEW st \in ProcTables, NEW q \in Queues, NEW sg, Waiters(st, q, sg),
         NEW i \in Entries, Waiting(q, i)
  PROVE  Waiters([st EXCEPT ![q[i].pid] = "RUN"], [q EXCEPT ![i] = NoEntry], sg)
<1> DEFINE p == q[i].pid
           t == [st EXCEPT ![p] = "RUN"]
           v == [q EXCEPT ![i] = NoEntry]
<1>1. p \in Procs /\ NoEntry.pid \notin Procs
  BY EntryIs DEF NoEntry
<1>2. \A k \in Procs : t[k] = IF k = p THEN "RUN" ELSE st[k]
  BY <1>1 DEF ProcTables
<1>3. \A k \in Entries : v[k] = IF k = i THEN NoEntry ELSE q[k]
  BY DEF Queues
<1>4. ASSUME NEW k \in Entries, Waiting(v, k)
      PROVE  /\ k # i /\ v[k] = q[k] /\ Waiting(q, k) /\ q[k].pid \in Procs
             /\ q[k].pid # p \/ p \in sg
  <2>1. k # i /\ v[k] = q[k] /\ Waiting(q, k)
    BY <1>3, <1>4 DEF Waiting
  <2> QED
    BY <2>1, EntryIs DEF Waiters
<1>5. ASSUME NEW k \in Procs \ sg, t[k] = "BLOCKED" PROVE \E j \in Entries : v[j].pid = k
  <2>1. k # p /\ st[k] = "BLOCKED"
    BY <1>2, <1>5
  <2>2. PICK j \in Entries : q[j].pid = k
    BY <2>1 DEF Waiters
  <2> QED
    BY <1>3, <2>1, <2>2
<1>6. ASSUME NEW j \in Entries, NEW k \in Entries, Waiting(v, j), v[j].pid = v[k].pid
      PROVE  j = k \/ v[j].pid \in sg
  <2>1. v[j] = q[j] /\ Waiting(q, j) /\ q[j].pid \in Procs
    BY <1>4, <1>6
  <2>2. k # i
    BY <1>1, <1>3, <1>6, <2>1
  <2> QED
    BY <1>3, <1>6, <2>1, <2>2 DEF Waiters
<1>7. ASSUME NEW k \in Entries, Waiting(v, k)
      PROVE  /\ v[k].pid \in Holders(v[k].end)
             /\ t[v[k].pid] = "BLOCKED" \/ v[k].pid \in sg
  <2>1. /\ v[k] = q[k] /\ q[k].pid \in Procs /\ (q[k].pid # p \/ p \in sg)
        /\ q[k].pid \in Holders(q[k].end)
        /\ st[q[k].pid] = "BLOCKED" \/ q[k].pid \in sg
    BY <1>4, <1>7 DEF Waiters
  <2> QED
    BY <1>2, <2>1
<1> HIDE DEF t, v
<1>8. Waiters(t, v, sg)
  BY <1>5, <1>6, <1>7 DEF Waiters
<1> QED
  BY <1>8 DEF t, v

\* A process gets a SIGPIPE: what it has in the queue is its own affair.
LEMMA WaiterSignalled ==
  ASSUME NEW st \in ProcTables, NEW q \in Queues, NEW sg, Waiters(st, q, sg), NEW p \in Procs
  PROVE  Waiters([st EXCEPT ![p] = "BLOCKED"], q, sg \cup {p})
<1> DEFINE t == [st EXCEPT ![p] = "BLOCKED"]
<1>1. \A k \in Procs : t[k] = IF k = p THEN "BLOCKED" ELSE st[k]
  BY DEF ProcTables
<1>2. \A i \in Entries : Waiting(q, i) => q[i].pid \in Procs
  BY EntryIs
<1> HIDE DEF t
<1>3. Waiters(t, q, sg \cup {p})
  BY <1>1, <1>2 DEF Waiters
<1> QED
  BY <1>3 DEF t

\* A process that waits nowhere blocks, or one with a SIGPIPE leaves an entry.
LEMMA WaiterJoins ==
  ASSUME NEW st \in ProcTables, NEW q \in Queues, NEW sg, Waiters(st, q, sg),
         NEW end \in Ends, NEW p \in Holders(end), NEW n \in IoSizes,
         st[p] = "RUN" \/ p \in sg, NEW j \in FreeEntries(q)
  PROVE  Waiters([st EXCEPT ![p] = "BLOCKED"], [q EXCEPT ![j] = Entry(p, end, n)], sg)
<1> DEFINE t == [st EXCEPT ![p] = "BLOCKED"]
           e == Entry(p, end, n)
           v == [q EXCEPT ![j] = e]
<1>0. p \in Procs /\ j \in Entries /\ ~Waiting(q, j)
  BY DEF Holders, FreeEntries
<1>1. \A k \in Procs : t[k] = IF k = p THEN "BLOCKED" ELSE st[k]
  BY <1>0 DEF ProcTables
<1>2. e.pid = p /\ e.end = end
  BY DEF Entry
<1> HIDE DEF e
<1>3. \A k \in Entries : v[k] = IF k = j THEN e ELSE q[k]
  BY <1>0 DEF Queues
<1>4. ASSUME NEW k \in Entries, k # j, Waiting(v, k)
      PROVE  /\ v[k] = q[k] /\ Waiting(q, k) /\ q[k].pid \in Procs
             /\ q[k].pid # p \/ p \in sg
  <2>1. v[k] = q[k] /\ Waiting(q, k)
    BY <1>3, <1>4 DEF Waiting
  <2> QED
    BY <2>1, EntryIs DEF Waiters
<1>5. ASSUME NEW k \in Procs \ sg, t[k] = "BLOCKED" PROVE \E i \in Entries : v[i].pid = k
  <2>1. CASE k = p
    BY <1>0, <1>2, <1>3, <2>1
  <2>2. CASE k # p
    <3>1. st[k] = "BLOCKED"
      BY <1>1, <1>5, <2>2
    <3>2. PICK i \in Entries : q[i].pid = k
      BY <3>1 DEF Waiters
    <3>3. Waiting(q, i)
      BY <3>2, EntryIs
    <3> QED
      BY <1>0, <1>3, <3>2, <3>3
  <2> QED
    BY <2>1, <2>2
<1>6. ASSUME NEW i \in Entries, NEW k \in Entries, Waiting(v, i), v[i].pid = v[k].pid,
             v[i].pid \notin sg
      PROVE  i = k
  <2>1. CASE i # j
    <3>1. v[i] = q[i] /\ Waiting(q, i) /\ q[i].pid \in Procs /\ q[i].pid # p
      BY <1>3, <1>4, <1>6, <2>1
    <3>2. k # j
      BY <1>0, <1>2, <1>3, <1>6, <3>1
    <3> QED
      BY <1>3, <1>6, <3>1, <3>2 DEF Waiters
  <2>2. CASE i = j /\ k # j
    <3>1. q[k].pid = p
      BY <1>0, <1>2, <1>3, <1>6, <2>2
    <3>2. Waiting(q, k)
      BY <1>0, <3>1, EntryIs
    <3>3. p \notin sg
      BY <1>2, <1>3, <1>6, <2>2
    <3> QED
      BY <3>1, <3>2, <3>3 DEF Waiters
  <2> QED
    BY <2>1, <2>2
<1>7. ASSUME NEW k \in Entries, Waiting(v, k)
      PROVE  /\ v[k].pid \in Holders(v[k].end)
             /\ t[v[k].pid] = "BLOCKED" \/ v[k].pid \in sg
  <2>1. CASE k = j
    BY <1>0, <1>1, <1>2, <1>3, <2>1
  <2>2. CASE k # j
    BY <1>1, <1>4, <1>7, <2>2 DEF Waiters
  <2> QED
    BY <2>1, <2>2
<1> HIDE DEF t, v
<1>8. Waiters(t, v, sg)
  BY <1>5, <1>6, <1>7 DEF Waiters
<1> QED
  BY <1>8 DEF t, v, e

-----------------------------------------------------------------------------
(* The worker repeats a call                                               *)

\* From z, entry i was served: the waiter was made ready in a, its call left b,
\* and the entry was cleared in y.
Retried(z, a, b, y, i) ==
  LET e == z.wq[i] IN
  /\ a \in Kernels /\ a.proc = [z.proc EXCEPT ![e.pid] = "RUN"]
  /\ a.sig = z.sig /\ a.pipe = z.pipe /\ a.wq = z.wq /\ a.pending = z.pending
  /\ Outcome(a, b, e.pid, e.end, e.n)
  /\ y \in Kernels /\ y.wq = [b.wq EXCEPT ![i] = NoEntry]
  /\ y.proc = b.proc /\ y.sig = b.sig /\ y.pipe = b.pipe /\ y.pending = b.pending
  /\ y.halted = b.halted

LEMMA RetryIs ==
  ASSUME NEW z \in Kernels, z.halted = "no", Waiters(z.proc, z.wq, z.sig),
         NEW i \in Entries \ stale, Waiting(z.wq, i)
  PROVE  \E a, b : Retried(z, a, b, processWaitQEntry(z, i), i)
<1> DEFINE e == z.wq[i]
           y == processWaitQEntry(z, i)
<1>1. /\ e.pid \in Procs /\ e.end \in Ends /\ e.n \in IoSizes
      /\ e.pid \in Holders(e.end)
  BY KernelFields, EntryIs DEF Waiters
<1>2. PICK t : t = [z.proc EXCEPT ![e.pid] = "RUN"]
  OBVIOUS
<1>3. PICK a : a = [z EXCEPT !.proc = t]
  OBVIOUS
<1>4. PICK b : b = try(a, e.pid, e.end, e.n)
  OBVIOUS
<1>5. y = [b EXCEPT !.wq[i] = NoEntry]
  <2>1. a = [z EXCEPT !.proc[e.pid] = "RUN"]
    BY <1>2, <1>3
  <2> QED
    BY <1>4, <2>1 DEF processWaitQEntry
<1>6. IsKernel(z)
  BY KernelFields
<1> HIDE DEF e, y
<1>7. /\ a.proc = t /\ a.sig = z.sig /\ a.pipe = z.pipe /\ a.wq = z.wq
      /\ a.pending = z.pending /\ a.req = z.req /\ a.halted = z.halted /\ IsKernel(a)
  BY <1>3, <1>6 DEF IsKernel
<1>8. t \in ProcTables
  BY <1>1, <1>2, KernelFields DEF ProcTables
<1>9. a \in Kernels
  BY <1>7, <1>8, KernelFields DEF IsKernel, Kernels
<1>10. Outcome(a, b, e.pid, e.end, e.n)
  BY <1>1, <1>4, <1>9, TryOutcome
<1>11. b \in Kernels
  BY <1>10 DEF Outcome
<1>12. PICK v : v = [b.wq EXCEPT ![i] = NoEntry]
  OBVIOUS
<1>13. y = [b EXCEPT !.wq = v]
  BY <1>5, <1>12
<1>14. IsKernel(b) /\ b.wq \in Queues
  BY <1>11, KernelFields
<1>15. /\ y.proc = b.proc /\ y.sig = b.sig /\ y.pipe = b.pipe /\ y.wq = v
       /\ y.pending = b.pending /\ y.req = b.req /\ y.halted = b.halted /\ IsKernel(y)
  BY <1>13, <1>14 DEF IsKernel
<1>16. v \in Queues
  BY <1>12, <1>14 DEF Queues
<1>17. y \in Kernels
  BY <1>11, <1>15, <1>16, KernelFields DEF IsKernel, Kernels
<1>18. Retried(z, a, b, y, i)
  BY <1>2, <1>7, <1>9, <1>10, <1>12, <1>15, <1>17 DEF Retried, e
<1> QED
  BY <1>18 DEF y

\* An entry that does not wait is passed over.
LEMMA PassedOver ==
  ASSUME NEW z, NEW i, z.halted # "no" \/ ~Waiting(z.wq, i)
  PROVE  processWaitQEntry(z, i) = z
BY DEF processWaitQEntry

\* One whose FILE was freed stops the model.
LEMMA StaleIs ==
  ASSUME NEW z \in Kernels, z.halted = "no", NEW i \in stale, Waiting(z.wq, i)
  PROVE  LET y == processWaitQEntry(z, i) IN
         /\ y \in Kernels /\ y.proc = z.proc /\ y.sig = z.sig /\ y.pipe = z.pipe
         /\ y.wq = z.wq /\ y.pending = z.pending /\ y.halted = "freed"
<1> DEFINE y == processWaitQEntry(z, i)
<1>1. y = [z EXCEPT !.halted = "freed"] /\ IsKernel(z)
  BY KernelFields DEF processWaitQEntry
<1> HIDE DEF y
<1>2. /\ y.proc = z.proc /\ y.sig = z.sig /\ y.pipe = z.pipe /\ y.wq = z.wq
      /\ y.pending = z.pending /\ y.req = z.req /\ y.halted = "freed" /\ IsKernel(y)
  BY <1>1 DEF IsKernel
<1>3. y \in Kernels
  BY <1>2, KernelFields DEF IsKernel, Kernels
<1> QED
  BY <1>2, <1>3 DEF y

\* A call that is repeated keeps entries and blocked processes together.
LEMMA RetryKeepsWaiters ==
  ASSUME NEW z \in Kernels, NEW a, NEW b, NEW y, NEW i \in Entries,
         Waiters(z.proc, z.wq, z.sig), Waiting(z.wq, i), Retried(z, a, b, y, i)
  PROVE  Waiters(y.proc, y.wq, y.sig)
<1> DEFINE e == z.wq[i]
           p == e.pid
           t == [z.proc EXCEPT ![p] = "RUN"]
           v == [z.wq EXCEPT ![i] = NoEntry]
           sg == z.sig
<1>2. z.proc \in ProcTables /\ z.wq \in Queues
  BY KernelFields
<1>1. /\ e \in EntryRecords /\ p \in Procs /\ e.end \in Ends /\ e.n \in IoSizes
      /\ p \in Holders(e.end) /\ e = Entry(p, e.end, e.n)
  <2>1. /\ e \in EntryRecords /\ p \in Procs /\ e.end \in Ends /\ e.n \in IoSizes
        /\ e = Entry(p, e.end, e.n)
    BY <1>2, EntryIs
  <2>2. p \in Holders(e.end)
    BY DEF Waiters
  <2> QED
    BY <2>1, <2>2
<1>3. t \in ProcTables /\ v \in Queues /\ t[p] = "RUN"
  BY <1>1, <1>2 DEF ProcTables, Queues
<1>4. Waiters(t, v, sg)
  BY <1>2, WaiterServed
<1>5. /\ a.proc = t /\ a.wq = z.wq /\ a.sig = sg
      /\ y.proc = b.proc /\ y.sig = b.sig /\ y.wq = [b.wq EXCEPT ![i] = NoEntry]
      /\ \/ Returns(a, b, e.end) \/ Signals(a, b, p, e.end)
         \/ FindsNoRoom(a, b) \/ Blocks(a, b, p, e.end, e.n)
  BY DEF Retried, Outcome
<1>6. CASE Returns(a, b, e.end) \/ FindsNoRoom(a, b)
  <2>1. y.proc = t /\ y.wq = v /\ y.sig = sg
    BY <1>5, <1>6 DEF Returns, FindsNoRoom
  <2> QED
    BY <1>4, <2>1
<1>7. CASE Signals(a, b, p, e.end)
  <2>1. y.proc = [t EXCEPT ![p] = "BLOCKED"] /\ y.wq = v /\ y.sig = sg \cup {p}
    BY <1>5, <1>7 DEF Signals
  <2>2. Waiters([t EXCEPT ![p] = "BLOCKED"], v, sg \cup {p})
    <3> HIDE DEF t, v, p, sg
    <3> QED
      BY <1>1, <1>3, <1>4, WaiterSignalled
  <2> HIDE DEF t, v, p, sg
  <2> QED
    BY <2>1, <2>2
<1>8. CASE Blocks(a, b, p, e.end, e.n)
  <2>1. PICK j : j = Lowest(FreeEntries(z.wq))
    OBVIOUS
  <2>2. /\ FreeEntries(z.wq) # {} /\ b.wq = waitqAddEntry(z.wq, e)
        /\ y.proc = [t EXCEPT ![p] = "BLOCKED"] /\ y.sig = sg
    BY <1>1, <1>5, <1>8 DEF Blocks
  <2>3. b.wq = [z.wq EXCEPT ![j] = e] /\ j \in FreeEntries(z.wq)
    BY <1>1, <1>2, <2>1, <2>2, EntryAdded
  <2>4. j \in Entries /\ j # i /\ j \in FreeEntries(v)
    BY <1>2, <2>3 DEF FreeEntries, Waiting, Queues
  <2>5. y.wq = [v EXCEPT ![j] = e]
    BY <1>2, <1>5, <2>3, <2>4 DEF Queues
  <2> HIDE DEF t, v, p, e, sg
  <2>6. Waiters([t EXCEPT ![p] = "BLOCKED"], [v EXCEPT ![j] = Entry(p, e.end, e.n)], sg)
    BY <1>1, <1>3, <1>4, <2>4, WaiterJoins
  <2> QED
    BY <1>1, <2>2, <2>5, <2>6
<1> QED
  BY <1>5, <1>6, <1>7, <1>8

-----------------------------------------------------------------------------
(* The pipe and the wait queue stay in step                                *)

Good(z) == z \in Kernels /\ Waiters(z.proc, z.wq, z.sig)

\* The inductive invariant.
Sound ==
  /\ proc \in ProcTables /\ signalled \in SUBSET Procs
  /\ pipe \in PipeRecords /\ waitq \in Queues
  /\ pending \in 0 .. WAITQ_PENDING_LENGTH /\ blockRequest \in 0 .. 2
  /\ halted \in {"no", "panic", "freed"}
  /\ open \subseteq Ends /\ stale \subseteq Entries
  /\ Waiters(proc, waitq, signalled)

\* It is about the kernel a call works on, and about the one it leaves.
LEMMA SoundKernel ==
  ASSUME Sound
  PROVE  /\ Good(Kernel) /\ IsKernel(Kernel)
         /\ Kernel.proc = proc /\ Kernel.sig = signalled /\ Kernel.pipe = pipe
         /\ Kernel.wq = waitq /\ Kernel.pending = pending
         /\ Kernel.req = blockRequest /\ Kernel.halted = halted
BY DEF Sound, Good, Kernel, Kernels, IsKernel

LEMMA SoundBecomes ==
  ASSUME NEW z, Good(z), Becomes(z), open' \subseteq Ends, stale' \subseteq Entries
  PROVE  Sound'
<1>1. z \in Kernels /\ Waiters(z.proc, z.wq, z.sig)
  BY DEF Good
<1>2. /\ proc' \in ProcTables /\ signalled' \in SUBSET Procs
      /\ pipe' \in PipeRecords /\ waitq' \in Queues
      /\ pending' \in 0 .. WAITQ_PENDING_LENGTH /\ blockRequest' \in 0 .. 2
      /\ halted' \in {"no", "panic", "freed"}
  BY <1>1, KernelFields DEF Becomes
<1>3. Waiters(proc', waitq', signalled')
  BY <1>1 DEF Becomes
<1> QED
  BY <1>2, <1>3 DEF Sound, Waiters, Waiting, Holders, NoEntry

\* A call leaves everything in step.
LEMMA CallSound ==
  ASSUME Sound, NEW end \in Ends, NEW p \in Holders(end), NEW n \in IoSizes, Runs(p)
  PROVE  Good(try(Kernel, p, end, n))
<1> DEFINE b == try(Kernel, p, end, n)
<1>1. PICK a : a = Kernel
  OBVIOUS
<1>2. a \in Kernels /\ a.proc = proc /\ a.wq = waitq /\ a.sig = signalled
  BY <1>1, SoundKernel DEF Good
<1>3. /\ p \in Procs /\ proc \in ProcTables /\ waitq \in Queues
      /\ Waiters(proc, waitq, signalled) /\ (proc[p] = "RUN" \/ p \in signalled)
  BY DEF Holders, Sound, Runs
<1>4. Outcome(a, b, p, end, n)
  BY <1>1, <1>2, TryOutcome
<1> HIDE DEF b
<1>5. /\ b \in Kernels
      /\ \/ Returns(a, b, end) \/ Signals(a, b, p, end)
         \/ FindsNoRoom(a, b) \/ Blocks(a, b, p, end, n)
  BY <1>4 DEF Outcome
<1>6. Waiters(b.proc, b.wq, b.sig)
  <2>1. CASE Returns(a, b, end) \/ FindsNoRoom(a, b)
    <3>1. b.proc = proc /\ b.wq = waitq /\ b.sig = signalled
      BY <1>2, <2>1 DEF Returns, FindsNoRoom
    <3> QED
      BY <1>3, <3>1, Zenon
  <2>2. CASE Signals(a, b, p, end)
    <3>1. /\ b.proc = [proc EXCEPT ![p] = "BLOCKED"] /\ b.wq = waitq
          /\ b.sig = signalled \cup {p}
      BY <1>2, <2>2 DEF Signals
    <3> QED
      BY <1>3, <3>1, WaiterSignalled
  <2>3. CASE Blocks(a, b, p, end, n)
    <3>1. PICK j : j = Lowest(FreeEntries(waitq))
      OBVIOUS
    <3>2. /\ FreeEntries(waitq) # {} /\ b.wq = waitqAddEntry(waitq, Entry(p, end, n))
          /\ b.proc = [proc EXCEPT ![p] = "BLOCKED"] /\ b.sig = signalled
      BY <1>2, <2>3 DEF Blocks
    <3>3. Entry(p, end, n) \in EntryRecords
      BY <1>3 DEF Entry, EntryRecords
    <3>4. b.wq = [waitq EXCEPT ![j] = Entry(p, end, n)] /\ j \in FreeEntries(waitq)
      BY <1>3, <3>1, <3>2, <3>3, EntryAdded
    <3>5. Waiters([proc EXCEPT ![p] = "BLOCKED"], [waitq EXCEPT ![j] = Entry(p, end, n)],
                  signalled)
      BY <1>3, <3>4, WaiterJoins
    <3> QED
      BY <3>2, <3>4, <3>5, Zenon
  <2> QED
    BY <1>5, <2>1, <2>2, <2>3
<1> QED
  BY <1>5, <1>6 DEF Good, b

\* So does an entry of the pass.
LEMMA EntrySound ==
  ASSUME NEW z, Good(z), NEW i \in Entries
  PROVE  Good(processWaitQEntry(z, i))
<1>1. z \in Kernels /\ Waiters(z.proc, z.wq, z.sig)
  BY DEF Good
<1> DEFINE y == processWaitQEntry(z, i)
<1>2. CASE z.halted # "no" \/ ~Waiting(z.wq, i)
  BY <1>2, PassedOver
<1>3. CASE z.halted = "no" /\ Waiting(z.wq, i) /\ i \in stale
  <2>1. y \in Kernels /\ y.proc = z.proc /\ y.wq = z.wq /\ y.sig = z.sig
    BY <1>1, <1>3, StaleIs
  <2> HIDE DEF y
  <2> QED
    BY <1>1, <2>1 DEF Good, y
<1>4. CASE z.halted = "no" /\ Waiting(z.wq, i) /\ i \notin stale
  <2>1. PICK a, b : Retried(z, a, b, y, i)
    BY <1>1, <1>4, RetryIs
  <2> HIDE DEF y
  <2>2. Waiters(y.proc, y.wq, y.sig)
    BY <1>1, <1>4, <2>1, RetryKeepsWaiters
  <2> QED
    BY <2>1, <2>2 DEF Good, Retried, y
<1> QED
  BY <1>2, <1>3, <1>4

\* And the pass from its start to its end.
LEMMA StartIs ==
  ASSUME Sound
  PROVE  /\ Good(Start) /\ Start.proc = proc /\ Start.sig = signalled
         /\ Start.pipe = pipe /\ Start.wq = waitq
         /\ Start.pending = 0 /\ Start.halted = halted
<1>1. PICK a : a = Kernel
  OBVIOUS
<1>2. /\ IsKernel(a) /\ a \in Kernels /\ Waiters(a.proc, a.wq, a.sig)
      /\ a.proc = proc /\ a.sig = signalled /\ a.pipe = pipe /\ a.wq = waitq
      /\ a.halted = halted
  BY <1>1, SoundKernel DEF Good
<1>3. PICK b : b = [a EXCEPT !.pending = 0]
  OBVIOUS
<1>4. /\ b.proc = a.proc /\ b.sig = a.sig /\ b.pipe = a.pipe /\ b.wq = a.wq
      /\ b.pending = 0 /\ b.req = a.req /\ b.halted = a.halted /\ IsKernel(b)
  BY <1>2, <1>3 DEF IsKernel
<1>5. b \in Kernels
  BY <1>2, <1>4, KernelFields DEF IsKernel, Kernels
<1>6. Start = b
  BY <1>1, <1>3, Zenon DEF Start
<1> QED
  BY <1>2, <1>4, <1>5, <1>6 DEF Good

LEMMA PassSound ==
  ASSUME Sound
  PROVE  \A i \in 0 .. WAITQ_LENGTH : \A z \in served[i] : Good(z)
<1> DEFINE G == {i \in 0 .. WAITQ_LENGTH : \A z \in served[i] : Good(z)}
<1>1. 0 \in G
  BY ServedStep, StartIs
<1>2. ASSUME NEW i \in 0 .. WAITQ_LENGTH - 1, i \in G PROVE i + 1 \in G
  <2>1. served[i + 1] = Pass(served[i], i) /\ i \in Entries
    BY ServedStep
  <2>2. \A z \in Pass(served[i], i) : Good(z)
    BY <1>2, <2>1, EntrySound DEF Pass
  <2> QED
    BY <2>1, <2>2
<1> HIDE DEF G
<1>3. \A i \in 0 .. WAITQ_LENGTH : i \in G
  BY <1>1, <1>2, LoopEnds
<1> QED
  BY <1>3 DEF G

\* A pass takes the notifications off.
PassEnd(z) == [z EXCEPT !.pending = 0]

LEMMA PassEndIs ==
  ASSUME NEW z, Good(z)
  PROVE  /\ Good(PassEnd(z)) /\ PassEnd(z).proc = z.proc /\ PassEnd(z).sig = z.sig
         /\ PassEnd(z).pipe = z.pipe /\ PassEnd(z).wq = z.wq
         /\ PassEnd(z).pending = 0 /\ PassEnd(z).halted = z.halted
<1>1. PICK b : b = PassEnd(z)
  OBVIOUS
<1>2. z \in Kernels /\ Waiters(z.proc, z.wq, z.sig) /\ IsKernel(z)
  BY KernelFields DEF Good
<1>3. /\ b.proc = z.proc /\ b.sig = z.sig /\ b.pipe = z.pipe /\ b.wq = z.wq
      /\ b.pending = 0 /\ b.req = z.req /\ b.halted = z.halted /\ IsKernel(b)
  BY <1>1, <1>2 DEF IsKernel, PassEnd
<1>4. b \in Kernels
  BY <1>2, <1>3, KernelFields DEF IsKernel, Kernels
<1> QED
  BY <1>1, <1>2, <1>3, <1>4 DEF Good

\* Opening and closing leave the processes and their entries alone.
LEMMA EndsSound ==
  ASSUME Sound, NEW end \in Ends, k_open(end) \/ piper_close(end)
  PROVE  Sound'
<1>1. /\ proc' = proc /\ signalled' = signalled /\ waitq' = waitq /\ pending' = pending
      /\ blockRequest' = blockRequest /\ halted' = halted
      /\ open' \subseteq Ends /\ stale' \subseteq Entries
  BY DEF k_open, piper_close, Sound, EntriesAt
<1>2. pipe' \in PipeRecords
  <2>1. pipe \in PipeRecords
    BY DEF Sound
  <2>2. CASE k_open(end)
    <3>1. pipe' = [pipe EXCEPT !.used = TRUE]
      BY <2>2 DEF k_open
    <3> QED
      BY <2>1, <3>1 DEF PipeRecords
  <2>3. CASE piper_close(end)
    <3>1. PICK c : c = IF end = "read" THEN [pipe EXCEPT !.readClosed = TRUE]
                       ELSE [pipe EXCEPT !.writeClosed = TRUE]
      OBVIOUS
    <3>2. c \in PipeRecords
      BY <2>1, <3>1 DEF PipeRecords
    <3>3. pipe' = IF c.readClosed /\ c.writeClosed THEN Fresh ELSE c
      BY <2>3, <3>1 DEF piper_close
    <3> QED
      BY <3>2, <3>3 DEF Fresh, PipeRecords
  <2> QED
    BY <2>2, <2>3
<1> QED
  BY <1>1, <1>2 DEF Sound, Waiters, Waiting, Holders, NoEntry

LEMMA SoundStep == Sound /\ [Next]_vars => Sound'
<1> SUFFICES ASSUME Sound, [Next]_vars PROVE Sound'
  OBVIOUS
<1>1. ASSUME NEW p \in Procs, NEW n \in IoSizes, sys_read(p, n) PROVE Sound'
  <2>1. PICK z : z = try(Kernel, p, "read", n) /\ Becomes(z)
    BY <1>1 DEF sys_read, try
  <2>2. p \in Holders("read") /\ Runs(p) /\ open' = open /\ stale' = stale
    BY <1>1 DEF sys_read, Holders
  <2>3. Good(z)
    BY <2>1, <2>2, CallSound
  <2> QED
    BY <2>1, <2>2, <2>3, SoundBecomes DEF Sound
<1>2. ASSUME NEW p \in Procs, NEW n \in IoSizes, sys_write(p, n) PROVE Sound'
  <2>1. PICK z : z = try(Kernel, p, "write", n) /\ Becomes(z)
    BY <1>2 DEF sys_write, try
  <2>2. p \in Holders("write") /\ Runs(p) /\ open' = open /\ stale' = stale
    BY <1>2 DEF sys_write, Holders
  <2>3. Good(z)
    BY <2>1, <2>2, CallSound
  <2> QED
    BY <2>1, <2>2, <2>3, SoundBecomes DEF Sound
<1>3. ASSUME NEW end \in Ends, k_open(end) \/ piper_close(end) PROVE Sound'
  BY <1>3, EndsSound
<1>4. CASE processWaiting
  <2>1. PICK z \in served[WAITQ_LENGTH] : Becomes(PassEnd(z))
    BY <1>4 DEF processWaiting, PassEnd
  <2>2. Good(PassEnd(z))
    BY <2>1, PassSound, PassEndIs
  <2>3. open' = open /\ stale' = stale
    BY <1>4 DEF processWaiting
  <2> QED
    BY <2>1, <2>2, <2>3, SoundBecomes DEF Sound
<1>5. CASE Idle \/ UNCHANGED vars
  BY <1>5 DEF Idle, vars, Sound, Waiters, Waiting, Holders, NoEntry
<1> QED
  BY <1>1, <1>2, <1>3, <1>4, <1>5 DEF Next

LEMMA SoundInit == Init => Sound
<1> SUFFICES ASSUME Init PROVE Sound
  OBVIOUS
<1>1. proc \in ProcTables /\ pipe \in PipeRecords /\ waitq \in Queues
  BY DEF Init, ProcTables, PipeRecords, Fresh, Queues, waitq_init
<1>2. Waiters(proc, waitq, signalled)
  BY DEF Init, Waiters, Waiting, waitq_init
<1> QED
  BY <1>1, <1>2 DEF Init, Sound

\* What the invariant says of each process.
LEMMA SoundMeans == Sound => PipesInv
<1> SUFFICES ASSUME Sound PROVE PipesInv
  OBVIOUS
<1>1. PipesTypeOK
  BY EntryIs DEF Sound, PipesTypeOK, ProcTables, PipeRecords, EntryRecords
<1>2. ASSUME NEW p \in Procs \ signalled, proc[p] = "BLOCKED" PROVE \E end \in Ends : Blocked(p, end)
  <2>1. PICK i \in Entries : waitq[i].pid = p
    BY <1>2 DEF Sound, Waiters
  <2>2. waitq[i] \in EntryRecords /\ waitq[i].end \in Ends
    BY <2>1, EntryIs DEF Sound
  <2>3. Blocked(p, waitq[i].end)
    BY <2>1, <2>2 DEF Blocked, EntryRecords
  <2> QED
    BY <2>2, <2>3
<1>3. ASSUME NEW p \in Procs \ signalled, NEW end \in Ends, Blocked(p, end)
      PROVE  proc[p] = "BLOCKED"
  <2>1. PICK i \in Entries : waitq[i].pid = p
    BY <1>3 DEF Blocked
  <2> QED
    BY <2>1, EntryIs DEF Sound, Waiters
<1>4. WaitersBlocked
  BY <1>2, <1>3 DEF WaitersBlocked, Sound, Waiters
<1> QED
  BY <1>1, <1>4 DEF PipesInv

\* Whatever the readers and writers do, the pipe, the wait queue and the
\* processes stay in step.
THEOREM PipesSound == Spec => []PipesInv
BY SoundInit, SoundStep, SoundMeans, PTL DEF Spec

-----------------------------------------------------------------------------
(* A free pipe is as new, unless an end is opened again after its close    *)

\* The kernel z has the flags of the pipe, which nobody changes while it is
\* free, and only calls on open ends wait, but for those that processes with a
\* SIGPIPE left behind when they closed their end.
Owned(z) ==
  /\ z.pipe = [pipe EXCEPT !.size = z.pipe.size]
  /\ pipe.used \/ z.pipe = pipe
  /\ \A i \in Entries : Waiting(z.wq, i) => i \in stale \/ z.wq[i].end \in open
  /\ \A i \in stale : Waiting(z.wq, i) /\ z.wq[i].pid \in z.sig

Ownership ==
  /\ FreeIsFresh
  /\ \A end \in open : pipe.used /\ ~ClosedEnd(end)
  /\ \A i \in Entries : Waiting(waitq, i) => i \in stale \/ waitq[i].end \in open
  /\ \A i \in stale : Waiting(waitq, i) /\ waitq[i].pid \in signalled

\* From z to y entry i was served, and may be in another place now.
OnlyMoves(z, y, i) ==
  /\ y.pipe = [z.pipe EXCEPT !.size = y.pipe.size]
  /\ z.sig \subseteq y.sig
  /\ \A k \in Entries : Waiting(y.wq, k) =>
       y.wq[k] = z.wq[i] \/ (Waiting(z.wq, k) /\ y.wq[k] = z.wq[k])
  /\ \A k \in Entries \ {i} : Waiting(z.wq, k) => y.wq[k] = z.wq[k]

\* A repeated call moves the words and the entry, nothing else.
LEMMA RetryOwned ==
  ASSUME NEW z \in Kernels, NEW a, NEW b, NEW y, NEW i \in Entries,
         Waiting(z.wq, i), Retried(z, a, b, y, i)
  PROVE  OnlyMoves(z, y, i)
<1> DEFINE e == z.wq[i]
<1>1. /\ z.wq \in Queues /\ e \in EntryRecords /\ e = Entry(e.pid, e.end, e.n)
  BY KernelFields, EntryIs
<1>2. /\ a.wq = z.wq /\ a.pipe = z.pipe /\ y.pipe = b.pipe /\ b \in Kernels
      /\ y.wq = [b.wq EXCEPT ![i] = NoEntry] /\ Keeps(a, b)
      /\ a.sig = z.sig /\ y.sig = b.sig
      /\ \/ Returns(a, b, e.end) \/ Signals(a, b, e.pid, e.end)
         \/ FindsNoRoom(a, b) \/ Blocks(a, b, e.pid, e.end, e.n)
  BY DEF Retried, Outcome
<1>3. y.pipe = [z.pipe EXCEPT !.size = y.pipe.size]
  BY <1>2 DEF Keeps
<1>8. z.sig \subseteq y.sig
  BY <1>2 DEF Returns, Signals, FindsNoRoom, Blocks
<1>4. \A k \in Entries : b.wq[k] = z.wq[k] \/ (b.wq[k] = e /\ ~Waiting(z.wq, k))
  <2>1. CASE b.wq = z.wq
    BY <2>1
  <2>2. CASE Blocks(a, b, e.pid, e.end, e.n)
    <3>1. FreeEntries(z.wq) # {} /\ b.wq = waitqAddEntry(z.wq, e)
      BY <1>1, <1>2, <2>2 DEF Blocks
    <3>2. PICK x : x = Lowest(FreeEntries(z.wq))
      OBVIOUS
    <3>3. b.wq = [z.wq EXCEPT ![x] = e] /\ x \in FreeEntries(z.wq)
      BY <1>1, <3>1, <3>2, EntryAdded
    <3>4. \A k \in Entries : b.wq[k] = IF k = x THEN e ELSE z.wq[k]
      BY <1>1, <3>3 DEF Queues
    <3> QED
      BY <3>3, <3>4 DEF FreeEntries
  <2> QED
    BY <1>2, <2>1, <2>2 DEF Returns, Signals, FindsNoRoom
<1>5. b.wq \in Queues
  BY <1>2, KernelFields
<1>6. \A k \in Entries : y.wq[k] = IF k = i THEN NoEntry ELSE b.wq[k]
  BY <1>2, <1>5 DEF Queues
<1>7. ASSUME NEW k \in Entries, Waiting(y.wq, k)
      PROVE  y.wq[k] = e \/ (Waiting(z.wq, k) /\ y.wq[k] = z.wq[k])
  BY <1>4, <1>6, <1>7 DEF Waiting
<1>9. ASSUME NEW k \in Entries \ {i}, Waiting(z.wq, k) PROVE y.wq[k] = z.wq[k]
  BY <1>4, <1>6, <1>9
<1> QED
  BY <1>3, <1>7, <1>8, <1>9 DEF OnlyMoves

LEMMA EntryOwned ==
  ASSUME Sound, NEW z, Good(z), Owned(z), Ownership, NEW i \in Entries
  PROVE  Owned(processWaitQEntry(z, i))
<1>1. z \in Kernels /\ Waiters(z.proc, z.wq, z.sig) /\ stale \subseteq Entries
  BY DEF Good, Sound
<1> DEFINE y == processWaitQEntry(z, i)
<1>2. CASE z.halted # "no" \/ ~Waiting(z.wq, i)
  BY <1>2, PassedOver
<1>3. CASE z.halted = "no" /\ Waiting(z.wq, i) /\ i \in stale
  <2>1. y.pipe = z.pipe /\ y.wq = z.wq /\ y.sig = z.sig
    BY <1>1, <1>3, StaleIs
  <2> HIDE DEF y
  <2> QED
    BY <2>1 DEF Owned, y
<1>4. CASE z.halted = "no" /\ Waiting(z.wq, i) /\ i \notin stale
  <2>1. PICK a, b : Retried(z, a, b, y, i)
    BY <1>1, <1>4, RetryIs
  <2> HIDE DEF y
  <2>2. OnlyMoves(z, y, i)
    BY <1>1, <1>4, <2>1, RetryOwned
  <2>3. z.wq[i].end \in open /\ pipe.used
    BY <1>4 DEF Owned, Ownership
  <2>4. PICK x, s : x = pipe /\ s = y.pipe.size
    OBVIOUS
  <2>5. x \in PipeRecords /\ z.pipe = [x EXCEPT !.size = z.pipe.size]
    BY <2>4 DEF Sound, Owned
  <2>6. y.pipe = [x EXCEPT !.size = s]
    <3>1. PICK v : v = z.pipe.size
      OBVIOUS
    <3>2. y.pipe = [[x EXCEPT !.size = v] EXCEPT !.size = s]
      BY <2>2, <2>4, <2>5, <3>1 DEF OnlyMoves
    <3> QED
      BY <2>5, <3>2 DEF PipeRecords
  <2>7. \A k \in Entries : Waiting(y.wq, k) => k \in stale \/ y.wq[k].end \in open
    BY <2>2, <2>3 DEF Owned, OnlyMoves
  <2>8. \A k \in stale : Waiting(y.wq, k) /\ y.wq[k].pid \in y.sig
    BY <1>1, <1>4, <2>2 DEF Owned, OnlyMoves, Waiting
  <2>9. Owned(y)
    BY <2>3, <2>4, <2>6, <2>7, <2>8 DEF Owned
  <2> QED
    BY <2>9 DEF y
<1> QED
  BY <1>2, <1>3, <1>4

LEMMA PassOwned ==
  ASSUME Sound, Ownership
  PROVE  \A i \in 0 .. WAITQ_LENGTH : \A z \in served[i] : Good(z) /\ Owned(z)
<1> DEFINE G == {i \in 0 .. WAITQ_LENGTH : \A z \in served[i] : Good(z) /\ Owned(z)}
<1>1. 0 \in G
  <2>1. PICK x : x = pipe
    OBVIOUS
  <2>2. x = [x EXCEPT !.size = x.size]
    BY <2>1 DEF Sound, PipeRecords
  <2>3. Owned(Start)
    BY <2>1, <2>2, StartIs DEF Owned, Ownership
  <2> QED
    BY <2>3, ServedStep, StartIs
<1>2. ASSUME NEW i \in 0 .. WAITQ_LENGTH - 1, i \in G PROVE i + 1 \in G
  <2>1. served[i + 1] = Pass(served[i], i) /\ i \in Entries
    BY ServedStep
  <2>2. \A z \in Pass(served[i], i) : Good(z) /\ Owned(z)
    BY <1>2, <2>1, EntrySound, EntryOwned DEF Pass
  <2> QED
    BY <2>1, <2>2
<1> HIDE DEF G
<1>3. \A i \in 0 .. WAITQ_LENGTH : i \in G
  BY <1>1, <1>2, LoopEnds
<1> QED
  BY <1>3 DEF G

\* A call on an open end keeps the pipe owned.
LEMMA CallOwned ==
  ASSUME Sound, Ownership, NEW end \in open, NEW p \in Holders(end), NEW n \in IoSizes
  PROVE  Owned(try(Kernel, p, end, n))
<1> DEFINE b == try(Kernel, p, end, n)
<1>1. PICK a : a = Kernel
  OBVIOUS
<1>2. a \in Kernels /\ a.pipe = pipe /\ a.wq = waitq /\ a.sig = signalled
  BY <1>1, SoundKernel DEF Good
<1>3. /\ end \in Ends /\ p \in Procs /\ waitq \in Queues /\ pipe.used
      /\ stale \subseteq Entries
  BY DEF Holders, Sound, Ownership
<1>4. Outcome(a, b, p, end, n)
  BY <1>1, <1>2, <1>3, TryOutcome
<1> HIDE DEF b
<1>5. /\ b \in Kernels /\ Keeps(a, b)
      /\ \/ Returns(a, b, end) \/ Signals(a, b, p, end)
         \/ FindsNoRoom(a, b) \/ Blocks(a, b, p, end, n)
  BY <1>4 DEF Outcome
<1>6. b.pipe = [pipe EXCEPT !.size = b.pipe.size]
  BY <1>2, <1>5 DEF Keeps
<1>7. /\ \A i \in Entries : Waiting(b.wq, i) => i \in stale \/ b.wq[i].end \in open
      /\ \A i \in stale : Waiting(b.wq, i) /\ b.wq[i].pid \in signalled
  <2>1. CASE b.wq = waitq
    BY <2>1 DEF Ownership
  <2>2. CASE Blocks(a, b, p, end, n)
    <3>1. FreeEntries(waitq) # {} /\ b.wq = waitqAddEntry(waitq, Entry(p, end, n))
      BY <1>2, <2>2 DEF Blocks
    <3>2. PICK e, x : e = Entry(p, end, n) /\ x = Lowest(FreeEntries(waitq))
      OBVIOUS
    <3>3. e \in EntryRecords /\ e.end = end
      BY <1>3, <3>2 DEF Entry, EntryRecords
    <3>4. b.wq = [waitq EXCEPT ![x] = e] /\ x \in FreeEntries(waitq)
      BY <1>3, <3>1, <3>2, <3>3, EntryAdded
    <3>5. \A k \in Entries : b.wq[k] = IF k = x THEN e ELSE waitq[k]
      BY <1>3, <3>4 DEF Queues
    <3>6. x \notin stale
      BY <3>4 DEF Ownership, FreeEntries
    <3> QED
      BY <1>3, <3>3, <3>5, <3>6 DEF Waiting, Ownership
  <2> QED
    BY <1>2, <1>5, <2>1, <2>2 DEF Returns, Signals, FindsNoRoom
<1>9. signalled \subseteq b.sig
  BY <1>2, <1>5 DEF Returns, Signals, FindsNoRoom, Blocks
<1>8. Owned(b)
  BY <1>3, <1>6, <1>7, <1>9 DEF Owned
<1> QED
  BY <1>8 DEF b

LEMMA OwnedBecomes ==
  ASSUME Sound, Ownership, NEW z, Owned(z), Becomes(z), open' = open, stale' = stale
  PROVE  Ownership'
<1>1. pipe' = z.pipe /\ waitq' = z.wq /\ signalled' = z.sig
  BY DEF Becomes
<1>2. PICK x, s : x = pipe /\ s = z.pipe.size
  OBVIOUS
<1>3. x \in PipeRecords /\ pipe' = [x EXCEPT !.size = s]
  BY <1>1, <1>2 DEF Sound, Owned
<1>4. /\ pipe'.used = pipe.used /\ pipe'.readClosed = pipe.readClosed
      /\ pipe'.writeClosed = pipe.writeClosed
  BY <1>2, <1>3 DEF PipeRecords
<1>5. FreeIsFresh'
  BY <1>1, <1>4 DEF Owned, Ownership, FreeIsFresh, Fresh
<1>6. (\A end \in open : pipe.used /\ ~ClosedEnd(end))'
  BY <1>4 DEF Ownership, ClosedEnd
<1>7. (\A i \in Entries : Waiting(waitq, i) => i \in stale \/ waitq[i].end \in open)'
  BY <1>1 DEF Owned, Waiting, NoEntry
<1>8. (\A i \in stale : Waiting(waitq, i) /\ waitq[i].pid \in signalled)'
  BY <1>1 DEF Owned, Waiting, NoEntry
<1> QED
  BY <1>5, <1>6, <1>7, <1>8 DEF Ownership

LEMMA OpenOwned ==
  ASSUME Sound, Ownership, ~Reopens, NEW end \in Ends, k_open(end)
  PROVE  Ownership'
<1>1. /\ pipe' = [pipe EXCEPT !.used = TRUE] /\ open' = open \cup {end}
      /\ waitq' = waitq /\ stale' = stale /\ signalled' = signalled /\ ~ClosedEnd(end)
  BY DEF k_open
<1>2. pipe \in PipeRecords
  BY DEF Sound
<1>3. /\ pipe'.used /\ pipe'.readClosed = pipe.readClosed
      /\ pipe'.writeClosed = pipe.writeClosed
  BY <1>1, <1>2 DEF PipeRecords
<1>4. (\A x \in open : pipe.used /\ ~ClosedEnd(x))'
  BY <1>1, <1>3 DEF Ownership, ClosedEnd
<1>5. (\A i \in Entries : Waiting(waitq, i) => i \in stale \/ waitq[i].end \in open)'
  BY <1>1 DEF Ownership, Waiting, NoEntry
<1>6. (\A i \in stale : Waiting(waitq, i) /\ waitq[i].pid \in signalled)'
  BY <1>1 DEF Ownership, Waiting, NoEntry
<1> QED
  BY <1>3, <1>4, <1>5, <1>6 DEF Ownership, FreeIsFresh

LEMMA CloseOwned ==
  ASSUME Sound, Ownership, NEW end \in Ends, piper_close(end)
  PROVE  Ownership'
<1>1. PICK c : c = IF end = "read" THEN [pipe EXCEPT !.readClosed = TRUE]
                   ELSE [pipe EXCEPT !.writeClosed = TRUE]
  OBVIOUS
<1>2. /\ end \in open /\ open' = open \ {end} /\ waitq' = waitq
      /\ signalled' = signalled /\ stale' = stale \cup EntriesAt(end)
      /\ \A p \in Holders(end) : Runs(p)
      /\ pipe' = IF c.readClosed /\ c.writeClosed THEN Fresh ELSE c
  BY <1>1 DEF piper_close
<1>3. pipe \in PipeRecords /\ open \subseteq Ends /\ pipe.used
  BY <1>2 DEF Sound, Ownership
<1>4. /\ c.used /\ (end = "read" => c.writeClosed = pipe.writeClosed)
      /\ (end = "write" => c.readClosed = pipe.readClosed)
  BY <1>1, <1>3 DEF PipeRecords
<1>5. ASSUME NEW x \in open \ {end}
      PROVE  pipe'.used /\ ~(IF x = "read" THEN pipe'.readClosed ELSE pipe'.writeClosed)
  <2>1. ~ClosedEnd(x) /\ x \in Ends
    BY <1>3 DEF Ownership
  <2>2. pipe' = c
    BY <1>2, <1>4, <2>1 DEF ClosedEnd
  <2> QED
    BY <1>4, <2>1, <2>2 DEF ClosedEnd
<1>6. (\A x \in open : pipe.used /\ ~ClosedEnd(x))'
  BY <1>2, <1>5 DEF ClosedEnd
<1>7. ASSUME NEW i \in EntriesAt(end)
      PROVE  i \in Entries /\ Waiting(waitq, i) /\ waitq[i].pid \in signalled
  <2>1. i \in Entries /\ Waiting(waitq, i) /\ waitq[i].end = end
    BY <1>7 DEF EntriesAt
  <2>2. /\ proc[waitq[i].pid] = "BLOCKED" \/ waitq[i].pid \in signalled
        /\ waitq[i].pid \in Holders(end)
    BY <2>1 DEF Sound, Waiters
  <2> QED
    BY <1>2, <2>1, <2>2 DEF Runs
<1>8. (\A i \in Entries : Waiting(waitq, i) => i \in stale \/ waitq[i].end \in open)'
  BY <1>2 DEF Ownership, EntriesAt, Waiting, NoEntry
<1>10. (\A i \in stale : Waiting(waitq, i) /\ waitq[i].pid \in signalled)'
  BY <1>2, <1>7 DEF Ownership, Waiting, NoEntry
<1>9. FreeIsFresh'
  BY <1>2, <1>4 DEF FreeIsFresh, Fresh
<1> QED
  BY <1>6, <1>8, <1>9, <1>10 DEF Ownership

LEMMA OwnershipStep ==
  ASSUME ~Reopens
  PROVE  Sound /\ Ownership /\ [Next]_vars => Ownership'
<1> SUFFICES ASSUME Sound, Ownership, [Next]_vars PROVE Ownership'
  OBVIOUS
<1>1. ASSUME NEW p \in Procs, NEW n \in IoSizes, sys_read(p, n) PROVE Ownership'
  <2>1. PICK z : z = try(Kernel, p, "read", n) /\ Becomes(z)
    BY <1>1 DEF sys_read, try
  <2>2. p \in Holders("read") /\ "read" \in open /\ open' = open /\ stale' = stale
    BY <1>1 DEF sys_read, Holders
  <2>3. Owned(z)
    BY <2>1, <2>2, CallOwned
  <2> QED
    BY <2>1, <2>2, <2>3, OwnedBecomes
<1>2. ASSUME NEW p \in Procs, NEW n \in IoSizes, sys_write(p, n) PROVE Ownership'
  <2>1. PICK z : z = try(Kernel, p, "write", n) /\ Becomes(z)
    BY <1>2 DEF sys_write, try
  <2>2. p \in Holders("write") /\ "write" \in open /\ open' = open /\ stale' = stale
    BY <1>2 DEF sys_write, Holders
  <2>3. Owned(z)
    BY <2>1, <2>2, CallOwned
  <2> QED
    BY <2>1, <2>2, <2>3, OwnedBecomes
<1>3. ASSUME NEW end \in Ends, k_open(end) \/ piper_close(end) PROVE Ownership'
  BY <1>3, OpenOwned, CloseOwned
<1>4. CASE processWaiting
  <2>1. PICK z \in served[WAITQ_LENGTH] : Becomes(PassEnd(z))
    BY <1>4 DEF processWaiting, PassEnd
  <2>2. Good(z) /\ Owned(z)
    BY <2>1, PassOwned
  <2>3. Owned(PassEnd(z))
    BY <2>2, PassEndIs DEF Owned
  <2>4. open' = open /\ stale' = stale
    BY <1>4 DEF processWaiting
  <2> QED
    BY <2>1, <2>3, <2>4, OwnedBecomes
<1>5. CASE Idle \/ UNCHANGED vars
  BY <1>5 DEF Idle, vars, Ownership, FreeIsFresh, ClosedEnd, Waiting, NoEntry, Fresh
<1> QED
  BY <1>1, <1>2, <1>3, <1>4, <1>5 DEF Next

\* A pipe that nobody uses is as new, if no end is opened again while the other
\* is still in use: piper_open leaves such an end marked closed, and the next
\* close would free the pipe under its other user.
THEOREM PipeFresh ==
  ASSUME ~Reopens
  PROVE  Spec => []FreeIsFresh
<1>1. Init => Ownership
  BY DEF Init, Ownership, FreeIsFresh, waitq_init, Waiting
<1>2. Sound /\ Ownership /\ [Next]_vars => Ownership'
  BY OwnershipStep
<1>3. Ownership => FreeIsFresh
  BY DEF Ownership
<1> QED
  BY <1>1, <1>2, <1>3, SoundInit, SoundStep, PTL DEF Spec

-----------------------------------------------------------------------------
(* No wakeup is lost between one reader and one writer                     *)

\* One process at each end.
OneEach ==
  /\ \E rd, wr : Readers = {rd} /\ Writers = {wr} /\ rd # wr
  /\ WAITQ_PENDING_LENGTH > 0

\* The queue has no holes.
Order(q) == \E l \in 0 .. WAITQ_LENGTH : \A k \in Entries : Waiting(q, k) <=> k < l

\* Who sleeps (it has no SIGPIPE) and need not has a notification to be served.
Woken(q, sg, s, n) ==
  \A k \in Entries : Waiting(q, k) /\ q[k].pid \notin sg /\ ~Stuck(q[k].end, s) => n > 0

Line(z) ==
  z.halted # "no" \/ (Order(z.wq) /\ Woken(z.wq, z.sig, z.pipe.size, z.pending))
InLine == halted # "no" \/ (Order(waitq) /\ Woken(waitq, signalled, pipe.size, pending))

\* Whatever waits beside the call of a process that sleeps waits at the other end.
LEMMA Alone ==
  ASSUME OneEach, NEW st, NEW q \in Queues, NEW sg, Waiters(st, q, sg)
  PROVE  \A k, n \in Entries : Waiting(q, k) /\ q[k].pid \notin sg /\ Waiting(q, n) /\ n # k
           => q[k].end \in Ends /\ q[n].end \in Ends /\ q[n].end # q[k].end
<1> SUFFICES ASSUME NEW k \in Entries, Waiting(q, k), q[k].pid \notin sg,
                    NEW n \in Entries, Waiting(q, n), n # k
             PROVE  q[k].end \in Ends /\ q[n].end \in Ends /\ q[n].end # q[k].end
  OBVIOUS
<1>1. /\ q[k].pid \in Holders(q[k].end) /\ q[n].pid \in Holders(q[n].end)
      /\ q[k].end \in Ends /\ q[n].end \in Ends
  BY EntryIs DEF Waiters
<1>2. q[n].end = q[k].end => q[n].pid = q[k].pid
  BY <1>1 DEF Holders, OneEach
<1>3. q[n].pid # q[k].pid
  BY DEF Waiters
<1> QED
  BY <1>1, <1>2, <1>3

\* A pipe is not both empty and full.
LEMMA OneStuck ==
  ASSUME NEW end \in Ends, NEW o \in Ends, o # end, NEW s, Stuck(end, s)
  PROVE  ~Stuck(o, s)
BY DEF Stuck

\* The first free place of a queue whose entries are those before m and those from
\* i to l.
LEMMA FreePlace ==
  ASSUME NEW q, NEW l \in 0 .. WAITQ_LENGTH, NEW i \in 0 .. l, NEW m \in 0 .. i,
         \A k \in Entries : Waiting(q, k) <=> k < m \/ (i <= k /\ k < l),
         NEW j \in FreeEntries(q), \A k \in FreeEntries(q) : j <= k
  PROVE  j = IF m < i THEN m ELSE l
<1>1. j \in Entries /\ ~(j < m \/ (i <= j /\ j < l))
  BY DEF FreeEntries
<1>2. CASE m < i
  <2>1. m \in FreeEntries(q)
    BY <1>2 DEF FreeEntries
  <2> QED
    BY <1>1, <1>2, <2>1
<1>3. CASE ~(m < i)
  <2>1. m = i /\ j >= l
    BY <1>1, <1>3
  <2>2. l \in FreeEntries(q)
    BY <1>1, <2>1 DEF FreeEntries
  <2> QED
    BY <1>1, <2>1, <2>2
<1> QED
  BY <1>2, <1>3

\* A call of the process that runs keeps the line, and who sleeps woken.
LEMMA CallInLine ==
  ASSUME OneEach, Sound, InLine, halted = "no", NEW end \in Ends, NEW p \in Holders(end),
         NEW n \in IoSizes, Runs(p)
  PROVE  Line(try(Kernel, p, end, n))
<1> DEFINE z == try(Kernel, p, end, n)
<1>1. PICK a : a = Kernel
  OBVIOUS
<1>2. /\ a \in Kernels /\ a.pipe = pipe /\ a.wq = waitq /\ a.pending = pending
      /\ a.proc = proc /\ a.sig = signalled
  BY <1>1, SoundKernel DEF Good
<1>3. /\ p \in Procs /\ waitq \in Queues /\ pipe.size \in 0 .. PIPE_MAX_LENGTH
      /\ Waiters(proc, waitq, signalled) /\ pending \in Nat /\ WAITQ_PENDING_LENGTH > 0
  BY DEF Holders, Sound, PipeRecords, OneEach
<1>4. Outcome(a, z, p, end, n)
  BY <1>1, <1>2, TryOutcome
<1> HIDE DEF z
<1>5. /\ z \in Kernels /\ pending <= z.pending
      /\ \/ Returns(a, z, end) \/ Signals(a, z, p, end)
         \/ FindsNoRoom(a, z) \/ Blocks(a, z, p, end, n)
  BY <1>2, <1>4 DEF Outcome, Keeps
<1>6. z.pending \in 0 .. WAITQ_PENDING_LENGTH
  BY <1>5, KernelFields
<1>7. Order(waitq) /\ Woken(waitq, signalled, pipe.size, pending)
  BY DEF InLine
<1>8. ASSUME NEW k \in Entries, Waiting(waitq, k), waitq[k].pid \notin signalled
      PROVE  waitq[k].end \in Ends \ {end}
  <2>1. /\ proc[waitq[k].pid] = "BLOCKED" /\ waitq[k].pid \in Holders(waitq[k].end)
        /\ waitq[k].end \in Ends
    BY <1>3, <1>8, EntryIs DEF Waiters
  <2>2. waitq[k].end = end => waitq[k].pid = p
    BY <2>1 DEF Holders, OneEach
  <2> QED
    BY <1>8, <2>1, <2>2 DEF Runs
<1>9. CASE Returns(a, z, end)
  <2>1. /\ z.wq = waitq /\ z.sig = signalled
        /\ (\E o \in Ends \ {end} : Stuck(o, pipe.size)) => z.pending > 0
    BY <1>2, <1>3, <1>9 DEF Returns
  <2>2. ASSUME NEW k \in Entries, Waiting(waitq, k), waitq[k].pid \notin signalled
        PROVE  z.pending > 0
    <3>1. CASE Stuck(waitq[k].end, pipe.size)
      BY <1>8, <2>1, <2>2, <3>1
    <3>2. CASE ~Stuck(waitq[k].end, pipe.size)
      <4>1. pending > 0
        BY <1>7, <2>2, <3>2 DEF Woken
      <4> QED
        BY <1>3, <1>5, <1>6, <4>1
    <3> QED
      BY <3>1, <3>2
  <2> QED
    BY <1>7, <2>1, <2>2 DEF Line, Woken, z
<1>10. CASE Signals(a, z, p, end)
  <2>1. /\ z.wq = waitq /\ z.pipe.size = pipe.size /\ z.pending = pending
        /\ signalled \subseteq z.sig
    BY <1>2, <1>10 DEF Signals
  <2> QED
    BY <1>7, <2>1 DEF Line, Woken, z
<1>11. CASE FindsNoRoom(a, z)
  BY <1>11 DEF FindsNoRoom, Line, z
<1>12. CASE Blocks(a, z, p, end, n)
  <2>1. PICK e, j : e = Entry(p, end, n) /\ j = Lowest(FreeEntries(waitq))
    OBVIOUS
  <2>2. /\ Stuck(end, pipe.size) /\ FreeEntries(waitq) # {} /\ z.wq = waitqAddEntry(waitq, e)
        /\ z.pipe.size = pipe.size /\ z.pending = pending /\ z.sig = signalled
    BY <1>2, <1>12, <2>1 DEF Blocks
  <2>3. e \in EntryRecords /\ e.end = end
    BY <1>3, <2>1 DEF Entry, EntryRecords
  <2>4. /\ z.wq = [waitq EXCEPT ![j] = e] /\ j \in FreeEntries(waitq)
        /\ \A k \in FreeEntries(waitq) : j <= k
    BY <1>3, <2>1, <2>2, <2>3, EntryAdded
  <2>5. \A k \in Entries : z.wq[k] = IF k = j THEN e ELSE waitq[k]
    BY <1>3, <2>4 DEF Queues
  <2>6. e # NoEntry
    BY <2>3 DEF EntryRecords, NoEntry
  <2>7. PICK l \in 0 .. WAITQ_LENGTH : \A k \in Entries : Waiting(waitq, k) <=> k < l
    BY <1>7 DEF Order
  <2>8. j = l
    <3>1. \A k \in Entries : Waiting(waitq, k) <=> k < 0 \/ (0 <= k /\ k < l)
      BY <2>7
    <3>2. 0 \in 0 .. l /\ 0 \in 0 .. 0 /\ ~(0 < 0)
      OBVIOUS
    <3> QED
      BY <2>4, <3>1, <3>2, FreePlace
  <2>9. Order(z.wq)
    <3>1. l + 1 \in 0 .. WAITQ_LENGTH
      BY <2>4, <2>8 DEF FreeEntries
    <3>2. \A k \in Entries : Waiting(z.wq, k) <=> k < l + 1
      BY <2>5, <2>6, <2>7, <2>8 DEF Waiting
    <3> QED
      BY <3>1, <3>2 DEF Order
  <2>10. Woken(z.wq, z.sig, z.pipe.size, z.pending)
    BY <1>7, <2>2, <2>3, <2>5 DEF Woken, Waiting
  <2> QED
    BY <2>9, <2>10 DEF Line, z
<1> QED
  BY <1>5, <1>9, <1>10, <1>11, <1>12

\* The pass, when it comes to entry i.  The entries before m blocked again, those
\* from i on are still to be served, or were added behind them.
Shape(q, i) ==
  \E m \in 0 .. i, l \in 0 .. WAITQ_LENGTH :
    \A k \in Entries : Waiting(q, k) <=> k < m \/ (i <= k /\ k < l)

\* Nothing that is still to be served comes after entry k.
Last(q, i, k) == \A n \in Entries : Waiting(q, n) => n < i \/ n <= k

\* Who sleeps, and was served or would block again, is the last: nothing that
\* this pass will do can wake it.
Settled(q, sg, s, i) ==
  \A k \in Entries :
    Waiting(q, k) /\ q[k].pid \notin sg /\ i > 0 /\ (k < i \/ Stuck(q[k].end, s))
      => Stuck(q[k].end, s) /\ Last(q, i, k)

InPass(z, i) ==
  z.halted # "no" \/ (Shape(z.wq, i) /\ Settled(z.wq, z.sig, z.pipe.size, i))

\* An entry that is gone, or was not there, leaves a gap behind the pass.
LEMMA GapShape ==
  ASSUME NEW q \in Queues, NEW i \in Entries, Shape(q, i)
  PROVE  Shape([q EXCEPT ![i] = NoEntry], i + 1)
<1> DEFINE v == [q EXCEPT ![i] = NoEntry]
<1>1. PICK m \in 0 .. i, l \in 0 .. WAITQ_LENGTH :
        \A k \in Entries : Waiting(q, k) <=> k < m \/ (i <= k /\ k < l)
  BY DEF Shape
<1>2. \A k \in Entries : Waiting(v, k) <=> k # i /\ Waiting(q, k)
  BY DEF Queues, Waiting
<1> HIDE DEF v
<1>3. \A k \in Entries : Waiting(v, k) <=> k < m \/ (i + 1 <= k /\ k < l)
  BY <1>1, <1>2
<1>4. m \in 0 .. i + 1
  BY <1>1
<1>5. Shape(v, i + 1)
  BY <1>3, <1>4 DEF Shape
<1> QED
  BY <1>5 DEF v

\* An entry that blocked again.
LEMMA MovedShape ==
  ASSUME NEW q \in Queues, NEW i \in Entries, Shape(q, i), Waiting(q, i),
         NEW j \in FreeEntries(q), \A k \in FreeEntries(q) : j <= k
  PROVE  /\ Shape([[q EXCEPT ![j] = q[i]] EXCEPT ![i] = NoEntry], i + 1)
         /\ i = 0 => \A n \in Entries : Waiting(q, n) => n < j
<1> DEFINE v == [[q EXCEPT ![j] = q[i]] EXCEPT ![i] = NoEntry]
<1>1. PICK m \in 0 .. i, l \in 0 .. WAITQ_LENGTH :
        \A k \in Entries : Waiting(q, k) <=> k < m \/ (i <= k /\ k < l)
  BY DEF Shape
<1>2. j \in Entries /\ j # i
  BY DEF FreeEntries
<1>3. \A k \in Entries : Waiting(v, k) <=> k # i /\ (k = j \/ Waiting(q, k))
  BY <1>2 DEF Queues, Waiting
<1>4. i < l /\ i \in 0 .. l
  BY <1>1
<1>5. j = IF m < i THEN m ELSE l
  BY <1>1, <1>4, FreePlace
<1> HIDE DEF v
<1>6. CASE m < i
  <2>1. \A k \in Entries : Waiting(v, k) <=> k < m + 1 \/ (i + 1 <= k /\ k < l)
    BY <1>1, <1>3, <1>5, <1>6
  <2>2. m + 1 \in 0 .. i + 1
    BY <1>1
  <2>3. Shape(v, i + 1)
    BY <2>1, <2>2 DEF Shape
  <2> QED
    BY <1>6, <2>3 DEF v
<1>7. CASE ~(m < i)
  <2>1. j = l /\ m = i
    BY <1>1, <1>5, <1>7
  <2>2. \A k \in Entries : Waiting(v, k) <=> k < m \/ (i + 1 <= k /\ k < l + 1)
    BY <1>1, <1>3, <1>4, <2>1
  <2>3. m \in 0 .. i + 1 /\ l + 1 \in 0 .. WAITQ_LENGTH
    BY <1>1, <1>2, <2>1
  <2>4. Shape(v, i + 1)
    BY <2>2, <2>3 DEF Shape
  <2> QED
    BY <1>1, <2>1, <2>4 DEF v
<1> QED
  BY <1>6, <1>7

\* Nobody at the other end can be stuck.
OtherRuns(end, s) == \A o \in Ends \ {end} : ~Stuck(o, s)

\* A call that returned wakes the other end, and nobody sleeps at its own.
LEMMA ReturnSettles ==
  ASSUME OneEach, NEW q \in Queues, NEW st, NEW sg, Waiters(st, q, sg),
         NEW i \in Entries, Waiting(q, i), NEW s, NEW t, Settled(q, sg, s, i),
         OtherRuns(q[i].end, t)
  PROVE  Settled([q EXCEPT ![i] = NoEntry], sg, t, i + 1)
<1> DEFINE v == [q EXCEPT ![i] = NoEntry]
<1>1. \A k \in Entries : v[k] = IF k = i THEN NoEntry ELSE q[k]
  BY DEF Queues
<1>4. \A k, n \in Entries : Waiting(q, k) /\ q[k].pid \notin sg /\ Waiting(q, n) /\ n # k
           => q[k].end \in Ends /\ q[n].end \in Ends /\ q[n].end # q[k].end
  <2> HIDE DEF Entries, Ends, Procs
  <2> QED
    BY Alone
<1> HIDE DEF v
<1>2. ASSUME NEW k \in Entries, Waiting(v, k), v[k].pid \notin sg,
             k < i + 1 \/ Stuck(v[k].end, t)
      PROVE  FALSE
  <2>1. k # i /\ v[k] = q[k] /\ Waiting(q, k)
    BY <1>1, <1>2 DEF Waiting
  <2>5. q[k].pid \notin sg
    BY <1>2, <2>1
  <2>6. /\ q[k].end \in Ends /\ q[i].end \in Ends /\ q[i].end # q[k].end
    BY <1>4, <2>1, <2>5
  <2>2. ~Stuck(q[k].end, t)
    BY <2>6 DEF OtherRuns
  <2>3. k < i
    BY <1>2, <2>1, <2>2
  <2>4. Last(q, i, k)
    BY <1>2, <2>1, <2>3 DEF Settled
  <2> QED
    BY <2>3, <2>4 DEF Last
<1>3. Settled(v, sg, t, i + 1)
  BY <1>2 DEF Settled
<1> QED
  BY <1>3 DEF v

\* A call that blocked again is the last to be served, if its process sleeps.
LEMMA BlockSettles ==
  ASSUME OneEach, NEW q \in Queues, NEW st, NEW sg, Waiters(st, q, sg),
         NEW i \in Entries, Waiting(q, i), NEW s, Settled(q, sg, s, i),
         Stuck(q[i].end, s), NEW j \in FreeEntries(q),
         i = 0 => \A n \in Entries : Waiting(q, n) => n < j
  PROVE  Settled([[q EXCEPT ![j] = q[i]] EXCEPT ![i] = NoEntry], sg, s, i + 1)
<1> DEFINE v == [[q EXCEPT ![j] = q[i]] EXCEPT ![i] = NoEntry]
<1>0. j \in Entries /\ j # i
  BY DEF FreeEntries
<1>1. \A k \in Entries : v[k] = IF k = i THEN NoEntry ELSE IF k = j THEN q[i] ELSE q[k]
  BY <1>0 DEF Queues
<1> HIDE DEF v
<1>2. ASSUME NEW k \in Entries, Waiting(v, k), k # j
      PROVE  k # i /\ v[k] = q[k] /\ Waiting(q, k)
  BY <1>1, <1>2 DEF Waiting
<1>3. ASSUME NEW k \in Entries, Waiting(v, k), v[k].pid \notin sg,
             k < i + 1 \/ Stuck(v[k].end, s)
      PROVE  Stuck(v[k].end, s) /\ Last(v, i + 1, k)
  <2>1. CASE k = j
    <3>1. v[j] = q[i]
      BY <1>0, <1>1
    <3>2. ASSUME NEW n \in Entries, Waiting(v, n) PROVE n < i + 1 \/ n <= j
      <4>1. CASE n # j /\ i > 0
        <5>1. Waiting(q, n)
          BY <1>2, <3>2, <4>1
        <5>2. Last(q, i, i)
          BY <1>3, <2>1, <3>1, <4>1 DEF Settled
        <5> QED
          BY <5>1, <5>2 DEF Last
      <4>2. CASE n # j /\ ~(i > 0)
        <5>1. Waiting(q, n) /\ i = 0
          BY <1>2, <3>2, <4>2
        <5> QED
          BY <1>0, <5>1
      <4> QED
        BY <1>0, <4>1, <4>2
    <3> QED
      BY <2>1, <3>1, <3>2 DEF Last
  <2>2. CASE k # j
    <3>1. k # i /\ v[k] = q[k] /\ Waiting(q, k)
      BY <1>2, <1>3, <2>2
    <3>5. q[k].pid \notin sg
      BY <1>3, <3>1
    <3>2. q[k].end \in Ends /\ q[i].end \in Ends /\ q[i].end # q[k].end
      <4> HIDE DEF Entries, Ends, Procs
      <4> QED
        BY <3>1, <3>5, Alone
    <3>3. ~Stuck(q[k].end, s)
      BY <3>2, OneStuck
    <3>4. k < i
      BY <1>3, <3>1, <3>3
    <3>6. Stuck(q[k].end, s)
      BY <1>3, <3>1, <3>4 DEF Settled
    <3> QED
      BY <3>3, <3>6
  <2> QED
    BY <2>1, <2>2
<1>4. Settled(v, sg, s, i + 1)
  BY <1>3 DEF Settled
<1> QED
  BY <1>4 DEF v

\* Where nothing waits the pass goes on.
LEMMA GapSettles ==
  ASSUME NEW q \in Queues, NEW sg, NEW s, NEW i \in Entries, ~Waiting(q, i),
         Shape(q, i), Settled(q, sg, s, i)
  PROVE  Shape(q, i + 1) /\ Settled(q, sg, s, i + 1)
<1>1. PICK m \in 0 .. i, l \in 0 .. WAITQ_LENGTH :
        \A k \in Entries : Waiting(q, k) <=> k < m \/ (i <= k /\ k < l)
  BY DEF Shape
<1>2. l <= i
  BY <1>1
<1>3. \A k \in Entries : Waiting(q, k) <=> k < m \/ (i + 1 <= k /\ k < l)
  BY <1>1, <1>2
<1>4. m \in 0 .. i + 1
  BY <1>1
<1>5. \A k \in Entries : Waiting(q, k) => k < i
  BY <1>1, <1>2
<1>6. Settled(q, sg, s, i + 1)
  BY <1>5 DEF Settled, Last
<1> QED
  BY <1>3, <1>4, <1>6 DEF Shape

LEMMA EntryInPass ==
  ASSUME OneEach, Sound, Ownership, NEW z, Good(z), Owned(z), NEW i \in Entries, InPass(z, i)
  PROVE  InPass(processWaitQEntry(z, i), i + 1)
<1> DEFINE y == processWaitQEntry(z, i)
<1>1. /\ z \in Kernels /\ Waiters(z.proc, z.wq, z.sig) /\ z.wq \in Queues
      /\ z.pipe.size \in 0 .. PIPE_MAX_LENGTH
  BY KernelFields DEF Good
<1>2. CASE z.halted # "no"
  <2>1. y = z
    BY <1>2, PassedOver
  <2> QED
    BY <1>2, <2>1 DEF InPass
<1>3. CASE z.halted = "no" /\ ~Waiting(z.wq, i)
  <2>1. y = z
    BY <1>3, PassedOver
  <2>2. Shape(z.wq, i) /\ Settled(z.wq, z.sig, z.pipe.size, i)
    BY <1>3 DEF InPass
  <2>3. Shape(z.wq, i + 1) /\ Settled(z.wq, z.sig, z.pipe.size, i + 1)
    BY <1>1, <1>3, <2>2, GapSettles
  <2> QED
    BY <2>1, <2>3 DEF InPass
<1>4. CASE z.halted = "no" /\ Waiting(z.wq, i) /\ i \in stale
  <2>1. y.halted = "freed"
    BY <1>1, <1>4, StaleIs
  <2> QED
    BY <2>1 DEF InPass
<1>5. CASE z.halted = "no" /\ Waiting(z.wq, i) /\ i \notin stale
  <2>1. PICK a, b : Retried(z, a, b, y, i)
    BY <1>1, <1>5, RetryIs
  <2> HIDE DEF y
  <2>2. PICK e, q, sg, s : e = z.wq[i] /\ q = z.wq /\ sg = z.sig /\ s = z.pipe.size
    OBVIOUS
  <2>3. e \in EntryRecords /\ e = Entry(e.pid, e.end, e.n) /\ e.end \in Ends
    BY <1>1, <1>5, <2>2, EntryIs
  <2>4. /\ a.pipe = z.pipe /\ a.wq = q /\ a.sig = sg /\ y.pipe = b.pipe /\ y.sig = b.sig
        /\ y.wq = [b.wq EXCEPT ![i] = NoEntry] /\ y.halted = b.halted /\ b \in Kernels
        /\ \/ Returns(a, b, e.end) \/ Signals(a, b, e.pid, e.end)
           \/ FindsNoRoom(a, b) \/ Blocks(a, b, e.pid, e.end, e.n)
    BY <2>1, <2>2 DEF Retried, Outcome
  <2>5. /\ q \in Queues /\ Waiters(z.proc, q, sg) /\ Waiting(q, i) /\ e = q[i]
        /\ Shape(q, i) /\ Settled(q, sg, s, i)
    BY <1>1, <1>5, <2>2 DEF InPass
  <2>6. CASE Returns(a, b, e.end)
    <3>1. /\ y.wq = [q EXCEPT ![i] = NoEntry] /\ y.sig = sg
          /\ OtherRuns(e.end, y.pipe.size)
      BY <2>4, <2>6 DEF Returns, OtherRuns
    <3>2. Settled([q EXCEPT ![i] = NoEntry], sg, y.pipe.size, i + 1)
      BY <2>5, <3>1, ReturnSettles
    <3>3. Shape([q EXCEPT ![i] = NoEntry], i + 1)
      BY <2>5, GapShape
    <3> QED
      BY <3>1, <3>2, <3>3 DEF InPass, y
  <2>7. CASE Signals(a, b, e.pid, e.end)
    <3>1. /\ y.wq = [q EXCEPT ![i] = NoEntry] /\ y.sig = sg \cup {e.pid}
          /\ e.end = "write" /\ z.pipe.readClosed
      BY <2>4, <2>7 DEF Signals
    <3>2. \A k \in Entries : y.wq[k] = IF k = i THEN NoEntry ELSE q[k]
      BY <2>5, <3>1 DEF Queues
    <3>3. "read" \notin open
      <4>1. PICK x, v : x = pipe /\ v = z.pipe.size
        OBVIOUS
      <4>2. x \in PipeRecords /\ z.pipe = [x EXCEPT !.size = v]
        BY <4>1 DEF Sound, Owned
      <4>3. x.readClosed
        BY <3>1, <4>2 DEF PipeRecords
      <4> QED
        BY <4>1, <4>3 DEF Ownership, ClosedEnd
    <3>4. ASSUME NEW k \in Entries, Waiting(y.wq, k), y.wq[k].pid \notin y.sig PROVE FALSE
      <4>1. k # i /\ y.wq[k] = q[k] /\ Waiting(q, k) /\ q[k].pid \notin sg
        BY <3>1, <3>2, <3>4 DEF Waiting
      <4>2. q[k].end \in Ends /\ q[k].end # "write"
        <5>1. q[i].end = "write"
          BY <2>5, <3>1
        <5> HIDE DEF Entries, Ends, Procs
        <5>2. q \in Queues /\ Waiters(z.proc, q, sg) /\ Waiting(q, i)
          BY <2>5
        <5>3. q[k].end \in Ends /\ q[i].end # q[k].end
          BY <4>1, <5>2, Alone
        <5> QED
          BY <5>1, <5>3
      <4>3. k \notin stale
        BY <2>2, <4>1 DEF Owned
      <4> QED
        BY <2>2, <3>3, <4>1, <4>2, <4>3 DEF Owned
    <3>5. Settled(y.wq, y.sig, y.pipe.size, i + 1)
      BY <3>4 DEF Settled
    <3>6. Shape([q EXCEPT ![i] = NoEntry], i + 1)
      BY <2>5, GapShape
    <3> QED
      BY <3>1, <3>5, <3>6 DEF InPass, y
  <2>8. CASE FindsNoRoom(a, b)
    BY <2>4, <2>8 DEF FindsNoRoom, InPass, y
  <2>9. CASE Blocks(a, b, e.pid, e.end, e.n)
    <3>1. /\ Stuck(e.end, s) /\ FreeEntries(q) # {}
          /\ b.wq = waitqAddEntry(q, e) /\ y.sig = sg /\ y.pipe.size = s
      BY <2>2, <2>3, <2>4, <2>9 DEF Blocks
    <3>2. PICK j : j = Lowest(FreeEntries(q))
      OBVIOUS
    <3>3. /\ b.wq = [q EXCEPT ![j] = e] /\ j \in FreeEntries(q)
          /\ \A k \in FreeEntries(q) : j <= k
      BY <2>3, <2>5, <3>1, <3>2, EntryAdded
    <3>4. y.wq = [[q EXCEPT ![j] = q[i]] EXCEPT ![i] = NoEntry]
      BY <2>4, <2>5, <3>3
    <3>5. /\ Shape([[q EXCEPT ![j] = q[i]] EXCEPT ![i] = NoEntry], i + 1)
          /\ i = 0 => \A n \in Entries : Waiting(q, n) => n < j
      BY <2>5, <3>3, MovedShape
    <3>6. Settled([[q EXCEPT ![j] = q[i]] EXCEPT ![i] = NoEntry], sg, s, i + 1)
      BY <2>5, <3>1, <3>3, <3>5, BlockSettles
    <3> QED
      BY <3>1, <3>4, <3>5, <3>6 DEF InPass, y
  <2> QED
    BY <2>4, <2>6, <2>7, <2>8, <2>9
<1> QED
  BY <1>2, <1>3, <1>4, <1>5

LEMMA PassInLine ==
  ASSUME OneEach, Sound, Ownership, InLine
  PROVE  \A z \in served[WAITQ_LENGTH] : Good(z) /\ InPass(z, WAITQ_LENGTH)
<1> DEFINE G == {i \in 0 .. WAITQ_LENGTH : \A z \in served[i] : InPass(z, i)}
<1>1. 0 \in G
  <2>1. ASSUME halted = "no" PROVE Shape(waitq, 0)
    <3>1. PICK l \in 0 .. WAITQ_LENGTH : \A k \in Entries : Waiting(waitq, k) <=> k < l
      BY <2>1 DEF InLine, Order
    <3>2. \A k \in Entries : Waiting(waitq, k) <=> k < 0 \/ (0 <= k /\ k < l)
      BY <3>1
    <3>3. 0 \in 0 .. 0
      OBVIOUS
    <3> QED
      BY <3>2, <3>3 DEF Shape
  <2>2. Settled(waitq, signalled, pipe.size, 0)
    BY DEF Settled
  <2>3. InPass(Start, 0)
    BY <2>1, <2>2, StartIs DEF InPass
  <2> QED
    BY <2>3, ServedStep
<1>2. ASSUME NEW i \in 0 .. WAITQ_LENGTH - 1, i \in G PROVE i + 1 \in G
  <2>1. served[i + 1] = Pass(served[i], i) /\ i \in Entries
    BY ServedStep
  <2>2. ASSUME NEW z \in served[i] PROVE InPass(processWaitQEntry(z, i), i + 1)
    <3>1. Good(z) /\ Owned(z)
      BY PassOwned
    <3>2. InPass(z, i)
      BY <1>2
    <3> QED
      BY <2>1, <3>1, <3>2, EntryInPass
  <2>3. i + 1 \in 0 .. WAITQ_LENGTH
    OBVIOUS
  <2> QED
    BY <2>1, <2>2, <2>3 DEF Pass
<1> HIDE DEF G
<1>3. WAITQ_LENGTH \in G
  BY <1>1, <1>2, LoopEnds
<1> QED
  BY <1>3, PassSound DEF G

\* Behind the pass who sleeps has to, so that the notifications may go.
LEMMA PassEndInLine ==
  ASSUME NEW z, Good(z), InPass(z, WAITQ_LENGTH)
  PROVE  Line(PassEnd(z))
<1>1. /\ PassEnd(z).pipe = z.pipe /\ PassEnd(z).wq = z.wq /\ PassEnd(z).sig = z.sig
      /\ PassEnd(z).halted = z.halted
  BY PassEndIs
<1>2. CASE z.halted # "no"
  BY <1>1, <1>2 DEF Line
<1>3. CASE z.halted = "no"
  <2>1. Shape(z.wq, WAITQ_LENGTH) /\ Settled(z.wq, z.sig, z.pipe.size, WAITQ_LENGTH)
    BY <1>3 DEF InPass
  <2>2. PICK m \in 0 .. WAITQ_LENGTH, l \in 0 .. WAITQ_LENGTH :
          \A k \in Entries : Waiting(z.wq, k) <=> k < m \/ (WAITQ_LENGTH <= k /\ k < l)
    BY <2>1 DEF Shape
  <2>3. \A k \in Entries : Waiting(z.wq, k) <=> k < m
    BY <2>2
  <2>4. Order(z.wq)
    BY <2>3 DEF Order
  <2>5. \A k \in Entries : k < WAITQ_LENGTH /\ WAITQ_LENGTH > 0
    OBVIOUS
  <2>6. Woken(z.wq, z.sig, z.pipe.size, PassEnd(z).pending)
    BY <2>1, <2>5 DEF Settled, Woken
  <2> QED
    BY <1>1, <2>4, <2>6 DEF Line
<1> QED
  BY <1>2, <1>3

LEMMA LineBecomes ==
  ASSUME NEW z, Line(z), Becomes(z)
  PROVE  InLine'
<1>1. /\ waitq' = z.wq /\ pipe' = z.pipe /\ pending' = z.pending /\ signalled' = z.sig
      /\ halted' = z.halted
  BY DEF Becomes
<1> QED
  BY <1>1 DEF Line, InLine, Order, Woken, Waiting, Stuck, NoEntry

\* Nobody sleeps at a pipe that its last user closes.
LEMMA CloseInLine ==
  ASSUME OneEach, Sound, Ownership, InLine, NEW end \in Ends, piper_close(end)
  PROVE  InLine'
<1>1. PICK c : c = IF end = "read" THEN [pipe EXCEPT !.readClosed = TRUE]
                   ELSE [pipe EXCEPT !.writeClosed = TRUE]
  OBVIOUS
<1>2. /\ end \in open /\ waitq' = waitq /\ pending' = pending /\ signalled' = signalled
      /\ halted' = halted /\ \A p \in Holders(end) : Runs(p)
      /\ pipe' = IF c.readClosed /\ c.writeClosed THEN Fresh ELSE c
  BY <1>1 DEF piper_close
<1>3. pipe \in PipeRecords /\ open \subseteq Ends
  BY DEF Sound
<1>4. /\ c.size = pipe.size /\ (end = "read" => c.writeClosed = pipe.writeClosed)
      /\ (end = "write" => c.readClosed = pipe.readClosed)
  BY <1>1, <1>3 DEF PipeRecords
<1>5. CASE ~(c.readClosed /\ c.writeClosed)
  BY <1>2, <1>4, <1>5 DEF InLine, Order, Woken, Waiting, Stuck, NoEntry
<1>6. CASE c.readClosed /\ c.writeClosed
  <2>1. ASSUME NEW k \in Entries, Waiting(waitq, k), waitq[k].pid \notin signalled
        PROVE  FALSE
    <3>1. /\ waitq[k].end \in open /\ waitq[k].end \in Ends /\ ~ClosedEnd(waitq[k].end)
      BY <1>3, <2>1 DEF Ownership
    <3>2. proc[waitq[k].pid] = "BLOCKED" /\ waitq[k].pid \in Holders(waitq[k].end)
      BY <2>1 DEF Sound, Waiters
    <3>3. waitq[k].end # end
      BY <1>2, <2>1, <3>2 DEF Runs
    <3> QED
      BY <1>4, <1>6, <3>1, <3>3 DEF ClosedEnd
  <2>2. (Woken(waitq, signalled, pipe.size, pending))'
    BY <1>2, <2>1 DEF Woken, Waiting, NoEntry
  <2>3. halted = "no" => Order(waitq)'
    BY <1>2 DEF InLine, Order, Waiting, NoEntry
  <2> QED
    BY <1>2, <2>2, <2>3 DEF InLine
<1> QED
  BY <1>5, <1>6

LEMMA InLineStep ==
  ASSUME OneEach
  PROVE  Sound /\ Ownership /\ InLine /\ [Next]_vars => InLine'
<1> SUFFICES ASSUME Sound, Ownership, InLine, [Next]_vars PROVE InLine'
  OBVIOUS
<1>1. ASSUME NEW p \in Procs, NEW n \in IoSizes, sys_read(p, n) PROVE InLine'
  <2>1. PICK z : z = try(Kernel, p, "read", n) /\ Becomes(z)
    BY <1>1 DEF sys_read, try
  <2>2. p \in Holders("read") /\ Runs(p) /\ halted = "no"
    BY <1>1 DEF sys_read, Holders, Up
  <2>3. Line(z)
    BY <2>1, <2>2, CallInLine
  <2> QED
    BY <2>1, <2>3, LineBecomes
<1>2. ASSUME NEW p \in Procs, NEW n \in IoSizes, sys_write(p, n) PROVE InLine'
  <2>1. PICK z : z = try(Kernel, p, "write", n) /\ Becomes(z)
    BY <1>2 DEF sys_write, try
  <2>2. p \in Holders("write") /\ Runs(p) /\ halted = "no"
    BY <1>2 DEF sys_write, Holders, Up
  <2>3. Line(z)
    BY <2>1, <2>2, CallInLine
  <2> QED
    BY <2>1, <2>3, LineBecomes
<1>3. ASSUME NEW end \in Ends, k_open(end) PROVE InLine'
  <2>1. /\ pipe' = [pipe EXCEPT !.used = TRUE] /\ waitq' = waitq /\ pending' = pending
        /\ signalled' = signalled /\ halted' = halted
    BY <1>3 DEF k_open
  <2>2. pipe'.size = pipe.size
    BY <2>1 DEF Sound, PipeRecords
  <2> QED
    BY <2>1, <2>2 DEF InLine, Order, Woken, Waiting, Stuck, NoEntry
<1>4. ASSUME NEW end \in Ends, piper_close(end) PROVE InLine'
  BY <1>4, CloseInLine
<1>5. CASE processWaiting
  <2>1. PICK z \in served[WAITQ_LENGTH] : Becomes(PassEnd(z))
    BY <1>5 DEF processWaiting, PassEnd
  <2>2. Good(z) /\ InPass(z, WAITQ_LENGTH)
    BY <2>1, PassInLine
  <2>3. Line(PassEnd(z))
    BY <2>2, PassEndInLine
  <2> QED
    BY <2>1, <2>3, LineBecomes
<1>6. CASE Idle \/ UNCHANGED vars
  BY <1>6 DEF Idle, vars, InLine, Order, Woken, Waiting, Stuck, NoEntry
<1> QED
  BY <1>1, <1>2, <1>3, <1>4, <1>5, <1>6 DEF Next

\* Between one reader and one writer no wakeup is lost, for any sizes of their
\* calls, of the pipe and of the wait queue, also when the writer outlives a
\* SIGPIPE and leaves any number of calls in the queue.  With more processes at
\* an end one may be: the pass serves a reader before the writer that would have
\* fed it, and the notification of that writer is taken off with the rest.
THEOREM PipeWakes ==
  ASSUME OneEach, ~Reopens
  PROVE  Spec => []NoLostWakeup
<1>1. Init => Ownership /\ InLine
  <2> SUFFICES ASSUME Init PROVE Ownership /\ InLine
    OBVIOUS
  <2>1. \A k \in Entries : ~Waiting(waitq, k)
    BY DEF Init, waitq_init, Waiting
  <2>2. Order(waitq)
    <3>1. \A k \in Entries : Waiting(waitq, k) <=> k < 0
      BY <2>1
    <3> QED
      BY <3>1 DEF Order
  <2>3. Ownership
    BY <2>1 DEF Init, Ownership, FreeIsFresh
  <2> QED
    BY <2>1, <2>2, <2>3 DEF InLine, Woken
<1>2. Sound /\ Ownership /\ InLine /\ [Next]_vars => InLine'
  BY InLineStep
<1>3. Sound /\ Ownership /\ [Next]_vars => Ownership'
  BY OwnershipStep
<1>4. Sound /\ InLine => NoLostWakeup
  <2> SUFFICES ASSUME Sound, InLine, halted = "no", NEW p \in Procs \ signalled,
                      NEW end \in Ends, Blocked(p, end), ~Stuck(end, pipe.size)
               PROVE  pending > 0
    BY DEF NoLostWakeup, Stuck, Sound, PipeRecords
  <2>1. PICK i \in Entries : waitq[i] \in [pid : {p}, end : {end}, n : IoSizes]
    BY DEF Blocked
  <2>2. Waiting(waitq, i) /\ waitq[i].end = end /\ waitq[i].pid = p
    BY <2>1, EntryIs DEF Sound
  <2> QED
    BY <2>2 DEF InLine, Woken
<1> QED
  BY <1>1, <1>2, <1>3, <1>4, SoundInit, SoundStep, PTL DEF Spec

-----------------------------------------------------------------------------
(* The ring of words behind a pipe is a queue.  The refinement mapping is  *)
(* Contents, and the fact that makes it work is the third conjunct of      *)
(* BufferInv: w is where the sequence ends.                                *)

USE BufferAssumption

\* Every call keeps the indexes and the size consistent.
THEOREM BufferInvariant == cbSpec => []BufferInv
<1>1. cb_create_static => BufferInv
  BY DEF cb_create_static, BufferInv, Cell, Cells
<1>2. BufferInv /\ [cbNext]_cbVars => BufferInv'
  <2> SUFFICES ASSUME BufferInv, [cbNext]_cbVars PROVE BufferInv'
    OBVIOUS
  <2>1. ASSUME NEW v \in Words, cb_push(v) PROVE BufferInv'
    BY <2>1 DEF BufferInv, cb_push, Cell, Cells, NextCell
  <2>2. CASE cb_pop
    BY <2>2 DEF BufferInv, cb_pop, Cell, Cells, NextCell
  <2>3. CASE cb_clear
    BY <2>3 DEF BufferInv, cb_clear, Cell, Cells
  <2>4. CASE UNCHANGED cbVars
    BY <2>4 DEF BufferInv, cbVars, Cell
  <2> QED
    BY <2>1, <2>2, <2>3, <2>4 DEF cbNext
<1> QED
  BY <1>1, <1>2, PTL DEF cbSpec

Mapped ==
  /\ Contents \in Seq(Words \cup {0}) /\ Len(Contents) = size
  /\ \A i \in 1 .. size : Contents[i] = data[Cell(i - 1)]

\* The mapped queue is a sequence of size words.
LEMMA ContentsType == BufferInv => Mapped
<1> SUFFICES ASSUME BufferInv PROVE Mapped
  OBVIOUS
<1>1. size \in Nat
  BY DEF BufferInv
<1>2. \A i \in 1 .. size : data[Cell(i - 1)] \in Words \cup {0}
  BY DEF BufferInv, Cell, Cells
<1>3. Contents \in [1 .. size -> Words \cup {0}]
  BY <1>2 DEF Contents
<1> QED
  BY <1>1, <1>3 DEF Contents, Mapped

\* And so it is after a step.
LEMMA ContentsTypePrime == BufferInv' => Mapped'
BY ContentsType, PTL

\* A push into a buffer with room puts the word at the end.
LEMMA PushAppends ==
  ASSUME BufferInv, BufferInv', NEW v \in Words, cb_push(v)
  PROVE  Queue!Push(v)
<1> DEFINE C == Contents
           D == Contents'
<1>1. /\ C \in Seq(Words \cup {0}) /\ Len(C) = size
      /\ \A i \in 1 .. size : C[i] = data[Cell(i - 1)]
  BY ContentsType DEF Mapped
<1>2. /\ D \in Seq(Words \cup {0}) /\ Len(D) = size'
      /\ \A i \in 1 .. size' : D[i] = data'[Cell(i - 1)']
  BY ContentsTypePrime DEF Mapped
<1>3. /\ size \in 0 .. Capacity /\ r \in Cells /\ w = Cell(size) /\ w \in Cells
      /\ data \in [Cells -> Words \cup {0}] /\ v \in Words \cup {0}
  BY DEF BufferInv, Cell, Cells
<1>4. CASE size < Capacity
  <2>1. size' = size + 1 /\ r' = r /\ data' = [data EXCEPT ![w] = v]
    BY <1>4 DEF cb_push
  <2>2. \A i \in 1 .. size : Cell(i - 1)' = Cell(i - 1) /\ Cell(i - 1) # w /\ Cell(i - 1) \in Cells
    BY <1>3, <1>4, <2>1 DEF Cell, Cells
  <2>3. \A i \in 1 .. size : D[i] = C[i]
    BY <1>1, <1>2, <1>3, <2>1, <2>2
  <2>4. D[size + 1] = v
    BY <1>2, <1>3, <2>1 DEF Cell
  <2> HIDE DEF C, D
  <2>5. D = Append(C, v)
    <3>1. Append(C, v) \in Seq(Words \cup {0}) /\ Len(Append(C, v)) = Len(D)
      BY <1>1, <1>2, <1>3, <2>1
    <3>2. \A i \in 1 .. Len(D) : D[i] = Append(C, v)[i]
      BY <1>1, <1>2, <1>3, <2>1, <2>3, <2>4
    <3> QED
      BY <1>2, <3>1, <3>2, SeqEqual
  <2> QED
    BY <1>1, <1>4, <2>5 DEF Queue!Push, cb_push, C, D
<1>5. CASE size = Capacity
  <2>1. /\ size' = size /\ r' = NextCell(w) /\ data' = [data EXCEPT ![w] = v]
        /\ w = r
    BY <1>3, <1>5 DEF cb_push, Cell, Cells
  <2>2. \A i \in 1 .. size - 1 : Cell(i - 1)' = Cell(i) /\ Cell(i) # w /\ Cell(i) \in Cells
    BY <1>3, <1>5, <2>1 DEF Cell, Cells, NextCell
  <2>3. \A i \in 1 .. size - 1 : D[i] = C[i + 1]
    BY <1>1, <1>2, <1>3, <2>1, <2>2
  <2>4. Cell(size - 1)' = w
    BY <1>3, <1>5, <2>1 DEF Cell, Cells, NextCell
  <2>5. D[size] = v
    BY <1>2, <1>3, <1>5, <2>1, <2>4
  <2> HIDE DEF C, D
  <2>6. D = Append(Tail(C), v)
    <3>0. C # <<>>
      BY <1>1, <1>5
    <3>1. Tail(C) \in Seq(Words \cup {0}) /\ Len(Tail(C)) = size - 1
          /\ \A i \in 1 .. size - 1 : Tail(C)[i] = C[i + 1]
      BY <1>1, <1>3, <1>5, <3>0
    <3>2. Append(Tail(C), v) \in Seq(Words \cup {0}) /\ Len(Append(Tail(C), v)) = Len(D)
      BY <1>2, <1>3, <2>1, <3>1
    <3>3. \A i \in 1 .. Len(D) : D[i] = Append(Tail(C), v)[i]
      BY <1>2, <1>3, <1>5, <2>1, <2>3, <2>5, <3>1
    <3> QED
      BY <1>2, <3>2, <3>3, SeqEqual
  <2>7. ~(Len(C) < Capacity)
    BY <1>1, <1>5
  <2> QED
    BY <2>6, <2>7 DEF Queue!Push, cb_push, C, D
<1> QED
  BY <1>3, <1>4, <1>5

\* A pop takes the oldest word.
LEMMA PopTakesHead ==
  ASSUME BufferInv, BufferInv', cb_pop
  PROVE  Queue!Pop
<1> DEFINE C == Contents
           D == Contents'
<1>1. /\ C \in Seq(Words \cup {0}) /\ Len(C) = size
      /\ \A i \in 1 .. size : C[i] = data[Cell(i - 1)]
  BY ContentsType DEF Mapped
<1>2. /\ D \in Seq(Words \cup {0}) /\ Len(D) = size'
      /\ \A i \in 1 .. size' : D[i] = data'[Cell(i - 1)']
  BY ContentsTypePrime DEF Mapped
<1>3. size \in 0 .. Capacity /\ r \in Cells
  BY DEF BufferInv
<1>4. CASE size = 0
  <2>1. C = <<>> /\ rval' = 0 /\ size' = size
    BY <1>1, <1>4 DEF cb_pop
  <2>2. D = <<>>
    BY <1>2, <1>4, <2>1
  <2> QED
    BY <2>1, <2>2 DEF Queue!Pop
<1>5. CASE size # 0
  <2>1. /\ size' = size - 1 /\ r' = NextCell(r) /\ data' = data /\ rval' = data[r]
    BY <1>5 DEF cb_pop
  <2>2. Cell(0) = r /\ \A i \in 1 .. size - 1 : Cell(i - 1)' = Cell(i)
    BY <1>3, <1>5, <2>1 DEF Cell, Cells, NextCell
  <2>3. ASSUME NEW i \in 1 .. size - 1 PROVE D[i] = C[i + 1]
    <3>1. i \in 1 .. size' /\ i + 1 \in 1 .. size /\ (i + 1) - 1 = i
      BY <1>3, <2>1
    <3> HIDE DEF C, D
    <3>2. D[i] = data'[Cell(i - 1)'] /\ C[i + 1] = data[Cell((i + 1) - 1)]
      BY <1>1, <1>2, <3>1
    <3> QED
      BY <2>1, <2>2, <3>1, <3>2
  <2>4. C[1] = data[r]
    BY <1>1, <1>3, <1>5, <2>2
  <2> HIDE DEF C, D
  <2>5. C # <<>> /\ Head(C) = data[r]
    BY <1>1, <1>5, <2>4
  <2>6. D = Tail(C)
    <3>1. Tail(C) \in Seq(Words \cup {0}) /\ Len(Tail(C)) = size - 1
          /\ \A i \in 1 .. size - 1 : Tail(C)[i] = C[i + 1]
      BY <1>1, <1>3, <1>5, <2>5
    <3> QED
      BY <1>2, <2>1, <2>3, <3>1, SeqEqual
  <2> QED
    BY <2>1, <2>5, <2>6 DEF Queue!Pop, C, D
<1> QED
  BY <1>4, <1>5

\* The circular buffer of every capacity is a first-in first-out queue that
\* gives up its oldest word when it is full.
THEOREM BufferIsFifo == cbSpec => IsFifo
<1>1. cb_create_static => Queue!FInit
  BY DEF cb_create_static, Queue!FInit, Contents
<1>2. BufferInv /\ BufferInv' /\ [cbNext]_cbVars => [Queue!FNext]_Queue!fvars
  <2> SUFFICES ASSUME BufferInv, BufferInv', [cbNext]_cbVars
               PROVE  [Queue!FNext]_Queue!fvars
    OBVIOUS
  <2>1. ASSUME NEW v \in Words, cb_push(v) PROVE Queue!FNext
    BY <2>1, PushAppends DEF Queue!FNext
  <2>2. CASE cb_pop
    BY <2>2, PopTakesHead DEF Queue!FNext
  <2>3. CASE cb_clear
    <3>1. Contents' = <<>> /\ rval' = rval
      BY <2>3 DEF cb_clear, Contents
    <3> QED
      BY <3>1 DEF Queue!FNext, Queue!Clear
  <2>4. CASE UNCHANGED cbVars
    <3>1. Contents' = Contents /\ rval' = rval
      BY <2>4 DEF cbVars, Contents, Cell
    <3> QED
      BY <3>1 DEF Queue!fvars
  <2> QED
    BY <2>1, <2>2, <2>3, <2>4 DEF cbNext
<1> QED
  BY <1>1, <1>2, BufferInvariant, PTL DEF cbSpec, IsFifo, Queue!FSpec

=============================================================================
