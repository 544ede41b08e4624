# A verification project for the rl_os kernel

`rl_cpu` is a home-made 16-bit CPU with its simulator (`sim/`), assembler and
linker (`binutils/`), a port of the lcc compiler (`lcc/`) and an operating
system, `rl_os`. The system logic worth verifying is the kernel in
`rl_os/kernel`: a preemptive kernel for one CPU with fork/exec/wait, threads,
signals, blocking reads, pipes, a block cache and a small file system. This
directory models its core in TLA+, checks the models with TLC and proves
theorems about them with TLAPS.

## The system

### Components, their state and operations

| Component | State | Operations | What makes it correct |
|---|---|---|---|
| Scheduler, process table (`sched.c`) | `procs[15]`: state, pid, parent, pending signals, thread flag, selector; `nextPid`, `currentTask` | timer interrupt, `resched`, `sendSig`, slot and pid allocation | pids are unique; the CPU is only ever in a running process; the scan always finds one; every ready process gets its turn; the dead stay dead |
| Kernel worker (`kernel_worker.c`) | `kernelTaskQueue[15]` | `addKernelTask`, the handlers of fork, clone, execve, waitpid, exit; the loop | a parked process always has exactly one task, and a task always a parked process; every task is served |
| Process calls (`sys_proc.c`, `sys.c`) | none of their own | fork, clone, execve, waitpid, exit, yield, kill, decoder fault | as above |
| MMU selectors (`mm.c`) | `selectorMap[64]` | mark, find free | address spaces are private |
| Wait queue (`waitq.c`) | `waitq[15]`, ring of notifications | add entry, notify, next waiter | entries and BLOCKED processes correspond; no wakeup is lost |
| Terminals (`tty.c`) | two UART buffers | UART interrupts, read, write | a reader is woken when there is something to read |
| Circular buffer (`cb.c`) | `r`, `w`, `size`, `data` | push, pop, clear | a bounded FIFO that drops its oldest word |
| Block cache (`blk.c`) | 16 buffers: flags, device, number, count, data | `bread`, `bfree`, `block_sync` | reads show the last write, and a write marked as such is never lost |
| Files (`rlfs3.c`, `sys_fs.c`, `set.c`) | `openFiles` of each process, `FILE` set with counts | open, close, dup, dup2, pipe; fork, clone, execve and exit on the descriptors | counts match references; a `FILE` is reused only when nobody has it |
| Pipes (`piper.c`) | three rings with closed flags, `blockRequest` | open, read, write, close | no wakeup lost; blocked calls go on; a free pipe is as new |
| File system (`rlfs3.c`) | bitmap, inodes, index blocks, directories on disk; position and size of each `FILE` | format, open, read, write, seek, readdir, mkdir, mknod, unlink | a block has one use; the bitmap agrees; files do not touch each other; calls on files lose no buffer of the cache |
| Memory (`mm.c`, `fork.c`, `execve.c`) | page map with reference counts, page tables | copy or share on fork, copy on write, load on execve, free on exit | a page is freed exactly when its last user goes; programs do not see each other's stores |
| ATA driver (`ata.c`) and drives (`HDD` of `sim/sim.hpp`) | command, sector and position of each drive, its contents, its image file | read and write of a sector, word by word; stop, fault, start | a read gives the last write; a stop tears at most one sector |
| libc allocator (`rl_os/libc/c/malloc.c`) | list of markers through the heap | malloc, free, realloc | blocks do not overlap; the list covers the heap |
| Program file format (`execve.c`), loop driver (`loop.c`), kernel library, libc threads | - | - | - |
| The rest of the simulator, binutils, root file system builder | - | - | - |

### How they interact

Interrupt handlers and system calls run with interrupts off on the only CPU,
so each is atomic; what interleaves is the order in which they happen. A
program that calls fork, clone, execve, waitpid or exit is parked (state
KWORKER), a task is queued, and `resched` switches away. The worker is process
0 and is scheduled like any other; it goes round its queue with interrupts off
for one entry at a time, so a timer tick, and with it any program, may come
between two entries. Before each round it drains the notifications that UART
interrupts and pipe operations queued and repeats the blocked reads in the name
of their processes. The task queue, the wait queue and the process table refer
to each other by pid, and all three are changed from interrupts and from the
worker: this is where the kernel can go wrong in ways a test hardly reaches.

The hard behaviours are listed as hazards in `PROJECT.json`, each at the line
where it bites: tasks and wait queue entries that outlive their process, kills
that fall between two steps of the worker, tables at their limits, lost
wakeups, starvation, stale signals, buffers taken from their holders.

## Modules

| Module | Models |
|---|---|
| `FirstFit` | the search for the lowest fitting entry, which all tables of the kernel use |
| `Sched` | `sched.c`, `kernel_worker.c`, `sys_proc.c`, the process half of `fork.c`, the selectors of `mm.c` |
| `WaitQ` | the entries of `waitq.c` |
| `TtyIO` | `tty.c`, `try_k_read` of `rlfs3.c`, `processWaiting`; EXTENDS `Sched` and `WaitQ` and composes them |
| `Pipes` | `piper.c`, `try_k_read` and `try_k_write` of `rlfs3.c`, `processWaiting`; EXTENDS `WaitQ` |
| `Fifo`, `CircularBuffer` | the bounded queue, and `cb.c` shown to implement it |
| `CachedDisk`, `BlockCache` | a disk that keeps what was marked, and `blk.c` shown to implement it |
| `PrivateMemory`, `Memory` | memories that only their owners change, and the pages of `mm.c`, `fork.c` and `execve.c` shown to implement them |
| `Files` | the descriptors of the processes, the `FILE` objects and `set.c`, through `sys_fs.c`, `fork.c`, `execve.c` and exit |
| `FileStore`, `RlFs` | a tree of files that do not touch each other, and the disk structures of `rlfs3.c` shown to implement it |
| `Allocator`, `Malloc` | the promise of malloc and free, and the marker list of libc's `malloc.c` shown to keep it |
| `PowerDisk`, `AtaDisk` | a disk that survives power cycles (EXTENDS `Disk`, the disk that keeps everything), and `ata.c` against the simulator's drives shown to implement it |
| `MCRlFs`, `MCMalloc` | paths, modes and symmetry for the runs of `RlFs` and `Malloc` |
| `FirstFitProofs`, `SchedProofs`, `PipesProofs`, `BlockCacheProofs`, `MemoryProofs`, `FilesProofs`, `DiskProofs`, `MallocProofs` | the theorems, one module for each part that is proved about (`SchedProofs` has `Sched` and `TtyIO`, `PipesProofs` has `Pipes` and the ring, `CircularBuffer`, `DiskProofs` has `AtaDisk` and `RlFs`); `FirstFitProofs` has the lemmas on searches and loops that the others share |

The other modules are instantiated by their `.cfg` files directly: their
parameters are numbers and sets of numbers or model values.

### `Sched`

The variables are the fields of `procs[]`, as functions of the slot, and the
globals of the same name. `parent` is a slot because the code keeps a pointer:
it goes stale when the slot is reused, as in the code. `wpos` is the worker's
place in its loop: entry `wpos` of the queue comes next, and `MAX_QUEUE_SIZE`
stands for `processWaiting` at the top of the loop. `halted` records that the
kernel panicked or wrote through a NULL process (fork with a full table);
nothing is modelled after that.

Each system call is one action, and so is each turn of the worker. `resched` is
one operator that every action that gives up the CPU uses, on the table and
queue its caller leaves. The loop over the slots is described by its result:
`ScanPos` is the order in which slots are visited, `ScanEnds` the slots the
scan may stop at, and the first of them in the order is where it does stop; the
slots with a fatal signal passed on the way (`KilledBefore`) are parked and
their EXIT tasks take the free entries in the same order. A scan that can stop
nowhere kills what it meets (`KilledInVain`) and is the panic of `resched`
(from slot 0 it would not end at all, which is taken for the same).

A program may kill any pid, 0 too, which is the worker (`sys_kill`): the next
scan that comes to slot 0 parks it with an EXIT task that only it could serve.
From then on nothing is served, and when no program is ready the scan stops
nowhere. `WorkerKilled` says that this has happened (the signal is never
cleared). `NoPanic` says that nothing else makes the scan stop nowhere, and
what needs the worker (`TasksServed`, `WaitedForIsReaped`, `FaultKills`,
`ReaderWoken`) is promised while nobody has killed it. The rest holds
regardless: a parked process keeps its task even when no one will serve it.

Abstracted: register frames, arguments and return values of calls, the exit
code, open files and pages. The timer may tick at any moment, which covers
every value of `TIMESLICE` except 0 (writing 0 to `/dev/schedctl` turns
preemption off). `waitpid` has a target that is a pid or 0, which stands for
every pid that is not positive.

### `TtyIO`

`uart` counts the characters in each terminal's buffer, `waitq` and `pending`
are the wait queue and its notifications. `uart_interrupt` delivers any number
of characters. `sys_read` is `try_k_read` on behalf of the caller;
`processWaitQEntry` is the same on behalf of a waiter, and `processWaitingIO`
the loop around it: it runs with interrupts off, so it is one step. What the
kernel can be after some of the notifications (`served`) and of the entries
(`passed`) is a recursive function of their number. It keeps the code's `e`,
the entry pointer that is set once and not for each notification.

The terminals are open, each with its own inode. The readers ask for at least
one character.

### `CircularBuffer` and `Fifo`

All operations of `cb.c`. The refinement maps the ring to the sequence of words
from the read index on.

### `BlockCache` and `CachedDisk`

`bread` is split by what it finds: the block, a free buffer, a buffer to drop
after `block_sync`, or nothing (`hung`: the loop never ends). `held` is not in
the code: it records the pointers handed out and for which block, so that the
properties can say what a caller expects. `modify` is what callers do to a held
block: write to `data` and set the flag. `scribble` is the same without the
flag, which two callers do: a write to a block device (`rlfs3.c:713`) and the
direct entry of an inode under `fs_reset` (`rlfs3.c:356`, reached from 530). So
a buffer that is not marked may differ from the disk, and what was written to
it is lost when it is dropped. The refinement maps the cache to what a reader
of each block would get (`content`) and to what the block goes back to when the
cache forgets it (`kept`): forgetting is a step of `CachedDisk`, losing a marked
write is not.

### `Memory` and `PrivateMemory`

`pageMap`, `selectorMap` and the page tables are those of `mm.c`; an address
space is a selector, and a table entry is a pair (code or data, number). The
flag `PAGE_FLAG_READ_ONLY` is kept apart from the page number, in `readOnly`.
A handler makes many page operations in one step, so those take the state as a
record and return it; a loop that allocates page after page is described by its
result (`NthFreePage`: the k-th allocation gets the k-th free page).
`check_and_fix_page` is used by the trap (`mmu_interrupt`) and by every write
the kernel makes through a window. The trap and the store that caused it are
two steps, so other programs run between them. `Store` is the hardware's part:
it goes through on a writable entry only.

`cow` stands for `ENABLE_COPY_ON_WRITE`, which chooses between the code's two
forms of fork; the repository builds with 0. `Init` picks it from `CowBuilds`
and no step changes it, so one run checks both.
`boot` orders the start: `kernel_main` forks pid 1 from the kernel, with the
data loop stopping below the windows, and pid 1 runs `execve` before anything
else. Abstracted: a page holds one value, so a write of part of a page is a
write of a value; the windows of the kernel's table; threads, which use the
selector of their process.

The refinement maps each space to what a load from each of its pages would see.

### `Files`

A `FILE` is a place of the set's arena and a descriptor a pointer to a place;
`used` and `size` are the marks and the count that `set.c` keeps separately and
that `set_insert` compares. `refcnt` wraps like the code's unsigned. The panics
of the set are states (`halted`), because programs can reach the first by
opening too many files. A process that exited gives up its slot at once: its
zombie has no descriptors, and a wait only delays the reuse of the slot. What
exit does for a thread is in the model as it is in the code: nothing is closed.
`leaked` is not in the code: it records the references lost this way, and those
that `dup2` counts and gives to nobody, so that the counts can be said to be
exact. `dup2_over` in `Calls` is `dup2` on a `newfd` that is open.
`Init` is the state after `kernel_main` opened the terminal and forked pid 1.

### `Pipes`

One pipe, with the processes at each end. Its words are counted, not kept: that
they come out in order is the theorem on the ring. `pipe` has the fields of
`struct pipefile`, `open` the ends that are open, and
`blockRequest` is the global through which a device tells `try_k_read` and
`try_k_write` to block or to signal their caller. `sys_read` and `sys_write`
are those two for the caller; `processWaitQEntry` is the same for a waiter. A
pass of the worker serves the first notification over all entries and takes the
others off without effect, because `e` is not reset. Which ready process runs
next is left open.

A writer without readers gets a SIGPIPE, which does not kill it: the signal is
number 5, `getSignalFromMask` answers at most `SIGNUM` = 4 (`sched.c:204`), and
`resched` kills for 3 and 5 only. The writer is BLOCKED without an entry and
has a signal pending that is never cleared (`signalled`), so `resched` runs it
again (`Runs`): from then on a call that blocks returns to it at once and
leaves its entry behind. It may fill the queue (`halted` "panic"), or
close its end while entries still name the `FILE`, which is freed: those entries
are `stale`, and a notification makes the worker use the freed `FILE` (`halted`
"freed"). Nothing is modelled after either. What the properties promise to
processes that sleep they promise to all others: the calls a signalled process
left behind may be repeated twice, late or never.

Each end is one `FILE` that its processes share, as `pipe()` and fork leave it,
so its last close is the close of the end. Processes that open the node by its
path would each have a `FILE`, and the first close would mark the end; an end
opened for both directions marks nothing when it is closed. The nodes that
`pipe()` and `mkfifo` make have major number 2 (`rlfs3.c:1068`), under which the
kernel registers another device, `proc` (`kernel_main.c:86`); pipes have 3. So
only a node made with `mknod` and major 3 leads to `piper.c`. A signalled
process that exits while it has entries is the case of `tty_kill`, and not in
this module.

### `RlFs` and `FileStore`

`fs.marked` is the bitmap and `fs.disk` the blocks behind it: a block holds an
inode, data or block numbers, whichever was written to it last, so that a block
with two uses shows. Sizes and offsets count units of 32 words (a directory
entry), the grain at which programs of the run read and write. `files` keeps
for each `FILE` what `fs_open` sets: inode, size at the time of open, position.
`fs.kept` counts the buffers that the early returns of `fs_read` and `fs_write`
keep for ever. A write to a block device (`blkdev_write`, `rlfs3.c:700`) always
keeps one: there is no `bfree` and no `BLOCK_MODIFIED` in it. `blkdev` counts
these, up to `MaxBlkdev`, and `FileCallsKeepNone` is about all other calls; the
device is taken to be another one than that of the file system, whose blocks
such a write would change under it. Every call is one step, as it is with interrupts off. The module
stands on the disk that `BlockCache` is proved to be, on which bread and bfree
do not show, except in `kept`: its writes set the flag, but the one that
`fs_reset` and `fs_read` would make for a unit below the end of a file that has
no block, and `FilesMapped` says that there is none.

Allocation on demand is in the model where the code has it: `fs_write` takes
the block behind the end of a full one at once, `fs_reset` walks the file with
the same function that allocates, `fs_create` appends entries and never reuses
a hole. `FileStore` knows paths, kinds and contents only.

What the programs of the run do not do is named in `Abuses`, because the file
system does not survive it: open with `O_WRONLY` alone, unlink an open file,
name something below a file, go on when the disk is full.

### `Malloc` and `Allocator`

`marker` is the list, by address; `ptr` what the program holds. `Split`, `Join`,
`Taken` and `Freed` are the pieces of malloc and free. The list is in address
order, which `ListCoversHeap` says and the code relies on, so the walk from the
head is the lowest free block. `Abuses` has what the program of the run does
not do: use the heap further while a block is in use that fitted closely (it
stays marked free), and realloc to more than the block had.

What no program can avoid is a realloc that finds no memory: it asks for as much
as the old block has, even to make it smaller, and copies the block to what
malloc returned (`malloc.c:170`). With NULL that is the start of the program's
data segment, which is mapped, so nothing traps: `malloc_head` and other globals
are overwritten, and markers if the heap begins soon enough. `reallocToNull`
sets `ruined`, which the run reaches, and nothing is modelled after it: the
properties say what holds until then, and in `Allocator` the same step ends the
promise (`Break`).

### `AtaDisk` and `PowerDisk`

Both sides of the ports: the driver's call, by the port accesses it has made,
and the drive's `cState`, `cSector` and `cPos`, of which neither looks at the
other's. `cPos` counts words where the code counts bytes in steps of two.
`terminate` is SIGINT to the simulator at any point between two accesses: it
writes the images. `faultExit` is every end that does not. `start` loads the
images and runs `ataInit`. `old` is not in the code: it keeps the sector a call
is about. The refinement maps a sector being written to what it held before,
so a write happens when it returns, and an orderly stop in between is the one
step that may tear a block.

## Runs

| Run | Result | Shows |
|---|---|---|
| `sched_safety` | pass, 727,467 states | all calls on 3 slots, 4 pids, kill of the worker included: table, queue and selectors stay consistent, nobody is forgotten, the dead stay dead, no panic unless the worker was killed; the inductive invariant of the proofs |
| `circular_buffer` | pass, 5,485 states | refinement of `Fifo` |
| `tty_safety` | pass, 189,347 states | wait queue and table agree, no lost wakeup, no panic, with all calls except kill |
| `kernel_live` | pass, 119,941 states | in `TtyIO`, with kills: no starvation while the kernel is up, and, while nobody has killed the worker, every task is served, a dead process waited for is reaped, a fault kills, a blocked reader is woken |
| `tty_kill` | violation | the panic in `processWaitQEntry` is reachable through kill and waitpid |
| `block_cache` | pass, 51,267 states | refinement of `CachedDisk`; held buffers stay; one copy of a block |
| `memory` | pass, 12,808 states | programs have private memory, with copy on write and with the build's setting, where fork copies: refinement of `PrivateMemory`; counts, read-only flags and tables agree, the pages suffice |
| `files_counts` | pass, 1,394,343 states | counts equal descriptors (and what dup2 and exited threads leak), the set agrees with itself, a descriptor keeps its file, through every call but a `dup2` over an open descriptor |
| `pipes` | pass, 84,246 states | a reader and a writer, who goes on after a SIGPIPE: blocked calls and entries agree, no lost wakeup, a free pipe is as new, and (under fairness of the worker) a blocked call whose condition came true is finished |
| `rlfs` | pass, 32,324 states | no block has two uses, all are marked, files are mapped up to their size, calls on files keep no buffer: refinement of `FileStore` |
| `malloc` | pass, 14,890 states | the list covers the heap, blocks in use are private and large enough, free blocks are joined, until a realloc copies to NULL: refinement of `Allocator` |
| `ata_disk` | pass, 287,312 states | driver and drive stay in step, a stop tears one sector at one place: refinement of `PowerDisk` |

`TtyInv`, `MemInv`, `FilesInv`, `PipesInv`, `TreeSound`, `AtaInv`, `CacheInv` and
`SchedInv` are conjunctions of named parts, the module's type invariant first;
a part that is also listed in a `.cfg` by itself is one to look at by itself.

### Bounds

`MAXPROC`, `MAX_QUEUE_SIZE` and `mmuSelectorNum` are 3 or 4 instead of 15, 15
and 64: one slot is the worker, so two or three programs run, which is enough
for a parent, a child and a sibling or thread, and for a full table. The queue
is as long as the table, as in the code. `MaxPid` bounds the pids handed out:
with 4 pids on 3 slots, slots, selectors and queue entries are reused. Pids do
not wrap within the bound; the theorems assume the same (`MaxPid <
UINT_RANGE`). `Calls` and `Sigs` choose what the programs of a run do.
`Burst` bounds the notifications outstanding, because nothing in the code
does and an overflow panics (`waitq.c:74`). The ring is checked at capacity 4,
the cache with 2 buffers for 3 blocks, so that blocks are evicted.

`Memory` is checked with as many pages as its assumption asks for and no more,
so that every page is reused: two programs and two values, the fewest that tell
a copy from a shared page, with data segments of two pages, so that a result
the kernel stores can lie across two of them. A page with three users needs one
program more, which is too many states with contents; with `MAXPROC = 4`,
`NCODE_PAGES = NDATA_PAGES = 1`, `pageMapSize = 7`, one value and copy on write
the invariants hold as well (30,498 states). `Files` has three
processes of two descriptors and three places in the set (the code: 15, 15 and
10), so that together they fill it; `MaxRefs` bounds the counts that `dup2` and
clone can raise without end.

`Pipes` has a pipe of four words and calls that move fewer, as many and, with
what is in it already, more than fit; the notifications have room enough, since
`Burst` stops the processes until the worker has run. The wait queue overflows
only through the calls of a writer with a SIGPIPE, which the run reaches. `RlFs` has blocks of two units, inodes with one direct entry
and one index block of three, so that a file of three units uses all three
kinds of block; thirteen blocks hold the three paths and are reused after
unlink, and one `FILE` is open at a time (a file never shrinks while it is
open, so a second `FILE` meets no state the first could not have left), and one
write goes to a block device (`MaxBlkdev`). `Vals` is a
symmetry set: no value is special. `Malloc` has a heap of 32 words, where the
five sizes split, fit closely and fail; the pointers are symmetric. `AtaDisk`
has one drive, because the two have ports and state of their own and share
nothing, of two sectors of two words; sector number 2 is past the image.

Deadlock is not checked for `Memory` and `Files`: there, every program may
exit, and a kernel with no program left does nothing to pages and files.

### Fairness

Weak fairness of the timer: it ticks whatever the machine does. Strong fairness
of the worker's sections (`WorkerAdvances`): whenever the worker is scheduled it
has a whole time slice, and it is scheduled again and again because the timer's
scan goes round the table, so that it cannot be preempted for ever before each
section. Programs owe nothing: none need make a call, yield or exit, and no
character need arrive. `Pipes` has weak fairness of the worker's pass, which
`kernel_live` shows to come again and again. A kernel that has panicked does
nothing more, and one whose worker was killed serves nothing, so the liveness
properties allow for `halted` and `WorkerKilled`; both happen (see Findings).

### Findings

A kill of a blocked reader leaves its wait queue entry; the assertion of
`kernel_worker.c:271` fails at the next character (run `tty_kill`).

`waitpid(WAIT_ANY)`, "Any process." in `wait.h:38`, looks only at the child in
the lowest slot (`kernel_worker.c:183`): a dead sibling is not collected while
that one lives. `WaitedForIsReaped` therefore speaks of waits for a pid.

Met while modelling, each reproduced by changing a line or two, most of a `.cfg`:

| Change | Fails | What the code does |
|---|---|---|
| `Sched.tla`: `NoPanic` without `=> WorkerKilled` | `NoPanic` of `sched_safety` | kill takes pid 0; the worker is parked (`sched.c:275`), and after one fork more `resched` panics where it says "we should never get here" (`sched.c:266`) |
| `KernelLive.cfg`: `Sigs = {2, 3}` | `FaultKills` | signals are never cleared and the lowest hides the others (`sched.c:273`), against "Killing" of `sys.c:126` |
| `FilesCounts.cfg`: `dup2_over` in `Calls` | `CountsHolders`, and further on `FilesInv` | `dup2` leaves the descriptor of the file it closed (`sys_fs.c:295`); when that is closed again the set counts down twice, and `set_insert` panics |
| `TtySafety.cfg`: `Ttys = {1, 2}` | `NoLostWakeup` | the second of two notifications pending in one pass is dropped, because `e` is not reset (`kernel_worker.c:290`) |
| `Pipes.cfg`: `Readers = {1, 3}` | `NoLostWakeup` | for the same reason a reader that blocks again into an entry already passed sleeps with words in the pipe |
| `Pipes.cfg`: `Reopens = TRUE` | `FreeIsFresh` | an end opened again stays marked closed (`piper.c:124`) |
| `RlFs.cfg`: `Abuses = {"wronly"}`, `Modes <- MCWriteOnly` | `UsedIsMarked` | `O_WRONLY` frees the inode of the file it opens (`rlfs3.c:594`) |
| `RlFs.cfg`: `Abuses = {"unlink_open"}` | `TreeSound` | an open `FILE` outlives its inode (`rlfs3.c:545`) |
| `RlFs.cfg`: `Abuses = {"file_as_dir"}`, without `IsFileStore`, whose mapping has no value there | `FilesMapped` | nobody looks at `FS_NOT_A_DIR` (`rlfs3.c:893`) |
| `RlFs.cfg`: `Abuses = {"full"}` | `FilesMapped` | a full disk hands out block 0 (`rlfs3.c:225`) |
| `Malloc.cfg`: `Abuses = {"tight"}` | `BlocksInUse` | a close fit stays marked free and is handed out twice (`malloc.c:96`) |
| `Malloc.cfg`: `Abuses = {"grow"}` | `BlocksInUse` | realloc ignores the size asked for (`malloc.c:165`) |

The runs that pass leave these cases out by their constants, and say so: what
they show holds for programs that keep to the rest.

## Theorems

All are proved for every value of the constants, from assumptions that the
modules name and the code justifies:

- `SchedAssumption`: the queue is at least as long as the table, a selector for
  each slot (15, 15 and 64 in the code), and pids that do not wrap.
- `TtyAssumption`: the wait queue too is at least as long as the table (15 and 15).
- `BufferAssumption`, `CacheAssumption`: a capacity, at least one buffer.
- `MemoryAssumption`: as many physical pages as the kernel's and, for each other
  process, a full code and data segment, so that `mmu_get_free_page`, whose
  failure no caller looks at, never fails. With the windows inside both the
  kernel's pages and the data segment.
- `FilesAssumption`: counts below their bound do not wrap; the standard
  descriptors fit both tables.
- `AtaAssumption`: a drive of fewer than 2^16 sectors, whose numbers fit the two
  registers the driver writes; drive 0 is there.
- `RlFsAssumption`: the sizes of inodes and blocks are positive, files and
  directories fit an inode, a directory has room for its two entries, and no name
  on a path is empty. `DiskAssumption`: a disk that `fs_mkfs` has not filled.
- `MallocAssumption`: the heap ends two markers before the address space does,
  so that no sum in `malloc` wraps (`malloc_init_auto` passes 0xFF00).

What is proved, and how:

- `SchedProofs`: `SchedInvariant` (Spec => []SchedInv) and from it types,
  `NobodyForgotten`, `NoStaleTask`, `SchedulerFindsWork`, `PidsAreUnique`,
  `AddressSpacesPrivate`, and the action property `DeadProcessesStayDead`.
  `ParkedHasTask` is not inductive: that `addKernelTask` finds a free entry
  needs that each entry belongs to a different parked process, that there are
  at least as many entries as slots, and that the process making the call has
  none, because it is RUN; that `resched` stops somewhere needs that the worker
  is RUN or was killed, and that it was killed if it is parked; that fork finds a
  selector needs that every marked one has an owner. `SchedInv` is the
  conjunction. Sets of calls and signals are arbitrary, kill of pid 0 included:
  `SchedulerFindsWork` says that only a SIGKILL to the worker lets `resched`
  panic. The proof
  first describes the effect of `resched` (which slots change state, which
  entries are filled) in lemmas, one of them on the matching of killed slots
  with free entries through the counting lemmas of `FirstFitProofs`
  (`RankIncreases`, `RankOnto`), and then has one lemma per action.
- `SchedProofs` on the terminals: `TtySound` (Spec => []TtyInv), for any number
  of terminals and any lengths; `TtyNoPanic`, if no more notifications pile up
  than the queue has places for, which says besides that no signal ever reaches
  the worker (TSpec => [](NoPanic /\ ~WorkerKilled)); `TtyWakes` (Spec => []NoLostWakeup) for one
  terminal. All three are for programs that do not kill: a killed reader leaves
  its entry behind and the kernel panics (run `tty_kill`), and with two
  terminals `NoLostWakeup` is false (Findings). The lemmas on the process core
  are stated for a table in which processes may be BLOCKED, so that `SchedInv`
  and `Terminals`, the invariant of `TtyIO`, share them. What `Terminals` adds
  beyond `TtyInv` is that no blocked process has a signal pending, because
  `resched` wakes one that has and leaves its entry behind; a fault is the only
  source of signals, and its victim never runs again (`Quiet`). That a reader
  finds a free entry follows as it does for tasks: entries belong to different
  processes, none to the worker (`RoomToWait`). A visit to an entry passes it
  over, serves its reader or moves him to another entry (`VisitIs`), and the
  stages of a pass are the recursive functions `passed` and `served`, as in
  `Pipes`. `TtyWakes` holds because the first notification takes the worker
  past every entry (`FirstWakeDrains`), although the later ones find nothing
  (`LaterWakeIdles`).
- `PipesProofs`: `PipesSound` (Spec => []PipesInv), for any number of readers and
  writers and any lengths; `PipeFresh`, if no end is opened again (`Reopens`
  false: otherwise the run refutes it, see Findings); `PipeWakes`
  (Spec => []NoLostWakeup) for one reader and one writer besides, which is how
  a shell uses a pipe: with two readers it is false as well. All three have
  writers that go on after a SIGPIPE. A call ends in one of four ways
  (`Returns`, `Signals`, `FindsNoRoom`, `Blocks`), and one repeated by the worker
  too (`Retried`). An entry's call is repeated in its process's name, so the
  invariant says of each entry which end its process holds and that no process
  without a SIGPIPE has two (`Waiters`). `Ownership` adds for `PipeFresh` that
  the ends marked closed are the closed ones and that calls wait on open ends,
  or in stale entries, which the worker never repeats (`Owned`). A pass is the
  recursive function `served`; that every stage of it keeps an invariant is
  `LoopEnds` of `FirstFitProofs`, an induction over an interval of numbers that
  needs no induction theorem of the library. `PipeWakes` is about who sleeps:
  whatever waits beside his one call waits at the other end (`Alone`), and a
  pipe is not full and empty at once (`OneStuck`). The queue has no holes
  between passes (`Order`), and in a pass no more than one stretch of them
  (`Shape`), which places a call that blocks again before or behind the worker.
  Its stages keep `Settled`: a sleeper whom the worker has passed, or who is
  stuck, is stuck now and nothing lies behind him to be repeated, so that what
  is repeated later cannot be at his cost. On the ring: `BufferInvariant` and
  the refinement `BufferIsFifo`.
- `BlockCacheProofs`: `CacheInvariant`, `HeldBlocksStay` and the refinement
  `CacheIsDisk`. The invariant adds that a count equals the number of holders
  and that no block is cached twice; the last makes the refinement mapping a
  function.
- `MemoryProofs`: `MemInvariant`, from it `CountsAreUsers` and
  `SharedPagesReadOnly`, and the refinement `MemoryIsPrivate`, in both builds.
  A call makes many page operations, so each operation (a write with its copy,
  freeing, the two forms of fork, loading) has a lemma that it keeps a memory
  sound and whose view it changes, and a step puts them together. That a free
  page is found follows from counting: every place a process could map
  that is not in use leaves a page (`PagesSuffice`), and `RankOnto` makes the
  k-th allocation of a loop get a page of its own. Beside counts and flags,
  `MemInv` needs that nothing changes the kernel's mapping (`KernelKept`), that
  the kernel is alone until it has forked (`BootAlone`), and that only mapped
  entries are flagged read-only: with a flag on a free entry the next page
  mapped there would be taken for shared.
- `FilesProofs`: `FilesInvariant`, `CountsExact` and the action property
  `DescriptorsStay`, for programs that make no `dup2` over an open descriptor
  (with one the code leaks the place, as the hazards say, and the count of
  holders is exact no more). `set_insert` compares a count of its own with its
  capacity, so that it finds a place needs `SizeCounts`; that counts do not wrap
  needs `LeaksBounded`, since what is leaked is never given back.
- `DiskProofs`, the drives: `AtaInvariant` and the refinement `AtaIsPowerDisk`. The
  invariant ties the progress of the driver's call to the drive's `cState`,
  `cSector` and `cPos` (`InStep`); nothing else says that the next word moved is
  the next word of the sector, since neither side looks at the other's.
- `DiskProofs`, the file system: `BlocksStayPrivate`, `UsedStaysMarked`,
  `FilesStayMapped`, `BuffersReturned`, `TreeStaysSound` and the refinement
  `FilesAreAStore`, for programs that do none of the `Abuses` (with each of them
  one of the six is refuted, as the hazards say). The
  inductive invariant `FsInv` says more of the disk than of the tree: it owns a
  set of inodes `N` and a function `own` from blocks to the one place (inode,
  slot, entry) where their number stands, so that a block cannot stand at two
  places, a block that stands somewhere is marked, and a block that is not marked
  stands nowhere (`Layout`); that files and directories have their blocks up to
  the one behind the end, files hold data and directories entries (`Shape`); that
  entries name inodes of `N` (`Entries`), those of files and devices once
  (`Single`), or unlink would leave a name for a freed inode; and that a `FILE`
  stands inside its file (`Stand`), or a write would start behind the end. Each
  piece of the code has a lemma: a block taken directly, in an index block, or with
  a new index block (`DirectTaken`, `EntryTaken`, `IndexTaken`, `BlockTaken`), the
  loop of `fs_write` (`WriteDone`) and of `fs_reset` (`Removed`), which needs that
  nothing has to be allocated while a file is freed, a new inode (`Created`), a
  lookup (`LookupFinds`). Bitmap and tree are then what the lemmas say of `own`.
  For the last two theorems no path of the programs has `.` or `..` on it
  (`PlainPaths`): those are second names of directories, of which the promise
  does not hold. `FsInv` then also has a function `at` from inodes to the path
  each lies on (`Rooted`): different inodes lie on different paths, and every
  entry leads one name further down. So the inodes a path leads to are those that
  lie on it (`ReachedPlace`), one or none, and a lookup that fails says that none
  does (`LookupLeads`), without which `fs_create` would make a name twice. Each
  call then has a lemma that it moves `at` by at most one inode and changes what
  one path shows (`MadeStep`, `RemovedStep`, `WroteStep`): for a write, that what
  is read afterwards is the old data with the new laid over it (`FileView`), block
  by block, and that every other file reads as before (`WrittenViews`).
- `MallocProofs`: `MallocInvariant`, from it `ListCovers`, `NoBlockShared` and
  `FreedIsWhole`, and the refinement `MallocIsAllocator`, for the programs of
  the run: they use no block that fitted closely beside another call and
  grow none. Both are refuted without that, with the constants the hazards name.
  All four speak of the heap until a realloc finds no memory (`ruined`).
  Lemmas say what `Split` and `Join` do to each marker and that they keep the
  list a cover of the heap; `Freed` is two joins at most. That no block reaches
  into another and that each back pointer has its forward one are part of
  `ListCoversHeap`, because neither follows from the links of one block.

Only model-checked:

- Liveness, under fairness: `kernel_live` and `CallFinished` of `pipes`.
- Passes in which a kill left an entry: `kernel_live` has them.

## Not modelled

- The program file format, the kernel library, binutils and the root file
  system builder: sequential conversions of data.
- The loop driver, which calls the file system from inside the block cache:
  modelling it means making a cache call many steps. `block_sync` may
  then write a block of a loop device, whose driver calls `bread`, which with no
  buffer free calls `block_sync` again and meets the same modified buffer
  (`blk.c:22`). `blkdriver.c` is a table filled at boot.
- The simulator but for its drives: instruction decoding is a table. The
  threads of the devices set bits of `pendingInterrupts` while the CPU clears
  others, without a lock (`sim.hpp:259`), a timer tick during the instruction of
  a system call may be served first (`sim.hpp:280`), and an instruction that
  faults is repeated without its stack pointer restored (`sim.hpp:1084`). The
  kernel's modules take the machine to be free of this: a system call is one
  step with the instruction that makes it.
- What lies outside the arrays: the scan of `resched` reads one slot behind the
  table (`sched.c:249`), `malloc` of 0xfff8 words and more wraps
  (`malloc.c:64`), a code size in a program's header is not compared with the
  segment (`execve.c:208`), a drive stores a write past its image
  (`sim.hpp:383`). The runs stay inside.
- A UART interrupt before the terminal is open or after it was closed
  (`tty.c:27`): `TtyIO` takes terminals as open. A read of no characters
  (`tty.c:68`). What a thread may do after its process has exited and its pages
  and selector are free (`kernel_worker.c:249`).
- Writes to the block device that holds the mounted file system, and the data
  of block devices in general (`RlFs` has only the buffers that writes to them
  keep, `BlockCache` the writes). Mounts, ioctl, chdir and stat; threads in `Memory`; libc's threads, a thin
  layer over clone.
- What the heap is after a realloc copied to NULL, the pipe after the worker
  used a freed `FILE`, memory after a fork into a full table: the models stop
  there.
- Vendored and ported code (`lcc/`, `rl_os/app`, most of `rl_os/libc`), which is
  most of the repository's lines, the older kernel in `os/` and the hardware
  notes in `old/` and `specs/`.
