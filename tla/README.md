# TLA+ models of os-from-scratch

This directory specifies, model-checks and partly proves the three programs of the
repository: the user-level thread library (`src/thread_library`), the network file
server (`src/filesystem.cpp`, `networking.cpp`, `parsing.cpp`) and the external
pager (`src/pager_library`).

All definitions are translated from the code, not from the root `README.md`,
which describes another server (sessions, encryption, appends, a single-level
directory) than the one in `src/`.

## Inventory

| Component | State | Operations | What is hard about it |
|---|---|---|---|
| Scheduler, `cpu.cpp` | `guard`, `ready_queue`, `cpu_vec`; per CPU `is_idle`, `last_context`, `to_kill` | constructor, `swap_self_to_queue`, `watch_suspend`, timer and IPI handlers, `check_ready_and_wake` | the guard is taken in one context and released in another; wake-ups race with going to sleep |
| Threads, `thread.cpp` | `alive`, `join_waiting_queue` | create, join, yield, exit | a finished thread's stack cannot be freed by itself; joins race with exits |
| Mutexes, `mutex.cpp` | `free`, `owner`, `waiting_queue` | lock, unlock | hand-over to a waiter that runs later, on another CPU |
| Condition variables, `cv.cpp` | `waiting_queue` | wait, signal, broadcast | release and sleep are one step, waking and relocking are two |
| File system, `filesystem.cpp` | the disk, `free_disk_blocks`, `data_locks` | `fs_init`, `FS_CREATE`, `FS_DELETE`, `FS_READBLOCK`, `FS_WRITEBLOCK` | hand-over-hand locks, upgrades, locks that are created and dropped, order of disk writes, full disk |
| Connections, `networking.cpp`, `fs_server.cpp` | the descriptor table; per connection a thread with its header and request | accept, read header and data, execute, reply, close | clients that stop anywhere, descriptors that are reused at once, short and failing reads |
| Parser, `parsing.cpp`, `request.h` | none | `parse_request`, `request_string` | boundaries of the accepted headers, widths of numbers |
| Pager, `vm_pager.cpp` | `process_table`, `clock_queue`, free pages and swap blocks, the table of file pages | `vm_init`, `vm_create`, `vm_switch`, `vm_fault`, `vm_map`, `vm_destroy` | copy-on-write sharing, eviction in the middle of a fault, reserved swap blocks, failing reads |
| Pages, `Page.cpp` | page table entries, `resident`, `dirty`, `clocked` | `updatePTEs` | one page behind many entries |
| Listening socket | one socket | `server_connect` | not modelled: pure I/O before the first connection |
| Client library, `fs_client.h` | | | not modelled: only the header is there |

The thread library, the file server and the pager do not call each other: the
server runs on boost threads. The hazards of the code, line by line, with the
properties that cover them, are in `PROJECT.json`.

## Modules

| Module | Content |
|---|---|
| `ThreadLibrary` | scheduler, threads, mutexes and condition variables, and their properties |
| `MCThreadLibrary` | instances for TLC |
| `ThreadLibrary_proofs` | its invariants, and that it implements `Monitor` |
| `Monitor` | what the library promises: mutexes and condition variables without CPUs |
| `Disk` | what the blocks of the disk hold, the walk of `fs_init` and the list it makes, and what a sound disk is |
| `FileSystem` | the server threads on the disk, at the grain of disk accesses and lock operations |
| `AtomicFileSystem` | what the server promises: a tree on which requests take effect one at a time |
| `FileSystemProperties` | invariants of the disk, the locks and the free list |
| `FileSystemRefinement` | the refinement mapping to `AtomicFileSystem` |
| `FileSystemInvariant` | the inductive invariant of the server, and what a step of one thread leaves alone |
| `MCFileSystem` | requests and disk images for TLC |
| `Disk_proofs` | what each write of the server makes of the tree on the disk |
| `FileSystemLocks_proofs` | the lock discipline of the server |
| `FileSystemFrame_proofs` | a step of one thread keeps what the others rely on; what the invariant implies |
| `FileSystemThread_proofs` | a step of a thread keeps what the thread relies on itself |
| `FileSystem_proofs` | every step keeps the invariant, and the theorems |
| `RequestParser` | how headers are written and read |
| `Connection` | accepting, `handle_connection`, clients and network, on top of `AtomicFileSystem`; its properties |
| `MCConnection` | messages and files for TLC |
| `Connection_proofs` | ownership of descriptors, intended requests and answers |
| `Pager` | the pager with memory, disk and page tables, the kernel's calls and the accesses of processes |
| `ProcessMemory` | what the pager promises: an arena per process, and shared files |
| `PagerProperties` | invariants of the pager; the refinement mapping |
| `MCPager` | file names and symmetry for TLC |

Operators whose comment begins with "Fault:" are not part of the models. Each is
a version of the definition after it with a plausible mistake in it; with the
mistake, TLC finds the property named in `PROJECT.json` violated.

### ThreadLibrary

`last_context[c]` is the thread whose context CPU `c` runs, `queue[q]` is the
deque of contexts of the ready queue, a mutex, a condition variable or a
thread's joiners. Every library call disables interrupts and takes `cpu::guard`;
the guard is released by the context that comes out of the switch. A call is
therefore two steps: the action named after the call, which takes the guard,
does the work and switches, and `Resume`, which finishes whichever context was
switched to (`cont` says where in the library it stopped) and releases the
guard. Between the two no other CPU can do anything but run user code, spin or
sleep. Interrupts come only where the code has them enabled: in user code, and
in `watch_suspend` between the end of the suspension and `interrupt_disable`.

The application is arbitrary: a running thread may make any call at any time,
also wrong ones (unlocking a mutex it does not own, waiting without the lock),
which throw and are `Refused`. `held` is the application's view, the mutexes it
has locked; `MutualExclusion` is about `held`, not about the library's `owner`.
An application that never calls is modelled by the absence of fairness on
`Application`.

External and modelled from its use: `interrupt_enable_suspend` (an IPI that was
sent before the suspension ends it), the delivery of IPIs, the boot of the CPUs.
`cpu.h` does not say whether all CPUs are constructed before the first thread
runs; `LateBoot` selects between the two readings.

### Monitor and the refinement

`Monitor` is the library as its application sees it: every thread that does not
wait can take its next step, a mutex has a holder and a line of waiters, `wait`
hands the mutex over and joins the line of the condition variable in one step.
`ThreadLibrary` maps its queues, except the ready queue, to the lines, and the
holder of a mutex to the thread that has it or that it has been handed to and
that has yet to run. Guard, CPUs, idle and boot states, interrupts, preemption and
the freeing of stacks are steps that do not show. The refinement says what the
invariants do not: mutexes go to waiters in the order of their calls, a signal
wakes the first waiter and nobody else, a waiter cannot miss a signal between
releasing the mutex and sleeping, and a woken thread asks for its mutex like any
other, without a place kept for it.

### FileSystem

Each server thread executes one request at a time; `pc` names the next disk
access, lock acquisition or critical section, and `loc` holds the local
variables that are still needed (path index, inode copy, direntries copy, new
blocks). A disk block is an inode, an array of entries, or data. What a thread
computes locally, and the locks it releases, belong to the step before.
`cur` and `nxt` are the `shared_ptr`s to lock objects, `hold` the locks held
through them. `data_locks` maps a block to its current lock object, and a lock
object is a block and a number, so that two lock objects for one block, the
hazard of `data_locks.erase`, can be told apart.

`boost::shared_mutex` is external: any number of shared owners, one upgrade
owner beside them, or one unique owner; an upgrade owner becomes unique when it
is the last one. The code never waits for a unique lock directly, so boost's
preference for waiting writers plays no part. `disk_readblock` and
`disk_writeblock` are atomic (`fs_server.h` documents them as thread safe).

`Crash` is the end of the process at any step and a new start: the disk stays,
everything else is as `fs_init` makes it.

An unused entry keeps its old name in the code; the name of an unused entry is
never read, so the model clears it. The contents of `fs_inode::blocks` past
`size` are uninitialised and never read, and are left out.

### AtomicFileSystem and the refinement

The abstract state is a tree (path to type, owner and data) and a pending
request and result per thread. `FileSystemRefinement` maps the disk to the tree
it spells out. A create, an append and an overwrite take effect with their last
disk write, a delete with the write that unlinks, a refusal when the thread
gives up, a read when it gets the lock of the file. The last is the interesting
one: the file may be unlinked after that, by a delete that then waits for the
reader, and the reader still returns a block of the file as it was.
A refusal is allowed only if the tree at that moment does not allow the
request, or if the request needs space.

### RequestParser and Connection

A header is a sequence of characters, with the four command words as one
character each. `request_string`, `split` and `parse_request` are written out as
functions on such sequences, with the widths of `unsigned long` and `uint32_t` as
constants so that cutting a number down is seen on small ones. `std::stoul` is
external: sign, digits, and whatever follows is ignored. `parse_request` catches
`invalid_argument`; where another exception leaves it (an empty pathname or
argument, a number out of range) the result is `Thrown`.

`Connection` has one client per connection. A step of the server is one call of
`accept`, `recv`, `send` or `close`, or the effect of `execute_request`, which is
`AtomicFileSystem`'s: the model composes the connections with what the file system
was shown to promise. The descriptor table gives a closed descriptor to the next
connection, so a thread that closed twice or too early would meet another client's
stream. An exception that no one catches ends the process (`Terminate`), with all
its connections.

A message is any header without a null byte and any data. What it asks for is
`RequestOf`: what `parse_request` makes of the header and, for a write, the data in a block
of zeroes, cut off at the end of the block; `Needed` is how much of the message that takes.
A client that ends earlier has cut its message short (`CutShort`).

External and modelled from their use: clients, which send their message in pieces,
pause, close or reset; the stream, which delivers in order; `recv`, which blocks,
returns bytes, 0 at the end, -1 after a reset, and with `MSG_WAITALL` a whole block
or what is left at the end; `send`, which never fails visibly (its result is not looked
at); `accept`, which is called again when it fails. A reset may overtake bytes that came
before it, so `recv` then returns either -1 or those bytes, with `MSG_WAITALL` possibly
fewer than a block.

### Pager

The kernel calls the pager for one process at a time, and a call is one step. The
calls are nested (`vm_map` faults on the page with the file name, `vm_fault` evicts,
and evicts the very page it is copying), so they are operators from the pager's data
`vm` to the data after the call, or to the set of the possible results.
A `VirtualPage` is named by its first block, its `PhysicalPage` is part of it;
an expired `weak_ptr` on the clock is `Expired`. Which free page or block is taken
is left open, as the code's comment says the order does not matter. What the MMU
reads is `ptes`: a load or a store is possible exactly when the entry of the current
process allows it, and goes to the physical page in the entry. Else the process
faults. `assert_structure_consistency`, which the code runs at the end of every call,
is translated and checked as a property; so are the assertions of `updatePTEs`, which set
`aborted` where they fail.

External and modelled from their use: the kernel, which switches to a process before
it runs it, destroys the one that runs, and ends a process whose access fails; the MMU;
`file_read`, which may fail or succeed on a block until it has succeeded once, and
then always succeeds (`vm_pager.h:104-108`); `file_write`, which does not fail (the code
does not look at its result). `vm_create` for an unmanaged parent makes the child the
current process (`vm_pager.cpp:246`), also when managed processes exist, although the
comment says "only runs first time". `CreateRoot` does so at any time; since it is the
parent that ran, a `vm_switch` comes before a managed process runs again.

`ProcessMemory` is the promise of `vm_pager.h`: no physical memory, copies or
evictions; a private page holds what its process last stored, or what the parent had
at the fork, or zeroes; a file page holds what anyone last stored in that block; a
call fails only when the arena is full, the swap file is, or a name cannot be read, and an
access only on a page outside the arena or of a block that has never been read.
`PagerProperties` maps a page to its contents wherever they are now.

## Runs

| Run | Instance | Checks | Distinct states |
|---|---|---|---|
| `threads_safe` | 2 CPUs, 3 threads, 1 mutex, 1 condition variable, any boot order, fairness | types, mutual exclusion, guard, contexts, stacks, hand-over, joiners, the monitor; every ready thread runs | 240,432 |
| `threads_work` | 3 CPUs booted first, 3 threads | no CPU sleeps beside a ready thread | 20,013 |
| `threads_late_boot` | the same, any boot order | the same, **violated** (see Findings) | |
| `fs_tree` | 3 threads, 4 requests on `/d` and `/d/f` | copies are current, writers are alone, atomicity | 204,932 |
| `fs_data` | 3 threads, 3 requests on the file `/d/f` | erased locks, the lock discipline, atomicity of reads and writes | 132,969 |
| `fs_crash` | 2 threads, 3 requests, crashes anywhere, 8 blocks, 1 entry per block, 2 blocks per file or directory | types, unique names, restart, accounting of blocks, atomicity | 128,580 |
| `fs_live` | 3 threads, 3 requests meeting on `/d/f`, fairness | every request is answered | 70,609 |
| `pager_swap` | 3 processes of 2 pages, 2 physical pages, 3 swap blocks | types, assertions, accounting of pages and swap blocks, clean pages, faults, the processes' memory | 82,503 |
| `pager_files` | 2 processes of 3 pages, 1 physical page, 1 swap block, 2 files that may be unreadable now and readable later | assertions, accounting of pages, the processes' memory with shared files | 41,704 |
| `pager_names` | the same, names also in file pages that were never read | assertions, **violated** (see Findings) | |
| `conn_serve` | 2 clients, 2 descriptors, 6 messages, pauses, closes and resets in header and data; for the parser, all headers made of good and bad words | types and header length, descriptors, intended requests, answers; the parser undoes `request_string` and keeps to the limits | 1,135,434 |
| `conn_live` | 2 clients that stop anywhere, 1 descriptor, fairness | every connection is served to its end | 138,464 |

Why the bounds are enough for the cases of interest. Threads: two CPUs and three
threads give a running, a waiting and a ready thread at once on each side of a
hand-over; three CPUs are needed to have a busy, a wrongly idle and a sleeping
one. File system: three threads give a walker, a deleter of the node and a
deleter of its parent; with `FS_DIRENTRIES` and `FS_MAXFILEBLOCKS` of one or two,
directories gain and lose blocks, have free entries and get full within a few
requests; in `fs_crash`, where two of the three images leave two blocks free and one of these has
a full root directory, every allocation fails in some behaviour, because the disk was full before or because another
thread took the last block.
`MaxRequests` is the only bound that cuts behaviours short.

Pager: with three processes a page has two sharers left after one has copied it or
ended, and three swap blocks are fewer than the pages that the processes may ask for.
Two physical pages make the clock turn and evict a page that is being copied; with
one, as in `pager_files`, the page with a file's name is evicted by the mapping that
reads it. `MaxTwins` bounds the `VirtualPage`s of one file block at a time; in `pager_files`
there is never more than one, and `pager_names` needs two. `NamesKnown` keeps the names
given to `vm_map` in pages that can be read whenever they are needed, private ones and those
of files that have been read; without it the assertions fail, see Findings.

Connections: two clients are enough to meet on one descriptor, on one file, and in
`accept`; the file system underneath is atomic, so more of them add no new kind of
step. `Pauses` says where a client may stop or end: at every byte in `conn_live`;
in `conn_serve` before the last part of the header, after it, and in the data. Its messages
are writes with less and with more data than a block, a delete, a read whose block number is
spelled with a sign, a header that is refused and one that is too long.
`UInt32 = 16` and `ULong = 64` with `FS_MAXFILEBLOCKS = 11` leave room for
two-digit numbers, for numbers that fit only after being cut down (17), and for ones
that do not fit at all (99). `MAX_HEADER_SIZE` is computed as in the code.
`ParserInverts` does not depend on the state and is evaluated in the first one only.

Deadlock is checked in `fs_tree` and `fs_data`: the only state without
a step is the one in which all requests have been answered, and there the model
stutters (`Finished`). In `fs_crash` a crash is always possible. `fs_live` turns
the check off because `Answered` says more. It is checked in `pager_swap` and
`pager_files`, where some process can always be created, run or ended. In the thread
library all threads may have finished or wait for each other, and all CPUs are
suspended; after the last client the server waits for ever: these programs really stop.

### Fairness

`ThreadLibrary!FairSpec`: the library's own code runs to its end and interrupts
that are sent arrive (weak fairness of `Kernel`); a CPU that spins for the guard
gets it at some time, and the periodic timer comes at some time when interrupts
are enabled (strong fairness of `GoldfishLoops` and `Timer`). The spin lock
itself is not fair; that a CPU does not lose the race for ever is an assumption
on the hardware. No fairness is assumed of application threads.

`FileSystem!FairSpec`: a thread that can go on does (weak fairness of each
thread's steps). That is enough for finitely many requests. The code does not
guarantee more: boost admits new readers while an upgrade waits, so an endless
stream of overlapping readers can keep a writer waiting.

`Connection!FairSpec`: the thread of a connection that can go on does, `accept` takes
a waiting connection while a descriptor is free, and a client ends at some time
(weak fairness of each). The last is an assumption on the clients that the code needs:
there is no timeout, and a client that stays silent for ever keeps its thread and
descriptor. Clients are not assumed to send anything.

## Findings

`threads_late_boot`: a CPU is constructed with `is_idle = true` (`cpu.cpp:115`)
and enters `watch_suspend`. If a thread is already ready, it takes it without
clearing `is_idle` (`cpu.cpp:45-54`). The next `check_ready_and_wake` counts this
busy CPU as idle and sends it the interrupt that a sleeping CPU should have got.
The ready thread then waits although a CPU sleeps, against the comment at
`cpu.cpp:149`. The counterexample: the boot CPU's main thread creates `t1`, the
second CPU is constructed and takes `t1`, the third is constructed and sleeps,
main creates `t2`. The effect ends at the next preemption or exit on a busy CPU;
mutual exclusion and `ReadyRuns` are not affected (`threads_safe` allows late boots).

`pager_names`: when `file_read` fails on a page with one mapping, `vm_fault` takes the page
out of the table of file pages (`vm_pager.cpp:414-418`), counting on the process being ended.
If the fault came from `vm_map` reading a file name in that page, `vm_map` returns `nullptr`
and the process goes on with the page mapped. But "a file that cannot be accessed now may be
accessible later" (`vm_pager.h:107-108`). The counterexample: a process maps a block of a file,
whose name is in a private page, calls `vm_map` with a name in that file page, which fails,
and calls it again, which now succeeds: the page is in memory, and as the name is that of the
same file and block, `vm_map` makes a second page for it, against `vm_pager.h:89-91`. When the
process ends, the first page is destroyed, its reference on the clock is dead, and the
assertion at `vm_pager.cpp:701` fails. If names are only where reading cannot fail, nothing
of this shows, which is what `pager_files` checks.

### Noted beside the runs

Where the code does something that its comments do not say, and no property of a run is
about it:

- The loop for the header, "read until null byte" (`networking.cpp:40`), ends also when
  `recv` returns 0, and of the data of a write only -1 is looked at (`networking.cpp:75`),
  not a number smaller than the block, which `recv` returns when the client has closed, or
  reset the connection behind some of the data. What has come of a message that its client
  cut short is taken for the whole, and `Intended` says nothing about such messages.
- "block should be canonical base 10" (`parsing.cpp:66`) is checked for a leading zero
  only, and a path of `/` is parsed although `parse_tests.cpp:87` expects otherwise
  (`execute_request` refuses it). Of numbers in other spellings `ParserInverts` says only that
  they are within the limits, and of the path `/` nothing.

## Theorems

Each leaf of a proof names its prover; one that names none is Zenon's, by the `USE` at
the beginning of the module.

### Thread library

Proved with TLAPS for all finite sets of CPUs and all sets of threads, mutexes and
condition variables, from the assumptions named in `ThreadLibrary` (the names
of queues are distinct, the boot CPU and the main thread exist):

| Theorem | Statement |
|---|---|
| `TypeCorrect` | `Spec => []TypeOK` |
| `MutexesExclude` | `Spec => []MutualExclusion` |
| `MutexesNotLost` | `Spec => []MutexNotLost` |
| `ContextsOnce`, `ContextsKept` | `Spec => []NoContextTwice`, `Spec => []NoContextLost` |
| `GuardPassed` | `Spec => []GuardHeld` |
| `StacksFreed` | `Spec => []StacksFreedOnce` |
| `JoinersReturn` | `Spec => []JoinersReleased` |
| `MonitorImplemented` | `Spec => ImplementsMonitor` |

None of the properties is inductive alone. `TypeOK` needs that a CPU that runs
user code has a context and that a thread stopped in `lock` or `wait` has a mutex
to go on with (`TypeInv`). Mutual exclusion needs to know where the threads are:
`held` agrees with `owner` (`OwnerHolds`), a thread stopped in `lock` that is in
the mutex's queue waits and one that is not has been granted it, at most one
thread per mutex is in that second state and then nobody owns the mutex
(`GrantedOnce`, `FreeUnowned`, `TakenBySome`), only live threads are inside calls
(`CallersLive`). "In the queue or not" in turn rests on every context being in
exactly one place (`ContextsOK`), and that on the guard and on the main thread
being made once (`MainUnborn`). `Inv` is the conjunction. The proof goes by
action; moving contexts between queues is reasoned about once, in the lemmas at the
beginning of the module (what `Push`, `Pop` and the moves to the ready queue do to
membership and distinctness) and in `FateLemma`: a step that leaves each
thread's context where it was, moves it within reach of the acting CPU, creates
it or ends it keeps every context in one place.

`MonitorImplemented` uses the same invariant. The lemmas `HolderLemma` and
`HolderState` express the monitor's `holder` by the library's `owner` and the threads
that have been handed a mutex, and show that there is at most one; a thread that runs on
a CPU is in no line because its context is in one place only. Then each call is
matched with the monitor's step, and `Resume` with `Enter`, `Wake`, `Request` or nothing,
depending on where the resumed context had stopped.

### File server

Proved for any finite set of threads, any requests, disk sizes and limits, and any
images that the server may be started on, with crashes and restarts anywhere
(`CrashSpec`; `SafeUp` and `LocksSafeUp` say the same of `Spec`, without them):

| Theorem | Statement |
|---|---|
| `LocksSafe` | `CrashSpec => []LocksExclude` |
| `InvSafe` | `CrashSpec => []Inv` |
| `TypesSafe` | `CrashSpec => []TypeOK` |
| `RestartsSafe`, `NamesSafe` | `CrashSpec => []RestartSafe`, `CrashSpec => []NamesUnique` |
| `BlocksSafe` | `CrashSpec => []BlocksAccounted` |
| `CopiesSafe` | `CrashSpec => []CopiesCurrent` |
| `WritersSafe` | `CrashSpec => []WritersAlone` |
| `ErasedSafe` | `CrashSpec => []NoOneLeftOnErasedLock` |

The assumptions: the sizes are positive numbers (`SizesAssumption`), the bound on
requests is a number (`BoundAssumption`), `None` is no value of another kind and the
root's owner is no user (`ValuesAssumption`, `NoneAssumption`), requests are what the
parser can make (`RequestsAssumption`), and the server is started on sound disks
(`ImagesAssumption`: `fs_init` walks the disk without checking it, so it relies on that).
`LocksSafe` needs only that there are finitely many threads.

`LocksExclude` speaks of what a thread is about to do; it becomes inductive with the
locks that each thread holds at each label (`HoldsAt`) and with the compatibility of any
two locks held at once (`Compatible`). `LocksInv` is the conjunction. A step by one thread
keeps it if it leaves the others' variables alone, takes only locks that go together with
theirs, and holds what its new label says (`KeepsLemma`); the other lemmas show this action
by action, the two waits for an upgrade being the ones where the locks of others matter.

The other properties support each other and are proved from one invariant, `Inv` in
`FileSystemInvariant`. A name is unique because the copy of the directory in which create
looked for it is still current; the copy is current because nobody else writes there; that
is so because all who use the directory share one lock; they share it because the lock of an
inode is erased only when nobody can reach the inode any more; and that rests on the tree,
in which every block is met once. So `Inv` is the conjunction of the types, the locks
(`LocksInv`), the soundness of the disk (`Sound`: kinds of blocks, each met once, unique
names), the place of every block (`Accounted`) and, for each thread, what it may rely on at
its label (`ThreadOK`): where it is in the tree, which pointers are those in `data_locks`,
which copies are current, which blocks are its own and what is in them. Two places need
care: a reader may be in a file that has been unlinked (`Doomed`), and a thread that waits
for the lock of an inode is safe only because it holds the lock of the directory.

The argument has four parts:

- `Disk_proofs`: what a single write makes of the tree. Reachability is the least set that
  contains the root and the children of its directories; that a set with these
  properties contains the tree (`ReachableInodes`) is all that the later proofs use. A write
  to a block outside the tree changes nothing; one that links, unlinks, extends or
  overwrites changes the set of inodes by at most one and keeps the disk sound.
- `FileSystemFrame_proofs`: the others. A step that does not write (`Quiet`), or writes
  to the thread's own blocks (`OwnWrite`), keeps `ThreadOK` of the others; the steps that
  change an inode in the tree keep it because `LocksExclude` says nobody else is there.
- `FileSystemThread_proofs`: the thread itself, and the types, action by action.
- `FileSystem_proofs`: the accounting of blocks and the steps that change the tree, and
  one step for each action.

### Connections

From `NoneAssumption`, `SizesAssumption` and `MessagesAssumption`, for any clients,
descriptors and messages, however the messages are cut into pieces:

| Theorem | Statement |
|---|---|
| `DescriptorsSafe` | `Spec => []DescriptorsOwned` |
| `HeaderFits` | `Spec => []TypeOK` |
| `RequestsIntended` | `Spec => []Intended` |
| `ClientsAnswered` | `Spec => []AnswersTrue` |

`MessagesAssumption` fixes only what a message is: a header without a null byte, and data,
of any length and contents, and pauses within the message. What is proved therefore covers
the reading, dispatching and answering in `handle_connection` for any clients and any parser;
the parser itself is checked by `ParserInverts`.

For the descriptors the invariant adds that a serving thread has one: every step of a
thread goes on with its descriptor, closes it and ends, or ends the server (`HandleLemma`).
The other three need what happens between the first byte and the last, `ClientInv`: while
the header is read, `msg` is the beginning of the message, without a null byte, and the stream
is what comes next (`HeaderRead`); so the first null byte is the one behind the header
(`FirstNull`), and the end of the stream before it means that the message was cut short.
Then the stream is the data (`DataNext`), and `recv` returns all of them that fit into the
block (`WholeBlock`). Then the file system has been asked the request of the message
(`Asked`), and the inbox is as much of the answer as the label says (`Answered`). To keep
this when the client ends later, the invariant also says that once a request was made all
that it needs had come, unless the message was cut short (`Made`).
A step of one thread changes no other client's part (`OthersKeep`), because the descriptor
it uses is its own.

### Only model-checked

- The liveness properties (`ReadyRuns`, `Answered` of the file system, `Served`): the
  prover has no fairness.
- `WorkConserving`: it compares the length of the ready queue with the number of CPUs on
  their way to it, and holds only when all CPUs are constructed first.
- The refinement of `AtomicFileSystem`: the tree of paths is a recursive function of the
  disk, and that a change of one inode changes one path is an induction over the path.
- The pager: its nested calls are folds over sequences and sets of results.
- The parser (`ParserInverts`), which is about sequences of any length.

## Not modelled

- Running out of memory in the constructor of the boot CPU; stack contents;
  wrap-around of `managed_uc::id` after 2^32 threads.
- `check_disk_blocks_synced`: `strong_asserts` is false, it is never called.
- `server_connect`, `get_port_number`, `make_server_sockaddr`: they set up one socket
  before the first connection, and report or exit on failure.
- The creation of a connection's thread failing.
- The client library: the repository has its header only.
- Byte layout of names and blocks; logging.
