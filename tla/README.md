# Specifications of ekamperi/experimentation

The repository is a collection of C programs: a buddy allocator, a library of
state machines over a hash table, programs with threads, with kqueue, a NetBSD
pseudo-device, and demonstrations of system calls.  This directory models the
ones with logic of their own in TLA+, model-checks them with TLC on small
instances and proves, with TLAPS, the central safety properties of most of them
for every instance: the allocator, the event queues, the keys of the state
machines, the hash table, the barber, the shared counter, the matrix product,
kqclient, kqdir, the pseudo-device, the terminal echo and the simulation.

Source references are to files under `src/`, as `file.c:line`.

    tlc -config MCBuddy.cfg MCBuddy        # a run: a .cfg and its module
    tlapm BuddyProofs.tla                  # the proofs of a module

## 1. The system

### Components

| component | state it keeps | operations | uses |
|---|---|---|---|
| buddy allocator, `buddy/mpool.c` | the pool's memory with a header (`blknode_t`: LR and PARENT and AVAIL flags, `logsize`) at the start of each chunk; `blktable`, a list of chunks per size; counters of splits and merges | `mpool_init`, `mpool_alloc`, `mpool_free`, `mpool_destroy` | client code writes into the same memory |
| allocator statistics, `buddy/mstat.c` | none | sums over the lists | reads the allocator's lists and counters |
| simulation, `buddy/test4.c` | a list of blocks sorted by the end of their lives | one allocation per epoch, frees from the head | the allocator |
| event queues, `fsm/fsm.c` | a STAILQ per priority, a mutex | `fsm_queue_event`, `fsm_dequeue_event`, `fsm_get_queued_events` | any thread, and the callbacks of events being served |
| state machines, `fsm/fsm.c`, `fsm/states.c` | table of states, table of events in each state, reachable flags, current state | add and remove states and events, `fsm_set_state`, `fsm_process_event`, `fsm_mark_reachable_states`, teardown | two kinds of hash table; calls the client's callbacks, which may call back |
| comment remover, `fsm/test_rmcom.c` | a buffer of one line, a current state | `fgets`, one event per character or mark | a state machine with three states |
| hash table, `genstructs/htable/htable.c` | an array of chains, its size, load and limit | insert, remove, search, grow, iterate, free | client's hash, comparison, free and print functions |
| sleeping barber, `pthreads/sleepbarber.c` | `freeseats`, three semaphores | barber and customer threads | |
| shared counter, `pthreads/pthread_mutex.c`, `pthread_semaphore.c` | `myglobal`, a lock | incrementing threads, `main` | |
| matrix product, `pthreads/matrixmul/matrixmul.c` | three matrices, an array of (row, column) pairs, thread ids, an allocation depth | `main`, one thread per cell | |
| kqueue client, `kqueue/kqclient.c` | a socket, standard input with stdio's buffer, an event list | the `kevent` loop | kernel, user and host (external) |
| directory watcher, `kqueue/kqdir.c` | open entries, a list of one-shot changes | scan, `kevent` loop | kernel, and whoever changes the files |
| timer, `kqueue/kqtimer.c` | a timer, children | fork at each expiry | kernel |
| pseudo-device, `cdev/mydev.c` | an open flag `sc_usage`, a fixed text | open, close, read, ioctl | processes that run `cdev/testdev.c` |
| property lists, `proplib/*.c`, the ioctl | reference counts | create, add, iterate, release | proplib (external) |
| terminal echo, `termios/echo_off.c` | a terminal's mode | switch off, read, restore | terminals |
| file utilities, homework, process demos, list and thread demos, test sample | | sequences of library calls | |

### What is hard about it

* **Long histories in few bits.**  A merge rebuilds the side (LR) of a chunk from
  a PARENT flag that a split recorded, possibly many calls before; `mpool_free`
  reads a header at its buddy's address before it knows that there is one, in
  memory that also holds old headers and the client's data.
* **Concurrency.**  `fsm_queue_event` and `fsm_get_queued_events` lock the queues
  and `fsm_dequeue_event` does not; callbacks run in the middle of a dequeue and
  may queue events; the barber and its customers, the counter's threads and the
  cells of a matrix product touch shared memory in separate reads and writes.
* **Ownership.**  A state's key belongs to the machine and its events to the state;
  a callback may free the event that is being processed; property lists are
  counted by hand on every way out.
* **Failure in the middle.**  Any `malloc` may fail: a table that could not grow
  must go on working, `fsm_init` and `matrixmul` must free exactly what they had
  allocated, a terminal must get its echo back.
* **Order.**  Priorities of events; the order in which `kevent` reports
  descriptors; changes between two calls of `kevent`; a table order that decides
  which states get marked; comment marks cut by the end of a buffer.
* **Boundaries.**  A request of exactly a power of two; the end of the pool; the
  last bucket of a table; the slot of a cell; counters and sums that wrap.

`PROJECT.json` lists each hazard at its line, with the properties that cover it
or the reason why none does.

### What makes each component correct

* **Allocator**: the chunks are an aligned partition of the pool; the flags tell
  the truth; what a client owns is in use and large enough; buddies do not stay
  apart when both are free; a request is refused only if there is no room.
* **Queues**: an event is served once, by priority and then in order; none is lost;
  nothing freed is followed; a count is that of one moment.
* **Machines**: the current state and every key are known to the table; a state is
  marked only if marked states lead to it; all memory has one owner.
* **Table**: it is a dictionary, across resizes that succeed or fail; an iteration
  meets every entry once and ends.
* **Barber, counter, matrix product**: mutual exclusion; the shared numbers account
  for what the threads have done; everybody gets through; the result is right.
* **kqueue programs**: data goes through once, in order, and what stays unread or
  is not printed has a reason that can be named; a change that was noted is
  reported, or a more important one of the same event is.
* **Device, property lists, terminal, simulation**: one opener at a time; every
  reference is dropped once; the echo comes back; a block is freed when its life
  ends.

## 2. The modules

| module | what it is | source |
|---|---|---|
| `Buddy` | the allocator with one client | `buddy/mpool.c`, `mpool.h`, as used by `buddy/test*.c` |
| `Heap` | what the allocator promises | abstract |
| `MStat` | statistics, over the state of `Buddy` | `buddy/mstat.c` |
| `BuddyProofs` | invariants of `Buddy`, complete merging, best fit, that it implements `Heap`, and that its statistics agree | |
| `BlockSim` | the simulation | `buddy/test4.c` |
| `FsmQueue`, `FsmQueueProofs` | the queues at the grain of assignments, with threads | `fsm/fsm.c:156-237` |
| `EventQueues` | what the queues promise | abstract |
| `FsmMachine`, `FsmMachineProofs` | states, events, transitions, marking | `fsm/fsm.c`, `fsm/states.c` |
| `FsmLife`, `FsmMachineProofs` | the memory of a machine, from `fsm_init` to `fsm_free` | `fsm/fsm.c`, `fsm/states.c`, freeing in `htable.c` |
| `CommentRemover`, `FsmMachineProofs` | a program that is a state machine | `fsm/test_rmcom.c` |
| `HTable`, `HTableProofs` | the hash table and its iterator | `genstructs/htable/htable.c` |
| `Dictionary` | what the table promises | abstract |
| `SleepingBarber`, `SleepingBarberProofs` | barber, customers and `main` | `pthreads/sleepbarber.c` |
| `PthreadCounter` | incrementing threads and `main` | `pthreads/pthread_mutex.c`, `pthread_semaphore.c` |
| `MatrixMul`, `MatrixMulProofs` | `main` with its failures, and the cells' threads | `pthreads/matrixmul/matrixmul.c` |
| `KqClient` | the event loop, the user and the host | `kqueue/kqclient.c` |
| `KqDir` | the scan, the event loop and other processes | `kqueue/kqdir.c` |
| `KqTimer` | the timer and the children | `kqueue/kqtimer.c` |
| `EchoOff` | the terminals' modes | `termios/echo_off.c` |
| `MyDev` | the device and its processes | `cdev/mydev.c`, `testdev.c` |
| `PropRefs` | reference counts of property lists | `proplib/*.c`, `cdev/mydev.c`, `testdev.c` |
| `MCBuddy`, `MCFsmQueue`, `MCHTable`, `MCMatrixMul` | constants for TLC | |
| `MCMachine`, `MCPrograms` | several modules in one run | |
| `Numbers` | least elements, induction, recursion, division and finite sums, for the proofs | |
| `ProgramsProofs` | invariants of `PthreadCounter`, `MyDev`, `EchoOff`, `KqDir`, `KqTimer`, `BlockSim` and `KqClient`, as `MCPrograms` instantiates them, and those of `MatrixMulProofs` there | |

Composition: `MStat` extends `Buddy` and reads its state at every moment; `Buddy`
instantiates `Heap`, `FsmQueue` instantiates `EventQueues` and `HTable`
instantiates `Dictionary` as refinements.  `FsmMachine` takes its hash tables as
the maps `HTable` shows them to be, `FsmLife` takes the state table as its chains.

Two MC modules put modules that do not interact side by side: a behaviour is
that of one of them, chosen by the initial state, while the variables of the
others stay as they began.  `MCMachine` extends `FsmMachine` and instantiates
`FsmLife` and `CommentRemover`; `MCPrograms` extends `PthreadCounter` and instantiates
`MatrixMul`, `KqClient`, `KqDir`, `KqTimer`, `EchoOff`, `MyDev`, `PropRefs` and `BlockSim`.  The
assumptions of an instantiated module are a definition there (`LifeAssumption`,
`DirAssumption`, ...), which the MC module assumes.

In every module the definitions called `Mutation` are plausible bugs, never used
by `Next`: each property is broken by at least one of them (`PROJECT.json`,
`mutants`), which shows that it can see the code.

### Buddy

A chunk is known by the offset of its header.  `hdr` is the memory of the pool
read as headers: at every multiple of the smallest chunk there is one, real or
not, because `mpool_free` reads there.  Slots that are not headers keep what was
last stored, an old header or what `UserWrite` left.  `blktable[p]` is a list of
the chunks of 2^(`MaxLog`-p) bytes; the order within a list is left open, so
every order the code could produce is covered.

`pc` and `cur` say where a call is.  A call is one step per round of its `goto`
loop, since lists and flags are consistent between rounds and the allocator has
no other thread:

| code | action |
|---|---|
| `mpool_alloc`, entry | `AllocCall` |
| search of the lists, 110-147 | `AllocFind`, `AllocFail` |
| "no need to split", 153-163 | `AllocReturn` |
| split and `goto`, 164-206 | `AllocSplit`, with `LeftHalf`, `RightHalf` |
| `mpool_free`, entry | `FreeCall` |
| the ways out, 239-292 | `FreeStop` |
| merge and `goto`, 295-357 | `FreeMerge`, with `Merged` |

`held[a]` is the client's own account of what it asked for.  `TotalSize` keeps
the width of the `size_t` sum at line 101, the counters wrap at `CounterMod`.

`Heap` has no lists, flags or rounds.  A request (`pending`) is granted at a
multiple of the smallest power of two that holds it, overlapping nothing, or
refused when no such place exists.  Refused only then is what complete merging
is for, and it does not follow from any one line of the code.

### BlockSim

An epoch is `Free` for each block at the head of the list whose life ends now,
`Freed` when the head's does not, and `Alloc` of one block with a lifetime no
longer than the epochs left, which `Place` inserts where test4.c's scan of the
list does.  A block is named by the epoch of its allocation.  `AllocFails` ends
the simulation, as a full pool does.

### FsmQueue

STAILQ macros are modelled one assignment per step, with `next`, `first`, `last`
(the chunk whose `pq_next` the tail pointer points to), so that another thread
can look in between.  `used` is the heap: a freed chunk can be reused by the next
`malloc`.  A callback (`pc` = "action") may queue events while its own event is
still at the head.  `Queuers`, `Servers` and `Counters` say who calls what.
`EventQueues` has sequences instead; an event enters it at `InsertLink` and
leaves at `Unlink`, so the refinement says that these two assignments are where
the operations take effect.

### FsmMachine

`evttable[s]` are the events of state `s` with their new states, in the order of
their addition; a new state may be `Null`, which fsm.c:251 allows.  `table` is the
table of states in the order its iterator meets them.  `ProcessEvent` and
`Transition` are the two halves of `fsm_process_event`, before and after the
callback, in between which the callback may set another state.  Keys are what
`fsm_add_state` stores, also when it then does not add the state, be it that the key
is there or that there is no memory.

`Marked` is the one pass of `fsm_mark_reachable_states` in the order of the table,
over what its two iterators yield (`StYielded`, `EvtYielded`): of the last bucket of
either table the first entry only (htable.c:284).  A null new state that the pass
comes upon in a marked state ends the program (`crashed`), since fsm.c:333 writes
through it.  `keyLost` is a history variable, for the one way in which the current
state's key can get lost: the current state is outside the table, which a clash of
keys can bring about, it is added under a new key, and `malloc` fails.

The client is restricted to what the tests do: it adds a state once with success,
sets a state before it processes events, does not process events in callbacks and
does not remove the event whose callback runs (`FsmLife` has those that do).

### FsmLife

A block of memory is an owner and a part: `<<s, e>>` with part `"node"` is the
table node of event `e` of state `s`.  `live` is what is allocated, and a function
that allocates is its order of `malloc`s with, for each one that fails, what the
code frees before it returns (`Malloc`).  `AddEvtAgain` is `state_add_evt` of a key
that is there, which frees the new key and event (states.c:69-73).  Freeing is in two turns (`FreeInTurn`),
since a block freed early may be read later; `fault` collects what is read or
freed when it is not allocated.

| code | action |
|---|---|
| `fsm_init` and its error paths | `FsmInit` |
| `state_init`, `state_add_evt`, `state_rem_evt`, `state_free` | `StateInit`, `AddEvt` and `AddEvtAgain`, `RemEvt`, `StateFree` |
| `fsm_add_state`, `fsm_set_state`, `fsm_queue_event` | `AddState`, `SetState`, `QueueEvent` |
| `fsm_process_event` up to and from the callback | `Process`, `Transition` |
| `fsm_dequeue_event` of an unknown event | `Discard` |
| `fsm_free` | `FsmFree`, with `Yielded`, what the iterator gives it |

`RemEvt` is enabled within a callback too, for any event; where it is the one being
processed, `Transition` reads freed memory and the model stops there
(`"undefined"`).

### CommentRemover

A text is any sequence of `/`, `*`, another character and newline.  `Fgets` reads a
piece of at most `BufSize - 1` characters of a line; `Process` is one round of the
inner loop: `get_evt_key`, which looks one character ahead in the piece, and the
event.  `pfirst` is the order in which the compiler evaluates the arguments of
`fsm_process_event`, one of which `get_evt_key` changes.

### HTable

`table[b]` is a chain.  `Insert` covers `htable_insert` with `htable_grow`: the
entry may not be allocated, and the larger table may not, which the code ignores.
`pos` and `node` are the iterator's; `walk` records what it has yielded and is not
in the code.  Searches are not steps: `Search(k)`, for every key at every moment,
is the dictionary of the refinement.

### SleepingBarber, PthreadCounter

One step per semaphore or mutex call and per read or write of shared memory;
`freeseats++` is two steps.  Threads are created one by one while earlier ones
run.

### MatrixMul

`main` allocates object by object and block by block; `blocks` counts what is
allocated and `mdepth` is the code's own count, from which the final `switch`
decides what to free.  `AllocFails` includes `matrix_alloc`'s cleanup, with its
own depth, in which 3 stands for any row.  A thread's reads of its pair are two
steps and so are the read and write of each addition.  The code numbers the slot
of a cell `i * rows + j`, which is one slot per cell only in square products and
those with one row: the run `programs` takes those, `matrix_slots` another.
`mulvect` reads two `int`s where `main` stored two `size_t`s (matrixmul.c:233-234).
`Word` is what it gets: the row and the column if the types have the same width
(`IntsPerSize` 1), and the two halves of the row if `size_t` is twice as wide
(`IntsPerSize` 2, little-endian), so that every thread works on the first column.

### KqClient, KqDir, KqTimer

*KqClient*: the user types, the host talks and either may close at any moment;
`kevent` returns what is ready in any order.  `stdio` is the buffer behind `fgets`:
one event may read several lines and only one is taken; a line of a pipe may be
there in part (`Begin`), and `Fgets` waits for the rest of it (`Available`).  `Send`
is a round of `sendbuftosck`, which waits for room in the socket until the host
reads (`Hear`).  Lines and pieces are numbered, so order can be told.  `Put` is
`fputs` of `buf` after a read: it leaves out what follows a zero byte (`hidden`), and
where the read has filled `buf` and has none it goes on behind `buf`, whose contents
decide whether that shows (`garbled`).

*KqDir*: `Opendir`, `Skip` and `Open` are the scan, with its loop that is meant to
skip `.` and `..`.  `Change` is what another process does to a file at any moment;
it is noted in `pending` only while the kernel has a one-shot note for the entry
(`watched`), which `Kevent` adds and `Return` takes away.  `unsaid` are the changes
not yet reported, `gap` those of them made at a moment without a note and `masked`
those whose event reported a more important one; none of them is in the code.
`Handle` handles one event, which is to print one message, the first that the
else-ifs of kqdir.c:109-118 come upon (`Message`).

*KqTimer*: an expiry is collected by `Kevent`, `Fork` makes a child or ends the
program when there are `MaxProcs` processes, and a child that has ended stays a
zombie, since nobody waits for it.

### EchoOff, MyDev, PropRefs

*EchoOff* has two terminals, that of standard input and maybe another, named on
the command line; every call may fail and a signal may end the program anywhere.

*MyDev*: the handlers run under the kernel's lock and are one step each, but a read
is one per round, since `uiomove` may sleep.  A process runs testdev.c again and
again (`Again`); its exit closes what it had open.

*PropRefs* writes each program as its sequence of calls and, for each call, what
it releases when that call fails.  `Succeed` and `Fail` are the meaning of a call;
`refs` counts references, `inside` says what a container holds, `wrong` is what was
used or released without a reference.

## 3. The runs

| run | config | distinct states | shows |
|---|---|---|---|
| `buddy_pool` | `MCBuddy.cfg` | 85,724 | every property of the allocator, its statistics, and that it implements `Heap` |
| `queue_locked` | `MCFsmQueueLocked.cfg` | 12,329 | two queuing threads and a counting one: under the mutex they are linearizable, a count is that of one moment |
| `queue_single` | `MCFsmQueueMain.cfg` | 83,880 | one thread that queues, serves (with callbacks that queue) and counts: served by priority and order, nothing lost or followed after it is freed, every call returns |
| `queue_race` | `MCFsmQueueRace.cfg` | violation | a queuing and a serving thread: see findings |
| `machine` | `MCMachine.cfg` | 565,131 | keys and marks of the states; the memory of a machine on every failure; the comment remover on every short text |
| `machine_flags` | `FsmMachineFlagsExact.cfg` | violation | see findings |
| `htable` | `MCHTable.cfg` | 25,222 | the table implements `Dictionary`, places and loads; iterations yield what they should, in order, and end |
| `htable_iterates` | `MCHTableIterates.cfg` | violation | see findings |
| `barber` | `SleepingBarber.cfg` | 17,921 | exclusion, seats and haircuts accounted for, everybody leaves |
| `matrix_slots` | `MCMatrixSlots.cfg` | violation | see findings |
| `programs` | `MCPrograms.cfg` | 212,872 | counter, matrix product, the three kqueue programs, echo, device, property lists, simulation |
| `kqdir_skips` | `KqDirSkips.cfg` | violation | see findings |

### The properties, where they are more than their names

* `BuddyFlags`: LR is right now (`SideFlags`) and PARENT is what the *last* merge on
  the chunk's right edge will need (`ParentFlags`).  LR alone is not preserved by
  merging; the second part is what "parent is left buddy, else right buddy"
  (mpool.h:20) has to mean for a chunk several splits below that parent.
* `BuddyIsHeader`: the address computed at mpool.c:256-278 is that of a chunk,
  never inside one.
* `FullyCoalesced`: two free buddies exist only where a call is working on one.
* `SplitsSmallest`: the search's rule, to take the last list whose first chunk is
  large enough and which has a free chunk, finds the smallest chunk.
* `ImplementsHeap`: safety and, since `HeapSpec` has fairness, that each request is
  answered.
* `StatsAgree`: counters that have wrapped still differ by the number of chunks.
* `NoLostEvent` and `NoDangling`: reachability over the pointers, not over a
  sequence that could not be broken.
* `NoUseAfterFree`: `state_free` and `fsm_free` in any order, callbacks that remove
  events, and every failed `malloc`.  It names its one exception, the event whose
  own callback removes it.
* `OnlyKnownLeaks`: everything allocated can still be freed by the client or is one
  of the blocks it lists, each with the `malloc` that strands it.  A block leaked
  anywhere else violates it.
* `CommentsRemoved`: the output is compared with comments as C defines them, over
  the whole text.  It holds under two conditions the code does not enforce: lines
  fit the buffer (the comment at test_rmcom.c:71 asks for it) and the compiler
  evaluates the key's argument after the character.
* `IterationInOrder`: when an iteration has ended, what it has yielded is, in order,
  everything but what follows the first entry of the last bucket (see findings), no
  more and no less.
* `TableOK`: entries are in the bucket of their hash for the current size, and a load
  above the limit is explained by resizes that failed.
* `KeysSound`: no key names two states of the table, and the current state's key is
  known to it, with the one exception that `keyLost` records.
* `MarksOneStep`: what the one-pass marking does guarantee: nothing unreachable is
  marked, the transitions of marked states that the iterators yield are followed one
  step, and only a null new state that marked states lead to can crash it.
* `MemorySafe`: two nested depth counters of `matrixmul` agree with what is
  allocated, and the matrices outlive the threads unless `pthread_create` failed.
* `Accounted`: seats free, taken and on offer add up to the number of seats, and
  every wakeup is owed to one customer, none lost and none left over.
* `OnlyGapsForgotten`: a change that was not reported happened at a moment without a
  note, is on its way, or was in one event with a more important one; while `kevent`
  waits, every opened entry has a note.
* `NotedIsSaid`: a noted change is reported in the end, or what hides it in its event
  is, whatever happens to other files; nothing hides a deletion.  Or the program ends.
* `InOrder`: both directions of kqclient, unit for unit; it says after which reads
  `fputs` may leave something out or add something.
* `Responsive`: data is taken and the end of the connection noticed, unless `main`
  waits for ever in `send` or in `fgets` (`Blocked`): one direction does hold up the
  other there, and nowhere else.
* `PrintsProduct`: where `size_t` is as wide as `int`, what is printed is the product.
* `EchoKept`: of the ways out of echo_off, only an interruption or a failing
  `tcsetattr` leaves a terminal changed; and the terminal that is changed is the
  one that is read, although it need not be the one that was named.
* `DeviceSound`: `sc_usage` counts openers through refused opens and exits without
  close; a read gets the text over and over, byte for byte.
* `RefsBalanced`: no reference is dropped twice or left, after any call that fails,
  with two exceptions named in it.
* `FreedOnTime`: each block is freed in the epoch its life ends, although only the
  head of the list is looked at.
* `ProgramsEnd`: the counting program ends; so does kqtimer's "Loop forever", for
  want of processes.

### Bounds

* `buddy_pool`: 16 bytes, chunks from 2 to 16, a one-byte header, requests of 1, 4
  and 15 bytes, i.e. sizes 2, 5 and 16: the smallest chunk exactly, one between
  powers of two, the whole pool exactly.  Four levels give chains of three merges,
  PARENT flags that survive two of them, buddies of different sizes and client
  data at a buddy's address.  Junk is all zeroes, fresh memory and what `test3.c`
  writes.  `CounterMod` 2 makes both counters wrap; `SizeMod` 64 lets no sum wrap
  (see section 5).
* `queue_*`: two or three priorities and two or three events suffice for a queue
  that gets empty and non-empty again, reuses a freed chunk and has a more urgent
  event arrive during the service of another.  In `queue_locked` events are queued
  and counted only, so it ends when the memory does, with counting going on.
* `machine`: `FsmMachine` with three states, three keys and two events: paths of two
  transitions in both orders of keys, self loops, key clashes, null new states.  Keys
  0, 1 and 3 in two buckets and events 1 and 3 in two put two entries into the last
  bucket of either table, one of which the iterators omit.  The states have two
  events together (`MaxEvts`).  `FsmLife` with two
  states, one event in each, one queued event, and keys 0, 1 and 3 in two buckets:
  a clash of keys, and a last bucket with two states, one of which the iterator
  omits.  `CommentRemover` with all texts up to six characters and a buffer of four
  (three characters and the terminator): marks cut by the end of a piece, comments
  across lines, `/*/`.
* `htable`: 1 bucket, limit 1, keys hashing to 0, 1, 3 and 4: it grows to 2, 4, 8
  buckets, with collisions at each size.  `MaxGrows` bounds attempts to grow and
  `Insert` is disabled only where the fourth would be made.  `htable_iterates`
  takes 2 buckets and factor 2, which puts two entries in the last one.
* `barber`: four customers and two seats (10 and 2 in the code): there are both
  customers that wait and customers that are turned away.
* `programs`: three threads with two rounds (5 and 5 in the code).  Matrices 2x2 by
  2x2 (four threads), 1x2 by 2x3 (three), and a mismatch; fresh memory is 0 or 7.
  kqclient: three
  lines of two units each, two lines per read-ahead, a socket with room for three
  units, so that a line may be sent in parts and `send` may wait, and two pieces from
  the host, which fill `buf` when they are read together.  kqdir: three files and two descriptors, changes that delete and
  write, events in any order.  kqtimer: three processes, two expirations at once.
  echo_off: two terminals.  Device: two processes, 7 bytes read from a text of 3.
  Simulation: 7 epochs with lifetimes up to 3, so that several blocks end together
  and the end of the simulation cuts lifetimes short.  Property lists: loops are
  written out for two rounds.
* `kqdir_skips`: two files, descriptors for all.

Deadlock is checked in `buddy_pool`, `queue_*` and `htable*`.  The programs of the
other runs end, a machine's client quits or a null new state crashes it, and the
barber waits for customers who will never come, so there it is off; their liveness properties say
what must have happened by then.

### Fairness

* `Buddy!FairSpec`: a call in progress goes on (one thread, no blocking); the
  client need not call.
* `FsmQueue!FairSpec`: a thread inside a function keeps running; calls are not
  fair.  Weak fairness is enough since a blocked thread is only claimed to get
  through in `queue_single`, where nobody competes for the mutex.
* `HTable!FairSpec`: a caller that iterates goes on iterating, as every caller in
  `fsm.c` does.
* `SleepingBarber`, `PthreadCounter`: each thread is scheduled.  Weak fairness
  suffices although semaphores and mutexes are not fair: a customer waits on each
  semaphore once and a thread takes the lock a bounded number of times, so those
  ahead of it run out.
* `KqClient!FairSpec`: the program is scheduled.  User and host need not act: a line
  that has begun may never end and the host may never read.
* `KqDir!FairSpec`: the program is scheduled, and `kevent` does not fail every time it
  is called (strong fairness of `Return`; kqdir.c:93 calls it again after an error).
  Nobody need change a file.
* `KqTimer!FairSpec`: time passes, and parent and children are scheduled.

The MC modules' specifications repeat the fairness of the module that runs.

## 4. What disagrees

* `queue_race`, fsm.c:209.  `fsm_dequeue_event` unlinks without the mutex.  An event
  linked between the two assignments of `STAILQ_REMOVE_HEAD` (the head was the
  last one, so `stqh_last` is about to be reset) is no longer reachable from the
  head.  `test_thread.c` runs that combination of threads, and types.h:43 calls
  the mutex the "mutual exclusion object" of the queues.
* `machine_flags`, fsm.c:322.  Marking is one pass in table order, so a state that
  only a later one leads to stays unmarked.  "we guarantee that states' flags are
  always in accordance with reality" (fsm.c:131-132).
* `htable_iterates`, htable.c:284.  `it->pos` is one past the bucket of the current
  node; in the last bucket it equals `ht_size` and the next call returns NULL with
  the rest of that chain unvisited.  fsm.c:320 ("For all states") relies on it.
* `matrix_slots`, matrixmul.c:99.  `k = i * rows + j` gives cells (0, 2) and (1, 0) of
  a 2x3 product one slot, so a pair is overwritten before its thread has read it.
  "v[k] holds the (i, j) pair in the k-th computation" (matrixmul.c:82).
* `kqdir_skips`, kqdir.c:51.  The loop's condition reads an entry before it looks at
  the count, so a third entry is read and dropped.  "Skip . and .. entries"
  (kqdir.c:49).

Also met while modelling, without a run of their own:

* A state whose addition failed can become the current one through a transition,
  since the lookup is by the key, which it shares with another state (fsm.c:76,
  250-256).  `KeysSound` claims no more than that the key is known; even that fails if
  this state is then added under another key and `malloc` fails.
* An event may have no new state (fsm.c:251), but `fsm_mark_reachable_states` writes
  through the null pointer (fsm.c:333), as `MarksOneStep` has it.
* A callback that removes the event it serves: `fsm_process_event` then reads the
  freed event (fsm.c:247).  `NoUseAfterFree` has it as its exception.
* `fsm_init` leaks the priority table when the mutex cannot be allocated and the mutex
  when the array of the queues cannot (fsm.c:41-66); `state_init` leaks the table's
  array when the key cannot be allocated (states.c:31-36); `htable_insert`'s
  HT_NOMEM is taken for success (states.c:69-73, fsm.c:76); `state_free` leaves the
  key (states.c:91-98).  `OnlyKnownLeaks` lists them.
* `mydevioctl` releases a string it only borrowed from the dictionary (mydev.c:179),
  and `prop_parse_du` exits on errors without releasing anything; both are
  exceptions of `RefsBalanced`.
* `kqtimer` never waits for its children (kqtimer.c:47-52); `ProgramsEnd` says what
  comes of it.
* In `fd = open(...) == -1` the comparison comes first, so that fd is standard input
  whichever terminal was named (echo_off.c:34).
* `test_rmcom` passes a character and a function that advances over it as arguments
  of one call, whose order C leaves open; and lines longer than its buffer may be
  cut within a mark.
* `matrixmul`: where `size_t` is wider than `int`, as on all 64-bit systems, each column
  is read as the upper half of a row (234), so that all threads write the first column
  and the others are printed as `malloc` returned them; when `pthread_create` fails the matrices are freed under the
  threads already started (104), which `MemorySafe` has as its exception.
* `kqclient` exits at an EV_EOF of either descriptor, with data of the host unread;
  a line already in stdio's buffer waits for the next input; `send` and `fgets` may
  wait and hold up the other direction (87, 136); and a read of `BUFSIZE` bytes leaves
  `buf` without a terminator (79-81).  `Responsive` and `InOrder` name these cases.
* kevent puts the changes of a file into one event, and the else-ifs of kqdir.c:109-118
  print one of them: of a write and a change of attributes, the write.  The program
  "will report any delete, write or attributes' change operation" (kqdir.c:6-7).
* `fsm_get_queued_events` counts events that are still being served.

## 5. The proofs

All are of safety, the last ones of what liveness rests on.  `tlapm` checks them for
every value of the constants that the modules' assumptions allow.

**Allocator** (`BuddyProofs`): `Typed`, `Partitioned`, `FlagsSound`, `BuddyFound`,
`Ownership`.  The assumptions are `PowAssumption` (`Pow2` obeys the exponent law),
`SizeAssumption` (what `mpool_init` accepts, and a header smaller than the
smallest chunk), `JunkAssumption`, and the hypothesis `NoSizeOverflow`, that no
request is so large that adding the header wraps.  Without it the theorems are
false: a wrapped size would be granted a chunk too small for it, which is why the
hypothesis is stated in the theorems and not hidden in the model.

The invariant is

    Inv == TypeOK /\ ListsBySize /\ Sound(Nodes, hdr) /\ UsedIsHeld /\ HeldFits /\ Calls

* `Sound(N, h)` is a property of a set of chunks and their headers, without lists
  or calls: `Tiling` (aligned, disjoint, covering), `Sides` and `Parents`.  None
  of the three is inductive alone.  That a merge meets a chunk at its buddy's
  address needs LR and the tiling; that LR is right after a merge needs PARENT;
  that PARENT is right after a merge needs PARENT of the *other* half.
* `HeldFits` is there because the client's writes must stay off other headers, and
  `Calls` since the size checked by the search must still fit at the split.

The argument rests on a few lemmas about data: `Nesting` and `RightHalfOdd` /
`OddIsRightHalf` on aligned intervals; `BuddyThere` (the slot next to a sound
chunk, on the side LR says, is a chunk's header); `FrameKeeps` (soundness does not
depend on memory outside the headers); `SplitKeeps` and `MergeKeeps` (the two
ways the tiling changes).  Then there is one lemma per action that changes
something, `QuietSteps` for those that do not, `NextInv`, and the theorems.

**Allocator and heap** (`BuddyProofs`), under the same assumptions:

* `Coalesced`: two buddies are never both left free.  `Inv` and `FullyCoalesced`
  together are inductive: `mpool_free` stops only where the buddy is in use, of
  another size, or none (`StopCoalesced`), and both halves of a split are the call's
  own until one of them is used (`SplitCoalesced`).
* `SmallestSplit`: the invariant `CurSmallest`, that the chunk a call is splitting is
  the smallest free one the request fits in, survives each split since the half is
  smaller still.
* `Implements`: `Spec => H!HeapInit /\ [][H!HeapNext]_(H!heapVars)`, the safety part
  of `ImplementsHeap`.  Calls, splits and merges stutter (`InvisibleSteps`); a grant
  needs that the chunk is no larger than the smallest power of two that holds the
  request (`GrantStep`); a refusal needs that there is no room anywhere, which is
  `RoomFound`: if an aligned place of the right size overlaps nothing that is held,
  some free chunk is that large.  For suppose not, and take a least chunk inside the
  place.  It is free; its buddy is inside the place too, and being no smaller than
  the least chunk it is one chunk of the same size, hence free, hence the two would
  have been merged.
* `StatsAlwaysAgree` (`StatsAgree`).  The functions of `mstat.c` are folds of the
  community modules, which pick the next element by CHOOSE; `FoldIs` of `Numbers`
  shows such a fold to be the sum whatever is picked, and the sums to be additive
  over terms and over disjoint sets (`SumBoth`, `SumDisjoint`).  The invariant on
  top of `Inv` is `Balanced`: the chunks' bytes are the pool's, and their number
  minus one is `nsplits - nmerges` plus a whole number of rounds of the counters.
  A split turns one chunk of a list into two of the next, half as large each
  (`SumsHalved`); a merge is a split read backwards.  That the used chunks are the
  client's between calls follows from `UsedIsHeld`, since no chunk is in two lists.

**Barber** (`SleepingBarberProofs`): `Exclusion` and `Accounting` (which includes the
types), for any number of customers and seats.  `Fresh` is what makes the accounts
inductive: the value of `freeseats` a thread has read is still its value when it
writes.  `Moved` says how one customer's step changes the count of customers at a
set of labels.

**Counter** (`ProgramsProofs`): `NoneLost` and `PrintsTotal`, for any number
of threads and rounds.  `Exclusive` and `Local` (a thread about to write holds
`myglobal + 1`) make the count inductive; `Progress` says that once `main` has
joined a thread it is done, so that the increments are all pairs of a thread and
a round.

**Matrix product** (`MatrixMulProofs`), for matrices of any size and contents and for
any garbage in fresh memory.  `FreesAll` needs no more: `Allocated` says that the
objects up to `mdepth` are complete, the one being allocated is in parts, and there
is nothing else, at every point at which `main` may give up.  `StaysSafe`,
`PairsStay` and `ProductPrinted` have the hypothesis `OwnSlots`, that matching
matrices have one row or a square product; elsewhere `PairsKept` is false, as the
run `matrix_slots` shows.  Their invariant is

    Works == input \in Inputs /\ Begun /\ Created /\ Placed /\ Working /\ Computed /\ PrintsProduct

`SlotIs`: under the hypothesis the slot of a cell is its thread's number, so a pair
and an id, once written (`Created`), stay.  `Begun` ties `main`'s ways out to the
threads: it leaves with none, with all joined, or because one could not be created.
`Computed` is the loop's invariant: a cell holds the sum of the terms its thread has
added, and what the thread has loaded is still there when it stores, since no two
threads have the same cell (`Cells`).  That much, and the product, is for `IntsPerSize`
1, which is a condition of `PrintsProduct`; `StaysSafe` and the rest hold for both widths,
since what a thread takes for its column is one in any case (`Words`).  `SumsAre` derives the recursive equations of
the reference definition `Sums`.  `MatrixStaysSafe` and `MatrixPrinted` in
`ProgramsProofs` cite these theorems for the instance in `MCPrograms`, whose
properties the run `programs` checks.

**State machines** (`FsmMachineProofs`): `KeysStaySound`, for any states, keys and
events.  `KeysSound` is inductive as it stands: `fsm_add_state` overwrites the key
of a state outside the table only, and whatever makes a key the current one takes
it from the table.  If the state whose key is overwritten is the current one, either
the table has its new key, or gets it with the state, or there was no memory for that,
which `keyLost` remembers until there is another current state.  `MarksFollow`: what `fsm_set_state` marks is within `Reach`, and
one transition of every marked state is followed, as far as the iterators yield both
(`MarksOneStep`).  `LayersAre` and
`PassesAre` derive the recursive equations of `Reach` and of the pass; `ReachClosed`
is the argument that layers which grow within a finite set have stopped after as
many steps as it has elements (`Stops`), so nothing leads out of the last one.

`OnlyLiveBlocks` and `NothingElseLeaks` are about `FsmLife`, for any sets of states,
events, queued events and keys and any number of buckets.

    LifeInv == LifeTypes /\ MachineBlocks /\ StateBlocks /\ EventBlocks /\ QueuedBlocks /\ Calls

A block's owner decides whether it may and whether it must be there: a state's four
blocks, by whether nobody, the client or the machine holds it, and in the last case
whether its insertion into the table failed (`StateOK`); an event's three blocks go
together, and the state it leads to is one the client has not freed while the machine
is up (`EventOK`), which is what makes writing its flag and reading its key safe.
Each allocating function is first reduced to the sets of parts it may leave
(`FsmMalloc`, `StateMalloc`, `EvtMalloc`, `NodeMalloc`, `QueuedMalloc`), each freeing
one to the fact that what it frees is there and distinct (`FreesAllOnce`,
`FreedBlocks`, `FsmFreed`).  The exception of `NoUseAfterFree` is in `Calls`.
`NothingElseLeaks` then goes through the kinds of blocks, from `LifeInv` alone.

`RemovesComments` (`CommentsRemoved`) is about `CommentRemover`, for any size of `buf`
and any file.  `OutsideIs` derives the equations of the recursive definition of what is
outside comments, by scanning as often as the file is long (`ScanThere`).  The
invariant has two parts.  `CutsNoMark`: where a piece ends, there is a newline on one
side of the cut, which is what lines that fit into `buf` give (not that the piece ends
with one: the newline may be the one character too many).  So `get_evt_key`, which
looks ahead within the piece only, misses no mark.  `Scanned`: what is printed,
followed by what is outside comments from the next character on in the current state,
is what is outside comments in the file.

**Event queues** (`FsmQueueProofs`), for any finite memory and any number of threads
and priorities: `NoEventLost`, `NothingDangles`, `CountsExact`,
`QueuesImplemented`.  They are false where one thread dequeues while another works
on the queues, as the run `queue_race` shows, so each states the hypothesis
`Unshared`: a thread that dequeues is the only one that queues, serves or counts.
It leaves the two ways in which the repository's tests use the queues but
`test_thread.c`: one thread that does everything, callbacks included, and any
number of threads that only take the mutex.

    Inv == TypeOK /\ \E qs \in [Prios -> Seq(Chunks)] : Good(qs)

The pointers represent sequences, and the proof carries these.  `Lists` says that
`first` and `next` spell them out; `Ends` where the tail pointers are, with the two
moments inside a macro in which one is behind; `Memory` that a chunk in use is in
one queue or in one thread's hands; `Holders` and `Roles` who has the mutex and who
does what; `Service` what the serving thread has seen and still relies on after the
callback; `Counting` that a count in progress is that of the events passed.
`ChainSteps` (following the links visits the sequence), `ChainAppend` and
`ChainTail` are about lists alone.  The refinement needs that the abstract queues
are these sequences, hence that the lists determine them (`HeldIs`); then linking and unlinking are the abstract operations and every other assignment
stutters.

**Hash table** (`HTableProofs`), for any keys, data, hash function, initial size,
factor and number of resizes: `TableWhole`, `IteratesInOrder`,
`DictionaryImplemented`.

    Inv == Stored /\ LoadBounded /\ Others /\ Yielded

`Stored` puts each entry into the bucket of its key, once, and is what makes a
search of one chain enough; that growing keeps it needs that every entry of the old
table is met once while it is spread over the new one.  `LoadBounded` ties the load
to the resizes that failed, `Others` types the rest, and `Yielded` says what
the iterator has given, by its position: the entries of the buckets before and those
up to its node.  Where it returns NULL, no bucket from its position on has an entry, or
its node is the first entry of the last bucket, which gives both halves of
`IterationInOrder`.

**Stand-alone programs** (`ProgramsProofs`), each with an invariant of its own:

* `DeviceStaysSound`, for any processes, text and length of read.  `OneOpener` ties
  `sc_usage` to the set of processes past their open; `Reads` says that a round of
  `uiomove` begins at a multiple of the text's length (`Aligned`), which is why
  consecutive rounds give the text over and over.
* `EchoIsKept`, an action property, for any terminals: `EchoInv` keeps what was
  saved equal to the mode until the program changes it.
* `OnlyGapsAreForgotten`, for finitely many files and any number of descriptors.
  `Notes` says which entries have a note in the kernel before, in and after a call of
  `kevent`; `OneShot` that only these have changes pending, and that an event that was
  returned has used up its note; `OnTheWay` accounts for every change; `Hidden` says
  what can be hidden in an event and when.
* `BlocksFreedOnTime`, for any number of epochs and any lifetimes.  `Queue`, the
  list is sorted by the ends of lives, is what looking at the head depends on;
  `PlaceIs` and `InsertIs` say that test4.c's scan keeps it.
* `KeepsOrder`, for any length of lines, read-ahead, size of reads and room of the
  socket.  What was typed is what was sent followed by what is on its way, in this order: the rest
  of the buffer being sent, stdio's lines, the unread input.  `Sending` types the
  partial send; `Printing` says that what is hidden has a zero byte at most a read
  before it, and that two reads that filled `buf` are a whole read apart.  The proof needs that the units of a concatenation of lines are
  the concatenation of their units, although they are defined by recursion;
  `Spelt` and `RowAndPlace` give the n-th unit in closed form and so avoid an
  induction over lines.

The assumptions are those of the modules, of `MCMachine` (`LifeRemoverAssumption`)
and of `MCPrograms` (`ProgramsAssumption`): numbers are numbers, the states of a
machine and the watched files are finitely many, no state or event is `Null`, keys and
events of `FsmMachine` are numbers that choose their buckets, a `size_t` is one or two
`int`s wide (`IntsPerSize`), `buf` and the socket hold at least one unit.
`MaxGrows`, `MaxEpochs`, `MaxLines` and `MaxPieces` are bounds of the models, and
the proofs hold for every value of them.

Induction over data is out of the prover's reach as the library states it, with an
operator for the property.  Where the property can be a set and the recursive step
a function, the lemmas `Induction` and `Recursion` of `Numbers` do instead, derived from the well-foundedness of the numbers.

**Calls that return, programs that end.**  Fairness and ENABLED are beyond the prover,
so liveness is TLC's.  What it rests on is not: as long as a call or a program is not at
its end, someone can take a step of it, and a number that each such step makes smaller
says how many are left.  With these two facts, fairness alone makes the end come, so
that each theorem is the safety core of a liveness property, for every value of the
constants.  That "someone can take a step" is stated by the guards and agrees with
ENABLED was checked with TLC.

* `CallsRunOut` of `BuddyProofs` (of `CallsReturn`): a call takes at most one step per
  size from `MaxLog` down to the minimum and two more, since each split halves the chunk
  and each merge doubles it.  `NothingForsaken` goes with it: neither of `mpool_free`'s
  early returns that would leave a merged chunk out of all lists (mpool.c:262-274,
  337-341) is taken: the buddy's address is in the pool, and of two buddies one is the
  left one.
* `EverybodyGetsDone` of `SleepingBarberProofs` (of `AllLeave`): the program has thirteen
  steps for each customer, the barber's six included, and one more.  The barber goes
  round only when a customer has rung, so his steps are counted with the ring that is
  yet to be heard (`RingsAhead`).  The invariant `Born` says that the threads
  `main` has created have begun.  That no one waits for ever (`NoDeadlock`) is the
  accounts of `Accounting` read at a standstill: if nobody can go on, the barber waits
  for a ring and the customers for him, and the semaphores' sums do not add up.
* `CounterRunsOut` of `ProgramsProofs` (the counter's part of `ProgramsEnd`): the number
  of steps is the same under every schedule, `Rounds` times five and one for each thread
  and two for each in `main`, so the measure is exact.  `Attended`: a mutex that is
  taken is in the hands of a thread inside, and the threads created have begun.
* `TimerRunsOut` of `ProgramsProofs` (the timer's part of `ProgramsEnd`): children are
  never waited for, so each round of "Loop forever" uses up a process for good, and
  there are `MaxProcs` of them; within a round at most `MaxExpired` expirations count.
* `CallsRunOut` of `FsmQueueProofs` (of `CallsReturn`), under `Unshared`: the thread that
  holds the mutex is on its way to release it (`MutexHeld`), so whoever is in a call can
  go on or waits for one that can.  A count has a priority or an event less to go with
  each step, by the bound that `TypeOK` has on `total`.  A callback may queue as often as
  it likes; each event takes memory that nobody gives back before the callback returns,
  which is why the measure has six steps for every spare chunk.  No step of a thread
  makes the call of another longer.  `MutexExclusive` needs no hypothesis: even where
  the queues are shared, a thread is inside exactly while it holds the mutex.
* `IterationRunsOut` of `HTableProofs` (of `IterationEnds`): while an iteration is on,
  nothing but its next call happens, which ends it or yields one entry of those left.
* `ProgramRunsOut` and `JoinsReturn` of `MatrixMulProofs`, under `OwnSlots`: `main` joins
  thread i in round i and waits only for a thread that was started and is in `mulvect`;
  and whatever fails, the program has at most as many steps as it begins with: the
  blocks, a join for each cell, and two steps for each term of each sum.

**Only model-checked**: `RefsBalanced`, whose module has no constants, so that TLC's
search is exhaustive.  Of liveness, that fair threads do take the steps just spoken of,
and `Responsive`, `NotedIsSaid` and the liveness of `ImplementsHeap` altogether.

## 6. Not modelled

* Copying, formatting, printing and hashing functions; the values callbacks
  compute; the clock, sleeps (any step may take any time) and random numbers (any
  choice).  What `prop_parse_du` makes of its input (its tokens are used
  unchecked, prop_parse_du.c:98).
* Straight-line demonstrations: `ipc`, the list demos, `pthread_create.c` and
  `pthread_join.c`, `homework`, `fileops`, the test sample, and `tcpopen` of
  kqclient.  Two of them deserve a remark.  The loop of hexdump.c:71 runs until
  `feof` or `len` bytes, neither of which comes when a read fails and no length was
  given; charfreq.c:48-50 stores an index where it keeps a maximum.
* `mpool_init` and `mpool_destroy` beyond the initial state, `MPOOL_OPT_FOR_SECURITY`.
* A callback that calls `fsm_dequeue_event` (it needs a stack of calls per thread);
  a machine with no queues at all, for which `nqueues - 1` wraps (fsm.c:196).
* `mulvect` on a big-endian machine where `size_t` is wider than `int`.  What the upper
  halves of the dimensions are there, which `fscanf` does not write (matrixmul.c:195),
  is taken to be zero.

## 7. Plan

In this order:

1. Nested dequeues in `FsmQueue`, with a depth per thread.
2. `MpoolInit`: validation and shift widths with integers of their width; the
   secure variant of `mpool_free`, which asks the lists before it reads a header,
   shown to behave as the other.
3. One module of small algorithms against reference definitions: the bitmap, the
   histogram, the rows of `hexdump.c`, the depth of `listdir_recursive.c`.
