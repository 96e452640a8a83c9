# A verification project for csci-3753-operating-systems-repo

TLA+ models of the concurrent and stateful programs of this course repository,
model-checked with TLC on small instances, and theorems about them checked by
TLAPS for every value of the constants. Paths below are relative to `src/`.

## 1. Inventory

Every program is a few hundred lines of C. What is hard about them is not size
but interleaving, early returns that skip a release, and bookkeeping that two
pieces of code share.

### PA4: shared array (`assignments/pa4/array.c`, `array.h`) and its test (`test.c`)
- State: a ring of `ARRAY_SIZE` strings with `head` and `tail`, a binary
  semaphore `mutex`, counting semaphores `full` and `empty`.
- Operations: `array_init`, `array_put`, `array_get`, `array_free`.
- Interaction: any number of threads call put and get; `test.c` starts eight
  threads (the even ones produce, the odd ones consume four items each), joins
  them and frees the array.
- Hard: `array_put` takes the index of the next open slot from the *value of
  the semaphore* `full` (`sem_getvalue`, 54, 61), which others change outside
  the mutex; both error paths return with the mutex taken; `array_init` fails
  with the mutex taken; `consume_routine` has `array_get` copy into a string
  literal.
- Correct means: exclusive access, no credit of a semaphore lost, never more
  than `ARRAY_SIZE` items, first in first out, nobody inside after the free, the
  test ends.

### PA6: multi-lookup (`assignments/pa6/multi-lookup.c`, `.h`, `util.c`, `util.h`)
- State: two bounded stores (file names; hostnames), two thread pools, two log
  files with a mutex each. The stores' `array.h`/`array.c` are not in the
  repository: they are external.
- Operations: `main` (arguments, `spawn_threads`, filling, poison pills, joins,
  cleanup), `requester`, `resolver`, `dnslookup`.
- Interaction: main -> `file_store` -> requesters -> `host_store` -> resolvers.
- Hard: shutdown by pills, threads that end early (an invalid file, a name the
  store rejects, a data line that reads `{END}`), `pthread_create` failures that
  the comparison with -1 misses, cleanup while threads run.
- Correct means: no hostname lost or duplicated between file and results,
  everything served when all threads are joined, resources freed after the
  joins, the program ends.

### PA7: paging simulator (`assignments/pa7/simulator.c`, `.h`, `programs.c`) and pagers
- State: the queue of processes to run, the table `processes` of loaded ones,
  a program counter per process, an age per page (free, in, coming, going), the
  count `pagesavail` of free frames.
- Operations: `allstep`/`process_step`/`process_unload`/`dequeue`, `allage`,
  `pagein`, `pageout`, the main loop; `pageit` of the pager in use:
  `pager-basic.c`, `pager-lru.c` (a stub), `pa8/pager-predict.c`.
- Interaction: each tick the simulator steps, ages, and calls the pager with a
  copy of the process table; the pager calls back `pagein` and `pageout`.
- Hard: a process may end while its pages are in transit; a slot is refilled in
  the loop that visits the slots; frames come back only after `PAGEWAIT` ticks;
  the pager works on a stale copy; the branch engine's tables of random lengths.
- Correct means: frames are conserved whatever the pager asks for, each process
  runs once to an exit, a page in transit can not be turned round, no process
  reads outside its page table, and with a sound pager the simulation ends.

### PA8: predictive pager (`assignments/pa8/pager-predict.c`)
- State: per process waits, time stamps, last page, a transition matrix, and the
  pager's own idea of which operations are under way and when they end.
- Hard: `pg_last` is set to -1 for process 0 only (192-193); a `pagein` that
  answers 1 for a page already in memory moves the expected end of the operation
  (377-379, 453-460); the tracking survives the process it is about; the
  simulator refuses every predictive pagein (`simulator.c:368`).

### PA3: character device driver (`assignments/pa3/pa3_char_device_driver.c`) and PA2 client (`assignments/pa2/pa2test.c`)
- State: one kernel buffer, open and close counts; a file position per client;
  in the client the bytes asked for and those it has.
- Operations: `pa3_char_driver_init`, `_exit`, `_open`, `_close`, `_read`, `_write`,
  `_seek`; `handle_read`, `handle_write`, `handle_seek` and the command loop of `main`.
- Interaction: each client is a process with one open file. Nothing in the driver
  is locked, so the calls of different clients overlap, in their copies too.
- Hard: `read` and `write` start at the first byte of the buffer whatever `*offset`
  says (60, 99), and the offset only limits how many bytes are left; `kmalloc` does
  not clear the buffer; a copy may be cut short; counts are not atomic; the
  client's write loop does not end when a write takes nothing (44-55); both loops
  keep what is left, a `long`, in an `int` and pass it on as a `size_t` (45, 66).
- Correct means: no copy leaves a buffer or uses one that was freed, bytes nobody
  wrote stay behind those that were written, whole writes only are taken for
  whole, and the loops that must end do.

### Recitation: threads (`recitation/threads/thread_test.c`)
- State: a counter and its mutex; a static buffer and two of the callers; a ring
  of `QSIZE` items under a mutex; a counting semaphore `semc_t` (a count, a mutex and
  a condition variable), twice.
- Operations: `inc_no_lock`, `inc_with_lock`, the two `upper_*`, the labels of part
  five, `semc_wait`, `semc_post`, `q_push`, `q_pop`, and `main`, which runs one part
  after the other.
- Hard: the race on the counter; a signal without a waiter, a wait that returns
  unasked, a third thread that takes the count first; count and ring change under
  different mutexes.
- Correct means: what the file says of each part, no wake-up lost, the ring a
  bounded FIFO, the program ends.

### PA1 and the rest
- `assignments/pa1`: two system calls of one expression each.
- `recitation/kernel-mem-access/copy_sim.c`, `recitation/syscall-demo`: programs
  without input that run once, in one thread.
- `see.R`, Makefiles, the `.ko`: plots, build descriptions, generated code.

## 2. Plan

| # | module | models | proofs |
|---|--------|--------|--------|
| 1 | `BoundedFIFO`, `Occupancy` | what a shared array promises; the blocking discipline alone | (abstract) |
| 2 | `SharedArray` | `array.c` | `SharedArrayProofs` |
| 3 | `ArrayTest` (extends 2) | `test.c`, `array_init`, `array_free` | `ArrayTestProofs` |
| 4 | `MultiLookup` | `multi-lookup.c`, `dnslookup` | `MultiLookupProofs` |
| 5 | `PageSim` | `simulator.c` with an arbitrary pager | `PageSimProofs` |
| 6 | `PagerBasic` (extends 5) | `pager-basic.c` | `PagerProofs` |
| 7 | `BranchEngine` (extends 5) | `bcontext_init`, `bcontext_decide` | `PagerProofs` |
| 8 | `PagerPredict` (extends 7) | `pager-predict.c`: its record of the transfers against the simulator's truth | `PagerProofs` |
| 9 | `CharDevice`, `DeviceClient` (extends it) | driver and client, composed | `DeviceClientProofs` |
| 10 | `SemaphoreQueue`, `ThreadTest` (extends it) | `thread_test.c` | `ThreadTestProofs` |

`RingProofs` has the lemmas about rings that 2 and 10 share. Every component with
state is modelled, and every invariant and action property of the passing runs is
a theorem, as are the four refinements. What may follow is finer: the waits of
`PagerPredict` against the number of frames it frees, and the safety halves of the
liveness properties (that a blocked `main` of `MultiLookup` always has a thread to
wait for).

## 3. Modules

Each module has the source's names for its state and operations. Operators
whose comment starts "Mutant of" are faulty variants of the definition behind
them: they are used by no specification and record what each property is
sensitive to. `MC*` modules only give values to constants.

### `SharedArray`
One action per semaphore operation or stretch of code between two: `CallPut`,
`WaitEmpty`, `PutLock`, `PutTooLong` or `PutItems` (the `sem_getvalue`),
`PutStore`, `PutUnlock`, `PostFull`, and the same for get. `pc[t]` says which comes
next. A failed call returns with the mutex at 0 and its credit spent, as in the
code. Strings are model values; a name is storable or too long.
`Spec` lets every thread call anything at any time. `PhasedSpec` keeps each put
apart from all other calls: the use in which the array is a queue.

### `ArrayTest`
`main` (init, spawn, join, free) and the two thread routines around the calls of
`SharedArray`; the external calls in `MayFail` may fail. `LiteralStore` is the set
of outcomes of writing to a string literal, which C leaves undefined.
An absent thread is one whose `pthread_create` failed unnoticed; joining it is an
error or a fault. `sleep` is left out, since any interleaving is allowed anyway.

### `MultiLookup`
The stores are sequences with a capacity (external). main walks through the
stages `parse`, `spawn_req`, `spawn_res`, `put_files`, `poison_files`, `join_req`,
`poison_hosts`, `join_res`, `cleanup` with its loop index `i`. A requester is at
`get_file`, `read` (next line) or `log`; a resolver at `get_host` or `write`.
`serviced` and `results` count lines of the log files. What an output mutex
protects is a single `fprintf` (or a lookup and an `fprintf`) and is one step.
`TouchFreed` is the undefined use of freed mutexes.
Left out: parsing of the two thread counts, opening and closing of the two log
files, time measurement, messages, the length of lines.

### `PageSim`
One action per iteration of the loop in `allstep` (an empty slot, a blocked
process, an exit with unload and refill, a branch taken or passed, the next
line), one for `allage`, and one per call of `pagein`/`pageout` that changes
something. The pager is any sequence of calls. `pages[k][page]` is the age of the
code: 0 is in memory, positive is coming, negative is going, `FREE` is out.
A process is identified by its place in the queue, so what belongs to it follows
it into the slot it is loaded to. A branch goes either way, which covers every table
that `bcontext_init` can draw (a GOTO is "forever" for 2^31 - 1 times only).
Left out: clocks and statistics, logging flags, option parsing, printing.

### `PagerBasic`
`pageit` as one step on top of `PageSim`. It stops at the first process whose
page is in memory or can be asked for. Its victim loop tests the wrong page and
never calls `pageout`, so the step has no pageout. A branch goes either way here;
strong fairness on passing it says that a run of decisions is finite, as the
`brings` tables are.

### `BranchEngine`
The branches of `PageSim` with their tables: `contexts` holds, per queue entry and
branch, what `bcontext_init` draws (`Drawn`: all tables it can draw), and `Decided` is
`bcontext_decide`. `laps`, not in the code, counts how often a branch was taken
since it was last passed. `EngineBranch` replaces the two branch steps of `PageSim`; all
other steps are those of `PageSim`. The tables are drawn in the initial state
instead of at loading, which no step can tell.

### `PagerPredict`
`pageit` of `pager-predict.c` on `BranchEngine`, cut into the stages `wait` (forget
operations that should be over, count pages), `evict` (the global victim loop),
`learn` (transitions and their decay), `window` (`update_working_set`), `current` (the
page each process is on, or a local victim), `predict`, `return`; `turn` is the slot a
stage's loop is at. `q` is the copy of the process table the pager works on. A
pagein or pageout changes the simulator as in `PageSim`, including the refusal of
each pagein but that of the current page. `pg_last` starts as the C initialiser
leaves it.
Left out: `workset`, which nothing reads, and `page_start`. The case of a branch in
`predict` does not arise, because a transition from a page to itself is never
counted (part of `PredictTypeOK`).

### `CharDevice`, `DeviceClient`
`CharDevice` has the driver: loading and unloading in two steps each, open and
release (a count is fetched and stored), `read` and `write` as a copy byte by byte
that may be cut short, `llseek`. A byte of the buffer is known by the file it came
through, or is `Junk`. `DeviceClient` puts one process with one file on top: it opens,
takes commands from its user and leaves; a read or write command repeats calls of
the driver as `handle_read` and `handle_write` do. `Asked` is what an `int` keeps of the
bytes that are left (`Wrapped`): if it is negative the kernel refuses the call, which
is external, and the client exits (`CallFails`); if it is 0, `handle_read` takes the answer
for the end of the file. A seek adds two `loff_t` in the same way. `Holders` are the clients that
`.owner = THIS_MODULE` makes the kernel count, so that `rmmod` is refused.
Left out: what is printed, the arguments of `main`, the parsing of numbers (which are
within a `long`, as `strtol` returns them), and that the kernel clears the bytes it
could not copy from the user.

### `SemaphoreQueue`, `ThreadTest`
`SemaphoreQueue` is part six: taking a mutex is one step, what is done under it
another; `Sleep` gives the mutex up, `Signalled` wakes any one sleeper, `Wake` is a wait
that returns unasked. `main` starts one producer and one consumer; the model takes
any equal number of each, which is what makes a woken thread find the count gone.
`ThreadTest` has the other parts and `main`. The counter is loaded and stored in two
steps, as in the unoptimised build the file names. A character of a buffer is
known by the thread that wrote it, a label by its length.
Left out: what is printed, the pauses, and a `pthread_create` that fails, which `main`
does not look at.

### `BoundedFIFO`, `Occupancy`
The abstract specifications. `SharedArray` maps `queue` to the unread slots from
`head` on (`Unread`) and `stored` to `Stored`: what `full` counts, plus the items
written whose producer has not posted, plus those a consumer has a credit for.
`SemaphoreQueue` implements the same `BoundedFIFO`, with its own `Stored`, under any
interleaving: it writes at `tail`, not at an index computed from a count.

## 4. Runs

| run | instance | checks | shows |
|-----|----------|--------|-------|
| `SharedArray` | 3 threads, 3 slots, a short and a long name, both targets | `TypeOK` `MutualExclusion` `SlotsAccountedFor` `NoGap` `CountsItems` | safety of the array under any use |
| `SharedArrayPhased` | 3 threads, 2 slots, 3 names, puts kept apart | `IsFIFO` | then it is a FIFO queue |
| `SharedArrayRace` | 2 threads | `IsFIFO` refuted | otherwise it is not |
| `ArrayTest` | 4 threads x 2 items, 2 slots, failures | `NoUseAfterFree` `Drained` `CleansUp` | the test is balanced and ends |
| `ArrayTestLiteral` | 2 threads, literal read-only | `TestReturns` refuted | the test faults as it is written |
| `MultiLookup` | 2 requesters, 3 resolvers, capacity 2, six command lines | `TypeOK` `NoHostLost` `AllServed` `JoinedBeforeFree` `Terminates` | the pipeline and its shutdown |
| `MultiLookupMissing` | 1 + 1 threads, an invalid file first | `EveryLineResolved` refuted | files are skipped silently |
| `PageSim` | 2 slots, 4 processes, 3 frames, `PAGEWAIT` 2 | `TypeOK` `FramesConserved` `NoFrameLeaked` `LoadedOnce` `PagesInRange` `AllReturned` `TransitCompletes` | the simulator under any pager |
| `PagerBasic` | 3 slots, 6 processes of 3 programs | `OneProcess` `NeverAllBlocked` `SimulationEnds` | the basic pager |
| `PagerPredict` | 3 slots, 5 processes of 4 programs, 3 frames, `PAGEWAIT` 4, `FREEBUF` 1 | `PredictTypeOK` `TracksTransfers` `LapsInRange` `ImplementsPageSim` `PredictEnds` | the predictive pager keeps a true record of the transfers under way, pages out nothing that is not there, is one of the pagers of `PageSim`, and brings every process to its exit |
| `DeviceClient` | 2 clients, 3 bytes, a copy cut short, loading and unloading | `ClientTypeOK` `CopiesInBounds` `NoHoles` `WriteComplete` `LoopsReturn` | which bytes clients that overlap can see, and which of their loops come back, for numbers of bytes that an `int` can hold and for others |
| `ThreadTest` | 3 counting threads, 2 producers, 2 consumers, a ring of 2 | `ThreadTypeOK` `CounterBounds` `Results` `NoLostWakeup` `ImplementsFIFO` `AllPartsEnd` | all six parts do what the file says of them |

`CHECK_DEADLOCK FALSE` is set for the programs that come to an end, and for the array,
which a mutex lost in a failed call stops for good. That something comes to an
end where it should is stated by the liveness properties. `DeviceClient` may only
stop when no client can do anything, which never happens: deadlock is checked
there.

### Bounds
- Array: with three threads and no more slots than threads the ring wraps, is full
  and empty, and the others can move `full` between two steps of one; that is what
  the index computation is about. With three slots the index falls short by two,
  the most that `NoGap` allows three threads (with two slots it can not). Threads and names are symmetric; no formula
  checked under symmetry tells them apart.
- Test: more items per producer than slots would fill the array; two producers
  with two items on two slots make both sides wait.
- multi-lookup: the six command lines contain each way a thread can end early,
  stores smaller than what main puts, an empty and a too long list. More
  resolvers than requesters make `res_args` too small.
- Simulator: three frames for two processes of two pages run out; queue longer
  than the table; `PAGEWAIT` 2 has a tick between start and arrival; one program
  leaves its last line by the default step; one has no branches.
- Predictive pager: four programs with each kind of branch (a FOR back and forth over
  two pages, an IF, an NFOR, a GOTO, none); five processes on three slots, so each
  slot is refilled while the pager remembers its last tenant; fewer frames than
  the three processes have pages. `PAGEWAIT` 4 is longer than the pager needs to come
  back to a slot: a `pagein` record outlives the process it is about, and the count of
  pages in memory passes `PHYSICALPAGES` (with 2 it never does). `FREEBUF` 1 makes the global victim loop run,
  `WINDOWSIZE` 2 and `DECAY_INTERVAL` 7 come round several times in a simulation.
  `MAXBRINGS` 2 is the shortest table that alternates (the code has 100), and the
  loops are entered again often enough for it to begin anew. `IFRUN` bounds the runs of an IF.
  `tick` and `laps` need no bound, as every simulation ends. Two branches stand in the
  model because the code has them but are not reached here: a predicted pagein
  that starts a transfer (the simulator refuses all but the current page, which
  `current` has asked for already unless its loop was left early) and a pageout
  that finds nothing to do (`TracksTransfers` excludes it).
- Device: two clients are enough for each overlap of two copies; a third adds no
  byte of a new kind to what two do to each other, except three-fold lost opens.
  Three bytes take a line of two and not a second one, so that writes end at the end of
  the file; users type less than nothing, some, more than there
  is, and more than an `int` can hold: 18, of which an `int` of at most 7 keeps 2 and then
  nothing, and 31, the greatest `long` here, of which it keeps -1 and which a seek
  takes past the greatest `loff_t`. TLC's own integers end where the code's `int` does. `FAULTS` 1
  bounds the copies that are cut short: one is enough to move a position to any byte.
  The constants keep the order of the code's 80, 900, 4096, 2^31 - 1
  and 2^63 - 1 (`ClientAssumption`).
- Threads: three threads with two iterations let one thread store an old value over
  what two others have counted, and again; the least result, 2, does not depend on
  how many there are beyond two and two.
  `LENGTH` 1 has a
  character and the end of the string. Two producers and two consumers of two items on a
  ring of two wrap it, fill it and empty it. `SPURIOUS` bounds the waits that return
  unasked; without a bound such a thread could go round for ever, which is not
  what the liveness properties are about.

### Fairness
Weak fairness of main and of each thread: the operating system schedules what
can run. Nothing stronger is needed for semaphores and stores, because every
thread makes finitely many calls, so nobody is overtaken for ever. `CleansUp` and
`Terminates` are stated for runs in which nothing fails (`Undisturbed`);
`Terminates` also assumes that a thread of each pool is left and that the pills of
the lost ones fit into a store: with more lost threads main does block for ever.
The simulator is sequential: weak fairness of its step. `PagerBasic` adds the strong
fairness of passing a branch described above; `PagerPredict` adds nothing, since its
branches are passed when their tables say so.
`DeviceClient` has weak fairness of what a client does once it is asked (`Work`);
users need not type, modules need not be loaded, and copies need not fail. `LoopsReturn`
promises that a read comes back for numbers up to `INT_MAX` only; for any other it
returns or exits.
`ThreadTest` has weak fairness of `main` and each thread. That suffices for the
mutexes, which every thread takes finitely often, and the semaphores, for which
`NoLostWakeup` is the safety part.

## 5. Proofs

Each theorem holds for every value of the constants that satisfies the module's
assumptions. Those ask for no more than that sizes are natural numbers, sets of
threads finite and markers such as `NULL` unlike what they mark; what goes beyond
is named below. Each module proves one inductive invariant and derives the
properties of the runs from it. Actions are taken one by one, and what several of
them leave alone is a lemma (`...Kept`, `...Stays`).

`SharedArrayProofs`, for every `ARRAY_SIZE`, every finite set of threads, all names:
- `TypeCorrect`, `Exclusion` (`MutualExclusion`). Inductive invariant `LockInv`:
  types, the argument of a put is a name, mutual exclusion, and a thread whose
  call failed never gets past the mutex again. The types alone are not
  inductive, since that `mutex' = mutex + 1` stays at most 1 needs its owner.
- `Accounting` (`SlotsAccountedFor`): by cardinalities of the set of threads
  that hold a credit; each step moves one element or one unit.
- `NoGapTheorem` (`NoGap`): the index is read inside the mutex, so only posts and
  waits of `full` by others, one per thread, separate it from `Stored`.
- `Counting` (`CountsItems`): refinement of `Occupancy`, step by step.
- `PhasedFIFO` (`IsFIFO` of `PhasedSpec`). `PhasedInv` adds that a putting thread is
  alone and that the value it got from `sem_getvalue` is still that of `full`; then
  `full` is `Stored` and the index is exactly behind the last unread item.
  `RingProofs` turns writing there, or moving `head`, into appending to a sequence or
  taking its tail.

`ArrayTestProofs`, for every number of threads, items and slots:
- `TestInvariant`, `FreedAfterUse` (`NoUseAfterFree`), `Balanced` (`Drained`). `TestInv`
  has the loop of `main`, the life of each thread, the invariants of the array
  while it is in use (not after a failed `array_init`, which keeps the mutex) and
  `Balance`: `full` is the items given less the items taken. Only the last ties the
  loops to the semaphore, so only it says that `full` ends at 0. `Balanced` assumes an
  even number of threads; `test.c` has 8.

`MultiLookupProofs`, for all numbers of threads, command lines, files and capacities:
- `LookupInvariant`, `LookupTyping` (`TypeOK`), `HostsKept` (`NoHostLost`), `JoinedFirst`
  (`JoinedBeforeFree`), `EverythingServed` (`AllServed`). The parts of `LookupInv`:
  `Threads` (types, the stage of `main`, who is created or joined), `FileQueue` (the file
  store is a section of the one sequence that `main` puts, files and then pills, and
  `Taken` says where it begins), `ExitCount` (which of the entries taken ended a
  requester), `LineFlow` (every line of a taken file is unread or logged), `HostFlow` (a
  name that was put is stored, being written, or in the results) and `PillFlow` (the
  pills, those of `main` behind all names).
- `EverythingServed` needs all of them: if a requester is left that no entry of the
  command line ended, a pill must have ended it, and the pills are behind every
  file, so every file was taken; likewise for resolvers and lines.
- `Total` is stated by counting pairs instead of by recursion, and `ValidFiles` is a set
  of positions on the command line, as the same file may be named twice.

`PageSimProofs`, for all sizes, every pager, and all programs that satisfy
`ProgramsAssumption` (the last line, or the one behind it if the last is no exit,
has a page):
- `PagingTypeCorrect`, `Conservation`, `NoLeak`, `QueueOrder`, `PagesExist`,
  `AllCompleted`, `Transfers`. Inductive invariant `PagingInv`: the five
  invariants with `LinesInRange` (program counters), `Returned` (who is no longer
  loaded is at an exit) and `DoneEmpty`. Conservation needs `NoFrameLeaked`, as
  `allage` turns over loaded processes only, and that needs the order of the queue.
- `GiveBack` is the counting lemma for frames that come back, in `process_unload`
  and in `allage`; `DivMonotone` carries lines to pages.

`PagerProofs`:
- `BasicInvariant`, `OneAtATime` (`OneProcess`), `BasicNeverBlocks` (`NeverAllBlocked`).
  `BasicInv` adds to `PagingInv` that nothing is paged out and that all frames are held
  by the process in the first occupied slot: the pager turns to a later slot only
  when it finds no frame for an earlier one. `BasicNeverBlocks` assumes
  `MAXPROCPAGES <= PHYSICALPAGES`, which are 20 and 100 in `simulator.h`; a larger
  program would stop for good, as the pager never evicts.
- `PredictRefines` (`ImplementsPageSim`): each stage that fetches or evicts is a pagein
  or pageout of `PageSim`, each step of the branch engine one of its branches, the rest
  stutters. The theorems of `PageSimProofs` so hold of the predictive pager, and the
  proof of `PredictInvariant` uses them.
- `PredictInvariant`, `PredictTyping` (`PredictTypeOK`), `PredictTracks` (`TracksTransfers`).
  `PredictInv` says how the record of a page and its age agree, with bounds: a
  `pagein` record may expect the arrival late, as asking again moves it, but never
  early; a pageout record is exact. `Victims` is needed because the copy `q` is stale once
  something was paged out, and only the record says so.
- `LapsHold` (`LapsInRange`): `LapInv` ties `laps` to the place in the table. It rests on an
  even `MAXBRINGS` (`simulator.h` asks for it in capitals) and on `LapsAssumption`: the
  bounds of a loop are positive, as in `programs.c`.

`DeviceClientProofs`, for any clients, sizes and numbers that users type:
- `DeviceInvariant`, `DeviceTypes` (`ClientTypeOK`), `CopiesStayInBounds` (`CopiesInBounds`),
  `WrittenIsPrefix` (`NoHoles`), `WritesComplete` (`WriteComplete`). `DeviceInv` says of each
  client which call it can be in, how far its loop and its position are, that it
  holds the module while it has the file, and that what a write has copied so far
  is not `Junk`, whatever others write over it. `AskedLeft` shows that no call asks for
  more than is left, whatever was cut off, and that a write is never refused, without
  which `WriteComplete` would not hold. A count that was fetched and is not yet
  stored is bounded by those who have opened (or gone), which only grow.

`ThreadTestProofs`, for any numbers of threads, iterations, items and elements:
- `ThreadInvariant`, `ThreadTyping` (`ThreadTypeOK`), `RacyCounter` (`CounterBounds`),
  `PartResults` (`Results`). `IncInv` counts the increments made; for the lower bound of 2
  it says that after a first store no later iteration loads a 0. `FillInv` has the
  characters each caller wrote.
- `QueueWakeups` (`NoLostWakeup`), `QueueIsFIFO` (`ImplementsFIFO`). `QueueInv` has the
  credits of the two semaphores, `TailBehindItems` and `NoLostWakeup` itself. A signal may
  wake a thread whose count a third one takes; the invariant survives as the
  third is then awake, and posts later.

The attempts to prove corrected the models in two places. `PageSim` kept a GOTO from
being passed; `simulator.c` takes it 2^31 - 1 times (127-133) and then passes it like any
other branch, and `PassBranch` now allows it, without which the branch engine did not
implement `PageSim`. `PredictTypeOK` bounded `need_free` by `FREEBUF`; a record left by a
process that ended counts as a frame in use, so that it can be more, and the run
`PagerPredict` now has a transfer time that gets there.

Only model-checked, because the provers do not reach it: liveness (`CleansUp`,
`Terminates`, `SimulationEnds`, `PredictEnds`, `LoopsReturn`, `AllPartsEnd`), with `ENABLED` and
the fairness behind it. No proof goes by induction over data; sums and counts of
occurrences are cardinalities of sets. The refutations of section 6 are runs.

## 6. Where code and documentation part

Refuted by a run, with the lines in `PROJECT.json`: the array is not a FIFO under
concurrent use; `test.c` writes to a literal; an invalid file ends a requester.

Visible in the models without a run of their own:
- PA4: `array_put`/`array_get` return -1 with the mutex taken (`PutTooLong`,
  `GetNull`); `array_free` after a failed `array_init` waits for ever
  (`ArrayInitFails`).
- PA6: after a failed `malloc` or put, main frees stores and mutexes without joining
  the threads (359; `JoinedBeforeFree` says when it does not); one data file more
  than `MAX_INPUT_FILES` is accepted (`ParseArguments`); `res_args` is sized by
  requesters (`SpawnResolver`); `dnslookup` looks at the first address only
  (`DnsLookup`); a `{END}` in a data file ends a resolver (`GetHost`).
- PA7: the contract of `pagein` (`simulator.h:38-40`) does not mention that every
  page but the current one is refused (`simulator.c:368`); the victim loop of the
  basic pager tests `page` where it means `vic` (`pager-basic.c:21`), so it never
  pages out; `bcontext_init` writes `brings[MAXBRINGS]` for an IF
  (`simulator.c:146`).
- PA8: `pg_last` is -1 for process 0 only (`PredictInit`); when a local victim is
  found the loop breaks (416) and the slots behind it keep an old time stamp
  (`EvictLocal`), although the pager is to "track usage time of pages".
- PA3/PA2: two opens that overlap are counted as one (111-112, `StoreOpen`); a read
  can return bytes of `kmalloc` that nobody wrote (`Junk`); what `register_chrdev`
  returns is not looked at (`Register`); a write that does not fit goes round for
  ever (`pa2test.c:44`), which `LoopsReturn` therefore does not promise to end; a user who
  asks for 2^31 bytes ends the client with "error reading file", and one who asks for
  2^32 is told it is the end of the file (`pa2test.c:66`, `Asked`).
- Threads: "Whichever finishes last overwrites it" (`thread_test.c:382`): the static
  buffer may as well be a mix of both strings (`Fill`).

## 7. Not modelled

- `pager-lru.c` is a stub that prints and exits.
- The system calls of PA1 are one expression each, without state (the product is
  computed in `int` before it is widened).
- The kernel demonstrations run once, in one thread, without input: running them
  shows all there is. The copies they imitate are modelled in `CharDevice`.
- `dnslookup` is modelled up to `getaddrinfo`, which is external, and without a
  failure of `inet_ntop`, whose buffer has the right size.
- Statistics, logs, option parsing, printing, `see.R`, build files, binaries.
