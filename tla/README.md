# A verification of shmlib and shm_racer

shmlib is a small shared-memory accessor library that hunts for data races: an
access leaves a *trap*, the thread may linger, and an access of another thread
that runs into the trap is printed as a race. It learns from *near misses* how
long a thread should linger. shm_racer is the program that exercises it, with
sets of threads that race, or do not, on a shared structure.

Paths below are relative to the repository's `src/`, that is `shmlib.c` is
`src/src/shmlib.c`, and `shmlib.h` is in `src/src/include/`.

## 1. The system

| part | state | operations |
|---|---|---|
| access log (`shmlib.c:20-88`) | `shm_access_log[1000]`, `shm_access_log_idx` | `log_access`, `flush_access_log`, `reset_access_log` |
| trap table (`shmlib.c:153-339`) | `shm_trapper`, 5 slots | `find_trap_violations`, `set_trap`, `clear_traps`, `clearall_traps` |
| hazard tables (`shmlib.c:90-150`) | `logged_hazards`, `nm_hazards` (uthash) | `trap_violation_logger`, `nm_violation_logger`, the decay in `set_trap`, `clearall_loghashes`, `reset_nm_decays` |
| `shm_op` (`shmlib.c:360-394`) | `shm_master`, `shm_mutex` | one call, two critical sections with a sleep between them |
| call sites (`shmlib.h:73-93`) | none | `SHM_OP`, `get_info_str` |
| thread set runner (`shm_racer.c:96-108, 194-281`) | `running_threads`, the handles of a set, `main`'s loop variables | `main`, `spawn_thread_set`, `wait_thread_set`, `cancel_thd_set`, `pthread_helper` |
| thread routines (`shm_racer.c:25-94`, table `:112-190`) | `shm_access_mutex`, the semaphore `x_to_y_mutex`, the members of `shm_master` | `readModifyWrite`, `setValue`, `readValue`, `mailman`, `mail_customer`, with their `_safe`, `_first`, `_second`, `_foolhb` variants |
| `uthash.h` (vendored) | `UT_hash_table`, a `UT_hash_handle` in every element | `HASH_ADD`, `HASH_FIND`, `HASH_DELETE`, `HASH_CLEAR`, `HASH_SRT`, `HASH_ITER`, `HASH_SELECT`, ... |
| `utlist.h` (vendored) | a head, and the links of the elements | the `LL_`, `DL_` and `CDL_` macros |
| `utarray.h`, `utringbuffer.h` (vendored) | index, capacity, the slots | push, insert, erase, resize, clear, walks |
| `utstack.h`, `utstring.h` (vendored) | one link an element; index, size and buffer | push and pop; append, printf, two searches |
| `llvm_tests/tiny_race.c` | | an unrelated two-line example |

How they interact. A routine calls `shm_op`. Under `shm_mutex` it checks the
other threads' traps, flushes the log, scans it for near misses, appends its
entry, copies the data and sets its own trap; without the lock it sleeps; under
the lock again it clears the trap. The near misses a call records decide how
long *later* calls at the other site sleep; a race that a trap catches removes
its near miss and keeps it out from then on. `main` resets all of this between tries *without the
lock*, when it believes no thread is left. What it believes is
`running_threads`: threads are never joined; each decrements the count when its
routine returns, and `main` decrements it for every thread it cancels after a
timeout. `shm_op` keeps its two hazard tables in `uthash`; the other `ut*.h`
come with the repository, and nothing in it includes them.

What is hard to test:

* the check against the traps and the setting of one's own, four calls apart:
  the detector is complete only because both are in one critical section;
* traps that stand while other threads scan, set and clear, with a pointer to
  the caller's stack in them;
* indices at their limits (full log, full trap table, the scan past the index);
* the running means, in mixed signed and unsigned arithmetic with truncation;
* a timeout that races with threads that finish, deferred cancellation, creation
  that fails, and resets that take no lock;
* threads cancelled in the middle of `shm_op`, in its sleep or in a `printf` under
  the lock, and what they leave: a trap, `shm_mutex`, `shm_access_mutex`;
* ages computed with a wall clock that is set back, delays that do not fit;
* intrusive links: a macro that forgets one pointer, a tail that only the next
  addition reads, a walk whose body deletes the element it is at, a table that
  expands under a walk;
* indices that wrap, slots whose elements own something, room for a NUL.

`PROJECT.json` lists each at its line, with the property that covers it or the
reason none does yet.

What makes each part correct:

* log: entries are in the order of time, and the index is in the array. (A flush
  ought to drop what is stale and nothing else: it does not, see section 5.)
* traps: a trap stands for exactly one call in progress.
* hazard tables: a race is in one of the two tables at most; a delay is within
  what was observed.
* `shm_op`: all races of accesses open at the same time are reported, and no
  others; calls return.
* delays: what is stale is what is older than the threshold, a mean lies between
  the ages it is of, and the thread sleeps as long as was computed (it does not:
  section 5).
* routines: the `_safe` ones are atomic and never reported; what the semaphore
  orders is ordered; the racing ones lose only what their races explain; only a
  cancelled thread leaves anything behind.
* containers: each is the map, the sequence, the history or the string it
  promises to be, whatever is done to it in whatever order.
* runner: the count is never too high, is exact until a timeout, and the resets
  meet no thread until then; a timeout reaches every thread; the program ends.

## 2. Modules

| module | models | composed of |
|---|---|---|
| `ShmTypes` | accesses, overlap and race tests, the text keys | |
| `AccessLog` | the log and the clock | `ShmTypes` |
| `TrapTable` | the traps | `ShmTypes` |
| `HazardTables` | both hash tables, the running mean | `ShmTypes` |
| `ShmLib` | `shm_op` by several threads, resets between rounds | the three above |
| `RaceMonitor` | the abstract detector that `ShmLib` implements | `ShmTypes` |
| `ShmRacer` | `main` and the lives of its threads | |
| `Workloads` | the thread routines, their lock and semaphore, cancellation in the middle of a call | `TrapTable` |
| `AtomicStore` | the abstract store that the `_safe` routines implement | |
| `Delays` | ages, means and sleeps in the widths of the code | |
| `ListSort` | the merge sort that `uthash.h` and `utlist.h` share | |
| `UtHash` | the macros of `uthash.h` on a table | `ListSort` |
| `UtHashClient`, `OrderedMap` | one table and its client; the map it implements | `UtHash` |
| `UtHashSelect` | two tables that share elements, with `HASH_SELECT` | `UtHash` |
| `UtList` | the macros of `utlist.h` | `ListSort` |
| `UtListClient`, `OrderedLists` | lists of the three kinds and their client; the sequences they implement | `UtList` |
| `Slots` | slots whose elements own something | |
| `UtArray`, `Vectors` | `utarray.h`; the sequence it implements | `Slots` |
| `UtRingBuffer`, `BoundedHistory` | `utringbuffer.h`; the history it implements | `Slots` |
| `UtStack`, `UtString` | `utstack.h`, `utstring.h` | |
| `Containers` | what the containers are given and promise, and a client of any one of them | all six |
| `MCContainers`, `MCShmLib`, `MCShmRacer`, `MCWorkloads`, `MCUtHashSelect`, `MCDelays` | constants for TLC, or the symmetry of the threads (`MCDelays`) | one module each |
| `ShmLibProofs` | theorems about `ShmLib` | `ShmLib` |
| `ShmRacerProofs` | theorems about `ShmRacer` | `ShmRacer` |
| `WorkloadsProofs` | theorems about `Workloads` | `Workloads` |
| `DelaysProofs` | theorems about `Delays` | `Delays` |
| `ContainersProofs` | theorems about the array, the ring, the stack and the string | `UtArray`, `UtRingBuffer`, `UtStack`, `UtString` |
| `ListProofs` | what each macro of `utlist.h` but the sort does to an order | `UtList`, after `ContainersProofs` |
| `ListClientProofs` | the sort, and theorems about `UtListClient` | `ListSort`, `UtListClient` |
| `HashProofs` | theorems about `UtHashClient`, and about a client of any container | `UtHash`, `UtHashClient`, `Containers` |

Operators whose names end in `_Something` (`clear_traps_Lost`) are wrong
versions of the operator that follows them. No module uses them: they are put in
its place one at a time, to see that a property notices.

### How state and actions correspond to the code

`ShmTypes`. A thread is its 1-based number, as in the tables (`shm_op`
increments `thd_idx`); 0 is "no thread". An access is a record of direction,
offset, size, buffer size and call site. The key of a hazard is the record of
what is printed into `msg_key`: both threads, both sites, and WAR, RAW or WAW.

`AccessLog`. The whole array is kept, cells past the index too, because the
near-miss scan reads one of them. Seconds and microseconds are one tick count.
`flush_access_log` finds the newest stale entry, copies what is above it to the
front, and sets the index to 0. The copy is a `memcpy` that may overlap itself;
it is modelled as a forward copy.

`TrapTable`. `place_trap` takes the first free slot; `find_trap_violations`
returns the keys the code hands to `trap_violation_logger` one by one.

`HazardTables`. `logged_hazards` is a set of keys, `nm_hazards` a function from
keys to count, mean and divisor (the power of 3 that `pow(3, factor)` gives).

`ShmLib`. `pc` follows a thread through `shm_op`:

| action | code |
|---|---|
| `Call` | the early returns, `shmlib.c:363-369` |
| `FindTrapViolations` | lock and `:371` |
| `FlushAccessLog`, `FindNearMisses` | `:372`, `:373`, one scanned entry a step |
| `LogAndCopy` | `:374-380` |
| `SetTrap` | `set_trap` up to its loop; with no free slot also the unlock |
| `AverageDelay` | one round of `HASH_ITER` in `set_trap`, in any order |
| `ReleaseAndSleep`, `Wake` | `:381-387` |
| `ClearTraps` | `:389-392` |
| `NextRound`, `NextSet` | `main`'s resets, once every thread is out of `shm_op` |
| `PassTime` | the wall clock, between any two steps |

`ScannedEntry` is what the scan reads at an index. With a full log the last
index lies outside the array. In the binary the repository ships `shm_trapper`
follows the array directly, and its first trap has its thread, its range and its
type where an entry has thread, range and direction; the model reads those.

`ShmRacer`. `at` follows `main`; `thread` gives each thread's life: unborn, in
its routine, there with a cancellation pending, past it, gone. `CreateThread`
may fail and then leaves the handle as it was or written (POSIX leaves it
undefined). `CancelThread` is one round of `cancel_thd_set`: it may find the
thread alive or gone, and it may fail, upon which `main` leaves. A cancelled
thread dies at a cancellation point (`Die`) or returns all the same (`Return`,
`Finish`). Thread ids of finished threads are taken not to be reused while they
are in a slot.

The two models meet in the resets: `ShmLib` resets only when every thread is
outside `shm_op`, and `ResetsAloneUntilTimeout` of `ShmRacer` is the proof that
this is so until the first timeout. What happens after one is in `Workloads`.

`Workloads`. A routine is the sequence of its steps: reads and writes, which are
calls of `shm_op`, and `lock`, `unlock`, `post`, `wait`, `sleep`. A thread is a
try and a slot; `th` has where it is in its routine and its local `tmp`. It
outlives its try if it must, under an index that its successor in the slot has
too, and that index is all the traps know.

| action | code |
|---|---|
| `BeginCall`, `EndCall` | `shm_op`'s two critical sections, `shmlib.c:370-382` and `:389-392` |
| `TakeAccessMutex`, `GiveAccessMutex` | the lock of the `_safe` routines |
| `Semaphore` | `sem_post`, `sem_wait`, `sleep(2)` |
| `Finish` | the return of the routine |
| `DieSleeping` | a cancelled thread in `usleep`, `sem_wait` or `sleep` |
| `DiePrinting` | a cancelled thread in the `printf` of a report, under `shm_mutex` |
| `NextTry`, `Timeout` | `main`, as far as `ShmRacer` shows it: it goes on when the threads of the try have ended, and after a timeout whenever it likes |

The first critical section is one step because `ShmLib` shows that nobody sees
its inside; a printed report is the exception and has its own action. The
reported races are kept, the log and the near misses are not: they decide only
how long a thread sleeps, which is any time here. `program`, chosen at the start
from the constant `Programs`, has the thread sets in their order, the tries of each
and which of timeouts and failing creations happen.

`Delays`. Seconds and microseconds are apart, ages and means are words of
`2 * HalfWord` values, the argument of `usleep` takes `UsecWord`, a double is exact
below `ExactBelow`. One call of
`shm_op` by one of `Callers`, a thread at a site, is one step (`Access`): the clock,
the flush, the near miss against the one cell of the log, the mean of `set_trap`
with its decay, and the truncation to `int`. A near miss is kept under the pair of
the caller that met it and the one that made the logged access, and `set_trap` takes
in those whose logged access was its own caller's (`Own`), in the order of the table:
the call that records a near miss does not sleep by it, the earlier caller's next one
does. The mean is any value when a decayed average is an age in the
future: its conversion from double is undefined. `SetClock` moves the clock on, or,
with `SetBack`, anywhere.

`UtHash`, `UtList`. A pointer to an element is the element, `NULL` is a value of
its own; a structure is the record of the fields the macros write, and a macro
is an operator from the structure before to the one after, with the code's
branches and order of writes. `HASH_FSCK`, the check that `HASH_DEBUG`
compiles in, is an operator too. In `UtHashClient` the client keeps the
headers' rules: it adds no key that is there, except through `HASH_REPLACE`, and
frees what leaves the table, so that a link into it would be seen. A walk
(`StartWalk`, `StepWalk`, `EndWalk`) is `HASH_ITER` or a `FOREACH_SAFE`, and its
body is the `Delete`s and `Add`s in between. `UtListClient` makes each call on
three lists at once, one of each kind. `ListSort` models the sort as passes
over a sequence, run by run; the macros set the links from its result.

`UtArray`, `UtRingBuffer`. `Slots` says what a slot holds: an element, nothing
(`Raw`), or the wreck of one that was destroyed twice or constructed over (`Bad`).
The three functions of a `UT_icd` are its three operators.

`Containers` has the variables of all six clients. `client`, chosen at the start,
is the one that moves; a property of the others then holds trivially in that
behaviour, and is about its own container in the behaviours where that one is
chosen.

`UtStack` keeps a ghost of what was pushed; `UtString` has the buffer cell by
cell, with the ones nothing has written, both tables of Knuth, Morris and Pratt
and both searches. `vsnprintf` is modelled by the length it reports, which is
-1 or the length wanted when the room is too small.

## 3. The abstract specifications

`RaceMonitor` has two variables: the access that each thread holds open, and the
set of reported races. Opening an access reports, in the same step, every race
with an access another thread holds open, and nothing else. There is no
lock, no trap, no log. `ShmLib` implements it (`ImplementsMonitor`) with the
mapping: an access is open from the moment the lock is taken until the trap is
cleared; the reported races are `logged_hazards`. The check against the traps
happens at the first step, the trap is set five steps later, and a thread may be
anywhere between: the mapping holds because no other thread can pass its own
first step in that time.

It needs a slot for every thread. shm_racer has it: `MAX_SUPPORTED_THREADS` and
`MAX_SHM_TRAPS` are both 5. Without it (`FullTable.cfg`) reports are still
sound, but not complete.

The others, each implemented under the mapping named:

* `AtomicStore`: the `_safe` routines are each one indivisible update of the
  structure. The mapping is `mem`, and while `shm_access_mutex` is taken what
  `mem` was when it was: a thread cancelled half way keeps the mutex for ever,
  so that its half is seen by no other `_safe` routine. `cnt_x` is read once and
  incremented from there, which is atomic only under the mutex.
* `OrderedMap`: at most one element of each key, in an order that additions
  extend and sorts rearrange, stably. The mapping is the application order. An
  expansion, and every step of a walk, is a stutter.
* `OrderedLists`: sequences with no element in common; the mapping is the
  circular list, and `ListKindsAgree` says that the two others are the same.
* `Vectors`: a sequence of copies, padded with zeros where an insertion is past
  the end.
* `BoundedHistory`: the last `n` values, with no index and no flag.

## 4. The runs

| run | instance | shows |
|---|---|---|
| `core` | 2 threads, 2 calls each of {read, write, refused call} on one byte, log of 3, clock of 3 values, threshold 1 tick | all safety properties and the refinement |
| `three` | 3 threads, 3 slots, a two-byte read against a write of the second byte, two rounds and the next set | completeness with three parties, partial overlap and resets |
| `full_table` | 3 threads, 2 slots | soundness without enough slots, and `CallsReturn` |
| `racer` | sets of 1 and 2 threads, 3 slots, timeouts of 1 and 2 seconds, 2 tries | the runner's properties and `MainLeaves` |
| `workloads` | four programs of two-thread sets: *safe* (both `_safe` sets), with timeouts and failing creations; *cancelled* (`RMW_SAFE`, `RMW_HB`), with both too; *ordered* (`RMW_RACE`, `RMW_SAFE`, `RMW_HB`, `RMW_HB_FAKE`), two tries each, no faults; *racy* (the sets with `cnt_x` and the mailbox), no faults | what is ordered is never reported, the refinement of `AtomicStore` with threads that die in the middle, the happens-before of the semaphore, what lost updates can cost, what is left behind and by whom, and that every routine ends |
| `delays` | 3 threads, alike, at a site; 16 values of age, 4 of sleep, 8 exact in a double, a second of 2 microseconds; up to two hazards of up to two near misses, each decayed up to once | ages and means, with a clock that is set back |
| `containers` | `uthash`: 4 elements on 3 keys, from 1 bucket, threshold 1. `utlist`: 4 elements with tied ranks, two heads of each kind. `utarray`: from 1 slot, up to 4 elements of 2 values. `utringbuffer`: rings of 1 to 4 slots. `utstack`: 4 elements, two stacks. `utstring`: up to 4 characters of an alphabet of 2, from 2 bytes; every needle up to 4, every start | a well-formed table, exact lookups, chains and inhibited expansion; links both ways and agreement of the three kinds of list; whole walks in all of them; slots, room and searches exact; and the refinements of `OrderedMap`, `OrderedLists`, `Vectors` and `BoundedHistory` |
| `flush_keeps_recent`, `scan_past_log` | as `core` | violated: section 5 |
| `set_complete` | one set of 2 threads, 2 tries | violated: section 5 |
| `select_then_add` | 3 elements, two tables | violated: section 5 |
| `delay_truncated` | as `delays`, 64 values of age, a second of 3 microseconds, a clock of 4 seconds that only moves on | violated: section 5 |

Why the bounds are enough for the cases that matter. Four accesses with a log of
three fill the log, so that an access is dropped and the scan leaves the array;
a threshold of 1 tick with two ticks of time makes entries stale while others
are not, so that a flush has survivors; two calls a thread let a near miss of
the first call set the delay of the second, and let a trap catch what was a
near miss before. Three threads are the least for a trap seen by a thread that
neither set it nor is about to. In `racer` the first set's timeout of 1 lets a
cancelled thread of one set outlive it into the next; 3 slots with at most 2
threads leave a slot without a handle, and failed creations put such a slot in
front of a used one. `MaxCalls` and `MaxTime` are the only bounds of the models
that the code does not have, and `MaxCalls` is in substance there too: each
routine makes a fixed number of calls.

In `workloads` every set has two threads, as the sets with a property of their own
have in the table; larger sets of the table are more of the same routines, and a
third party is met in the runs of `ShmLib`. Loops run once or twice
(`Increments`, `Deliveries`, `Pickups`; in the code `setValue` writes 30 times, the
mailman delivers 4 times and the customer collects twice): two rounds
are the least for an update that is lost between two of one's own. Two tries let
a trap, a post or a lock of one outlive it into the next.

`delays` has few values so that everything wraps: 16 of age against a
second of 2 microseconds and up to 4 of time, both sides of the sign bit, means
of one and of two near misses. Three threads are the least for a caller with two
hazards of its own to average. The hash table expands from 1 to 32 buckets: its three keys
share a bucket until two expansions in a row have not helped and there are no
more, or, if deletions come between, until one key parts from the others at 32
buckets. `MaxBuckets` stops a table that doubles at every other addition, and
`MaxAdded` a body of `HASH_ITER` that adds for ever. Four list elements are the
least with a sort of more than one merge in the first pass and more than one
pass; lists of three have a run without its partner. The array grows from one
slot to two and to four; the rings include the one of one slot, where every push wraps; the
strings have needles like `xyxx` that overlap themselves, at every place and on
both sides of a start.

The data that `ShmLib` copies is one value: what it is worth is `Workloads`'
part.

Deadlock is checked except for `ShmRacer` and `Workloads`, whose programs end, and,
in `Workloads`, for the dead `shm_mutex` of a thread cancelled in its `printf`: there
the rest of the program does wait for ever, but for `main`.

### Fairness

* `ShmLib!FairSpec`: weak fairness of each thread's steps *inside* `shm_op`. The
  operating system does not abandon a thread and a sleep ends; nobody is obliged
  to call. It is not assumed that the lock is fair: a waiting thread can only be
  overtaken as often as others still have calls to make, which is finitely
  often in a round.
* `ShmRacer!FairSpec`: weak fairness of `main` alone. `main` waits for nothing
  but `sleep(1)` and a mutex that is held around one addition. Threads may hang
  for ever, as they do on the semaphore or on `shm_access_mutex`.
* `Workloads!FairSpec`: weak fairness of the steps of the thread in each slot of
  the current try, and of `main`'s `NextTry`. The lock is not assumed fair: a thread
  can lose it only to one that then moves on in a routine that ends. Nothing is
  asked of dying threads or of timeouts, and `RoutinesEnd` promises nothing once
  one of the faults has happened: with them threads do hang.

## 5. Where the code does otherwise

* **A flush loses the recent entries.** `flush_access_log` moves the entries
  that are not stale to the front and then sets the index to 0 instead of their
  number (`shmlib.c:64-65`), so the accesses that follow overwrite them. Run
  `flush_keeps_recent`.
* **The scan reads past the log.** `find_near_misses` loops to
  `shm_access_log_idx` inclusive (`shmlib.c:270`). At the index there is either
  an entry that a flush gave up, which makes a near miss out of an access that
  may be old, or, when the log is full, the object behind the array. Run
  `scan_past_log`. The two together have the odd effect that some of the entries
  the first loses are found by the second.
* **After a timeout the count is too low.** `cancel_thd_set` decrements
  `running_threads` for threads that decremented it already, or will
  (`shm_racer.c:203, 210`). The next tries then start with a debt: `main` reads
  0 while threads run, prints `SETCOMPLETE`, and resets the tables under
  them. Run `set_complete`; the count errs in this direction only
  (`NeverOverCounted`, proved).
* **A selection loses elements.** `HASH_SELECT` never moves the tail of the
  destination from its first element (`uthash.h:1019`); the next `HASH_ADD` to
  it appends there and cuts off the others. `HASH_FSCK`, which both macros call
  at their end, then fails. Run `select_then_add`. The program uses no
  `HASH_SELECT`.
* **A long delay is not slept.** `set_trap` returns its 64-bit mean as an `int`
  (`shmlib.c:327`), which becomes the 32-bit argument of `usleep`: what is lost is a
  multiple of 2^32 microseconds (a mean between 2^31 and 2^32 is a negative `int` and
  comes back whole), so that the mean of ages of 72 minutes or more becomes some other
  sleep, or none. Such an age needs no clock that is set back: the scan past the
  log, above, takes the age of an entry that was dropped as stale. Three accesses
  show it: the first, another thread's long after it, which records the near miss
  under the first one's thread and site, and one more of the first thread there.
  Run `delay_truncated`.

## 6. What is proved

For all values of the constants that satisfy the named assumptions: any number
of threads, accesses, calls and rounds, any table sizes, any thread sets. The
assumptions are `ShmTypesAssumption`, `AccessLogAssumption`,
`TrapTableAssumption`, `ShmLibAssumption`, `ShmRacerAssumption`,
`WorkloadsAssumption`, `DelaysAssumption`, `ClockAssumption`, `SlotsAssumption`,
and `ContainersAssumption` of the modules that declare the constants: sizes are
natural numbers, accesses lie in the structure, the clock starts above the
threshold, thread sets are made of the routines and are no larger than the number
of threads, the call sites are sites, a word holds the difference of any two ages
(64 bits of microseconds are 584 thousand years), a raw slot is no element, a first
allocation is not empty, a ring has a slot, the array's elements can be compared and
so can those of the lists and the hash table, which are finitely many; `NULL` is no
element, no list and no index; hash values are natural numbers, and a table starts with
a bucket. `HashOf` is any function of the key, the worst ones included.

| theorem | says | argument |
|---|---|---|
| `OverlapCorrect` | the overlap test is true iff a byte is shared | arithmetic |
| `MeanStepBetween` | a step of the mean lies between mean and value | division lemmas |
| `ShmLibProofs!TypeCorrect` | `TypeOK` | `TypeInv` |
| `TrapsLive` | `TrapsAreLive` | inductive with `TypeInv` |
| `RacesReported` | `ConcurrentConflictsReported`, with enough slots | `DetectionInv` |
| `ReportsSound` | `ReportsAreRealRaces`, any number of slots | from `TrapsAreLive` |
| `MonitorImplemented` | `ImplementsMonitor`, with enough slots | from `DetectionInv`, step by step |
| `CaughtRacesForgotten` | `ReportedIsNoNearMiss` | inductive as it stands |
| `LogInOrder` | `LogChronological` | inductive with `TypeInv` |
| `DelaysBounded` | `DelayWithinNearMisses` | `MeanInv` |
| `ShmRacerProofs!TypeCorrect` | `TypeOK` | `TypeInv` |
| `CountNeverOver`, `CountExact` | `NeverOverCounted`, `ExactUntilTimeout` | `CountInv` |
| `ResetsAlone` | `ResetsAloneUntilTimeout` | `IdleInv`, from `CountInv` |
| `CancelReachesAll` | `TimeoutCancelsAll` | `SpawnedInv`, `ReportInv` |
| `WorkloadsProofs!TypeCorrect` | `TypeOK` | inductive as it stands |
| `LeaksOnlyByCancellation` | `OnlyCancellationLeaks` | `LeakInv` |
| `TrapsKept` | `CallsKeepTheirTraps` | `TrapsKeptInv`, from `LeakInv` |
| `SafeUnreported` | the first half of `OrderedNeverReported` | `ExclusiveInv`, from `LeakInv` |
| `StoreImplemented` | `ImplementsStore` | from `ExclusiveInv` and `HalfInv`, step by step |
| `SecondFollows` | `SecondAfterFirst`, for an ordered table | `SemaphoreInv` |
| `OrderedUnreported` | `OrderedNeverReported`, for an ordered table | `UnreportedInv`, from `SemaphoreInv` |
| `RacesLoseSome` | `RacesLoseNotAll` | `UpdatesInv` |
| `StaleIsOld` | `StaleUnlessRecent` | `MeansInv`, and arithmetic modulo a word |
| `MeansBetween` | `AverageBetween` | `MeansInv` |
| `SlotsAreExact` | `ArraySlotsExact` | `ArrayInv` |
| `ArrayIsVector` | `ArrayImplementsVector` | from `ArrayInv`, operation by operation |
| `StacksAreLastInFirstOut` | `StackLastInFirstOut` | `StackInv` |
| `StringIsTerminated` | `StringTerminated` | `StringInv` |
| `StringAppends` | `StringAppendsExactly` | from `StringInv`, operation by operation |
| `StringSearchesFind` | `StringFindsExactly` | `StringInv`, and a measure for each loop |
| `RingTypeCorrect` | `Ring!TypeOK` | `RingInv` |
| `RingIsDestroyedOnce` | `RingDestroyedOnce` | `RingInv` |
| `RingIsHistory` | `RingRemembersLast` | from `RingInv`, step by step |
| `ListsAgree` | `ListKindsAgree` | `ListInv` |
| `ListsAreOrders` | `ListImplementsOrder` | from `ListInv`, macro by macro |
| `ListWalksMeetAll` | `List!WalkMeetsAll` | `ListWalkInv` |
| `HashStaysSound` | `HashWellFormed` | `HashInv` |
| `HashIsMap` | `HashImplementsMap` | from `HashInv`, macro by macro |
| `HashWalksMeetAll` | `Hash!WalkMeetsAll` | `HashWalkInv` |
| `EachContainerIsUsed` | the client of any container is a client of each | step by step |
| `EveryWalkMeetsAll` | `WalksMeetAll` | the walks of each container, composed |
| `EveryContainerKeeps` | all the other properties of the run `containers` | the theorems of each, composed |

The strengthenings, and why they are needed:

* `TypeInv` of `ShmLib` adds to `TypeOK` that no cell of the array, left over or
  live, is younger than the clock (`LogTimes`: else the age of a near miss could
  be negative), that `shm_mutex` is held exactly by the thread in the first
  critical section (`MutexInv`), and that nothing is left to iterate outside it
  (`IterInv`: else another thread could delete a record under the iterator).
* `DetectionInv` adds `ParkedHaveTraps` (with enough slots `set_trap` always
  finds one: a counting argument over the slots) and `WindowReported`, which
  extends the property from two threads with traps to one with a trap and one
  anywhere after its check. Only the latter is preserved by `SetTrap`.
* `MeanInv` says of each thread in its average what the mean is made of; it
  rests on `AveragingAlone`: nobody changes the near misses meanwhile.
* `CountInv` of `ShmRacer` has the two statements about the count and that
  nothing is cancelled before the first timeout, so that the two ways of
  counting threads agree until then. `ReportInv` (a try is reported once, in
  order) makes "no timeout so far" a property that only goes from true to false.
* `SpawnedInv` says of every slot spawned so far that its thread was born, that
  the slot has its handle unless it is gone, and that the cancelling loop has
  left no thread behind it unasked.
* `LeakInv` of `Workloads` says why a lock is never just forgotten: its holder has
  an unlock ahead of it or was cancelled (`AccessMutexInv`, from the lemma
  `BodySteps`: what a body locks it unlocks), and who holds `shm_mutex` between
  two steps died in a report (`MutexInv`). `BirthInv` and `CallInv` say where the
  threads to come, and those in `shm_op`, are.
* `TrapsKeptInv` adds, until the first timeout, that every earlier try has ended
  (`InTimeInv`: else two threads share an index) and that traps and calls
  correspond one to one (`KeptInv`), so that a slot is free for the next call: a
  counting argument over the slots, as in `DetectionInv`.
* `ExclusiveInv` says of a program of `_safe` routines that who is between lock
  and unlock holds the lock (`ExclusionInv`) and that every trap is the holder's,
  in its call or dead of it (`HolderTrapsInv`): so nobody who accesses finds one.
* `HalfInv` says what a holder has half done, as a function of the accesses it
  has begun (`Begun`): the store without it is `before`, and an unlock comes when
  all of them are. A death leaves `before` for ever, as the lock stays held.
* `RingInv` adds to the ring's `TypeOK` and `DestroyedOnce` that the index is
  a slot of the ring (`IndexInv`: else a push would write past it). For the
  history, `RingSeen` is what a reader finds as a function of the fields, so that
  the same lemmas serve before and after a push: in a full ring every position
  moves to the slot its successor had, and the last is the slot just overwritten.
* `ProgressInv` of `Workloads` adds to `LeakInv` and `InTimeInv` that who ended
  without a fault has done all its steps (`GoneInv`); `SecondFollows`,
  `OrderedUnreported` and `RacesLoseSome` rest on it.
* `UpdatesInv` counts the writes of the try so far. `CntInv` says that the counter
  has not grown by more than those, and that a thread that has written `j` times
  wrote at least `j` more than there was when the try began. Hence the last
  write of whoever makes its last write last leaves at least a whole thread's
  increments, which is the lower bound of `RacesLoseNotAll`. `ParcelInv` is the
  same for the mailbox, with the upper bound alone.
* `SemaphoreInv` says that the semaphore is what was posted in this try and not
  yet taken. It holds while a second is still to come in a table that is
  `TableOrdered`: until the last set with a second, every set has one first and
  one second or none of either. `threadset_table` is of that kind, as it has
  `THREAD_SET_RMW_HB_FAKE`, which leaves a post behind, after the sets with a
  second; in a table with the two the other way round the property would fail,
  since `main` never resets the semaphore. `UnreportedInv` then needs only that
  the first's calls are over when the second's begin.
* `MeansInv` bounds what means are of: the ages that two times the clock can show
  have, with their sign, less than half a word, so that a difference modulo a word
  is read back as it was. Without `ClockAssumption` the invariant is false, and so
  is `AverageBetween`.
* `ArrayInv` is `ArraySlotsExact` of both arrays, and that the second holds none
  but values: what `inserta` copies. The loop of `utarray_reserve` doubles until it
  is enough, and `EnoughSuffices` proves that it gets there. `qsort` is the
  permutation that the ranks of the elements give: `Rank` is a bijection, by
  counting, and equal ranks would be equal elements.
* `StackInv` says that following the links from the head meets what was pushed, and
  that no element is in two places (`Apart`): only then does a push to one stack
  leave the links of the other alone. An element that was popped keeps a stale
  link, of which the invariant says nothing.
* `StringInv` is `StringTerminated` of both strings. The loop of
  `utstring_printf_va` retries with more room until the text fits; what it grows
  by, whatever `vsnprintf` reports, is positive, so it ends.

* The searches. A table of Knuth, Morris and Pratt says of each place the longest
  proper border of the needle up to it, and the invariant of the loop that builds it says
  that of every entry so far, and of the candidate that all longer borders were
  ruled out. That of a search says that the needle occurs nowhere before the
  text compared now, and that no longer part of it ends there. The loops never go back in the
  text, and a step that follows the table shortens the match: with the two as a
  measure they end. `_utstring_findR` is `_utstring_find` in a mirror, and is proved so.
* `ListInv` says that there is one assignment of sequences to the heads, without an
  element twice, that all three kinds hold: in an `LL` list the links follow the
  sequence to `NULL` (`Linked`), in a `DL` list the links back follow it too and the head's
  leads to the tail (`Backward`), in a `CDL` list the last link leads to the head
  (`Onward`). Of elements that are in no list it says nothing. `ListKindsAgree` cannot be
  inductive by itself: it says what walks meet, and a macro works on links.
* The sort. A pass merges neighbouring runs of a length; the invariant is that runs are
  in order by rank and, among equals, by their place in the list that is sorted (`Earlier`):
  then the passes end with one run in that order, and there is only one such sequence, which is
  `Sorted` of `OrderedLists` and `OrderedMap`. Without the second half the sort
  might not be stable, and the refinement would fail at ties.
* `ListWalkInv` adds to `ListInv` that what is ahead of a walk is the end of the list
  (`Remains`), and the element after the next is known before the body runs. It is the
  deletion of the element at hand that makes both necessary.
* `HashInv` says that the table holds a sequence of elements of different keys (`TableIs`):
  the list with its links both ways and its tail (`Listing`), and the chains
  (`Stored`), where each element is in the bucket of its hash, each bucket counts its chain,
  and the counts add up to `num_items` (`Summed`). An expansion takes all items in the order
  of the buckets and moves one at a time; the chains of what has moved so far, with `expand_mult`,
  are the invariant of that loop. `ineff_expands` and the links of elements outside are left open.
* `HashWalkInv` adds what a walk has met and what comes (`Coming`). Additions go to
  the end of the list and expansions do not touch it, so that they only lengthen what comes.

Induction over data. `ContainersProofs` takes it as a fact about sets of naturals
(`Induction`, from a least element): a predicate is the set of the naturals it is
true of. From it follow that a function defined by recursion along a measure
that grows or falls is defined, and what it yields (`LoopDefined`, `LoopEnds`,
`LoopStops`). All loops are proved with these: the doubling, the retries, the walks along
links, the tables and the searches, the passes of the sort, the expansion.

A correction by proof. `ChainsBounded` once said that, until expansion is inhibited, a
chain is no longer than `expand_mult + 1` times the threshold. The run agreed, but the
invariant would not go through, and the reason is in `uthash.h`: `HASH_EXPAND_BUCKETS`
counts `expand_mult` in multiples of `ideal_chain_maxlen` (`:854-858`),
`HASH_ADD_TO_BKT` in multiples of the threshold (`:776`). As long as the ideal length is
below the threshold, the statement holds. But 125 elements that fill 25 of 64 buckets
evenly give each of those the multiple 3; they then take 39 elements each and the others 9
before a bucket overflows, and the 1327th element makes the ideal length of 128 buckets 11,
with the threshold 10. A chain of 11 is then no longer than ideal and has the multiple 0.
The property now takes the larger of threshold and ideal length; no instance small enough
for TLC tells the two statements apart.

Model-checked only:

* liveness (`CallsReturn`, `MainLeaves`, `RoutinesEnd`), which is out of the proof
  system's reach.

Every other property of the passing runs has its theorem; `SecondAfterFirst` and
`OrderedNeverReported` have theirs for tables that are ordered as the program's is.
The runs for the findings of section 5 have none: what they check is false.

## 7. Not modelled, and the plan

Not modelled, and why:

* the text of keys and call sites, and where it is cut off (`shmlib.h:79`): a site
  is a value of its own;
* memory: allocation failures, the hash entries that are not freed
  (`shmlib.c:105` notes it), `uthash`'s roll-back of a failed allocation, which
  its default build leaves out; the overlap of the `memcpy` of
  `shmlib.c:64`, whose result is read in one cell only;
* `logged_count`, which nothing reads, and `print_access_log`, which nothing calls;
* `uthash`'s hash functions: 32-bit mixing of bytes, of which the table needs only
  that equal keys have equal values. `HashOf` is any function; the Bloom filter
  is off by default and only shortens failed lookups;
* `utlist`'s rewritings for compilers without `decltype`, which are meant to do the
  same; `utarray_find`, which is the C library's `bsearch`;
* sets of more than two threads in `Workloads`, and real durations there: a sleep
  ends whenever it likes, so that nothing rests on how long one is;
* `tiny_race.c`, two unsynchronized stores.

Done: `ShmTypes`, the three tables, `ShmLib`, `RaceMonitor`, `ShmRacer`,
`Workloads` with cancellation, `Delays`, the vendored containers; and the proofs
of section 6. To come:

1. walks over several hash tables with shared elements. A theorem about `HASH_SELECT`
   would have to leave out the additions after it, as section 5 says;
2. `uthash`'s roll-back of a failed allocation, for builds that have it.
