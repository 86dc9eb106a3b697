# A TLA+ model of SENryu's synchronization and file system journal

SENryu is a fork of the Haiku operating system.  This directory holds TLA+
modules for the parts of it whose correctness is hard to establish by testing:
the synchronization primitives of the kernel and of user space, on which
everything else is built, and the journal of the Be File System with the block
cache below it, which has to survive a crash at any moment.  They were written
from `src/system/kernel/` (`locks/lock.cpp`, `locks/user_mutex.cpp`,
`condition_variable.cpp`, `sem.cpp`, `thread.cpp`, `cache/block_cache.cpp`),
`headers/private/kernel/` (`lock.h`, `thread.h`), libroot (`os/locks/mutex.cpp`,
`posix/semaphore.cpp`, `posix/pthread/`) and
`src/add-ons/kernel/file_systems/bfs/` (`Journal.cpp`, `Volume.cpp`).
`PROJECT.json` maps each definition to the lines it stands for.

## Inventory

What the system consists of, the state each part keeps, and what makes it
correct.  Parts without a module are listed in `PROJECT.json` as well.

| Part | State | Operations | What is hard | Correct means |
|---|---|---|---|---|
| rw_lock (`locks/lock.cpp`) | `count`, `holder`, `owner_count`, `active_readers`, `pending_readers`, waiter list | read lock (also with timeout), read unlock, write lock/unlock, destroy | readers announce themselves by one atomic_add and get to the spinlock any time later; nesting; degrading; timeout against unblocker | readers exclude writers, the counters account for every thread, nobody sleeps for ever |
| mutex (`locks/lock.cpp`) | `holder` (KDEBUG) or `count` and a released flag (release), waiter list | lock, timed lock, trylock, unlock, transfer, switch, destroy | release build: the gap between atomic_add and spinlock; hand-over against timeout; switching to a mutex that may be destroyed | one owner, no lost wakeup, no use after destruction |
| condition variable (`condition_variable.cpp`) | entry list, `fEntriesCount`, `fLock`; entries on the waiters' stacks | Add, Wait, Notify, Publish, Unpublish | waiter and notifier remove the same entry without a common lock, and each may vanish under the other | no access to memory that is gone, no lost or stray wakeup, truthful status |
| thread blocking (`thread.h`, `thread.cpp`) | `thread->wait.status`, `thread->state` | prepare, block, unblock, timeout | the first unblocker wins | a block that is unblocked returns that status |
| recursive lock | a mutex or holder, recursion count | lock, trylock, unlock, switch | composes with mutex and rw_lock | one owner, balanced nesting |
| semaphores (`sem.cpp`) | count, queue, `net_count` | acquire, release, delete, switch | deletion and slot reuse against acquirers, partial release of counts | no count lost or invented |
| user mutexes (`user_mutex.cpp`, libroot) | a word in user memory, kernel entries | lock, unlock, sem acquire/release | the word is shared with user space | one owner, no lost wakeup |
| ports (`port.cpp`) | bounded message queue | write, read, peek, close, delete | capacity, deletion, interrupted waits | messages in order, none lost |
| BFS journal (`bfs/Journal.cpp`) | log area, superblock, log pointers, list of entries | start, done, abort, flush, replay | a crash between any two writes; the hook that frees log space runs in another thread without the journal's lock | a replayed volume is one of the committed states, and none that was logged is lost |
| block cache (`cache/block_cache.cpp`) | per block: current, original and parent contents, open and previous transaction; notifications | get writable, start/abort sub transaction, abort, end, sync, write back | an older version of a block is written while a newer one is being made | aborting undoes exactly the transaction; older contents go to the disk first |
| VFS, VM, scheduler, teams, signals, timers, SMP | large, hardware-near | - | - | - |
| SEN relations in Tracker | messages to the SEN server, menus | open, resolve, populate | asynchronous replies | - |
| applications, kits, servers, network, boot, build | - | - | - | - |

How the modelled parts interact: each primitive keeps its own list of waiters
under its own spinlock, prepares a thread to block under that spinlock, gives
the spinlock up and sleeps; the other side takes the thread off the list and
calls `thread_unblock()`.  The timer of a timed wait does the same to the
thread without knowing of the list, which is where most of the races are.  User
mutexes do not keep a list of their own: they use an rw_lock and a condition
variable per contended address, and share a word with user space.  The journal
calls the block cache under its own lock; the cache's notifier/writer thread
writes blocks back and calls the journal's hook without that lock.

## Modules

* `ThreadBlocking` - `thread->wait.status` and what
  `thread_prepare_to_block()`, `thread_unblock()` and the unblocking timer do to
  it.  Operators only; all primitives use it.
* `ReadersWriter` - abstract: read and write locks owned by threads, and
  the steps in which they may change hands.
* `RWLock` - the rw_lock.  `pc[t]` says where in the code a thread is:
  `read_slow` lies between the atomic_add of `rw_lock_read_lock()` and the
  spinlock of `_rw_lock_read_lock()`, `unread_slow` likewise for unlocking,
  `*_wait` is the sleep in `rw_lock_wait()`.  `rd`, `wr` are what threads own.
* `KernelMutex` - the mutex in both builds, selected by the constant `KDEBUG`.
  `MCKernelMutex` instantiates it for a mutex guarded by another one.
* `ConditionVariable` - one variable, its waiters and notifiers.  Every access
  that races is a step: the swap of `fThread`, the tests of `fVariable` and
  `fEntriesCount`, the status written under `scheduler_lock`.
* `Semaphore` - semaphores in a table of slots.  What is done under a slot's
  spinlock is one step; the two loops over a queue are recursive functions over
  its positions.  `call` has a thread's arguments, `balance` the units a
  semaphore should have.  `Total` is what threads have asked for together, as
  the size of the set of their units.
* `UserMutex` - the kernel's user mutex calls and their callers in user space.
  `word` and `sem` are the words in user memory, `table`, `ref_count` and
  `queue` the kernel's entries.  Each atomic on a word, each section of the
  table's lock and of an entry's rw_lock between two such atomics is a step.
  Who holds an entry's rw_lock follows from `pc`.
* `AtomicVolume` - abstract: a volume on which transactions become durable in
  order, and a crash loses only those that are not.
* `BlockCache` - the cached blocks and what the transaction calls do to them.
  Operators only, used by `BFSJournal`.
* `BFSJournal` - the journal, the threads that work on it, the disk, crashes and
  the replay.  `pc` is where the owner of the journal's lock is, `sync` where it
  is in `cache_sync_transaction()` or `block_cache_sync()`, `writer` what the
  two threads are writing, `hook` where `_TransactionWritten()` is.  `disk`,
  `log` and `superBlockOnDisk` survive a crash.
* `QueueLemmas` - lemmas about waiter lists and about loops that walk over them,
  used by the proofs.
* `KernelMutexProofs`, `KernelMutexReleaseProofs` - proofs about the mutex, in
  the KDEBUG build and in the release build.
* `RWLockProofs` - proofs about the rw_lock, including that it implements
  `ReadersWriter`.
* `ConditionVariableProofs`, `SemaphoreProofs`, `UserMutexProofs` - proofs about
  these.
* `BFSJournalProofs` - proofs about the journal, the block cache and the replay,
  including that they implement `AtomicVolume`.

Conventions.  A section under a spinlock is one step, because nothing but the
lock-free fast paths can see its middle; the header of `RWLock` says why those
commute with it.  `panic()`, an `ASSERT` that fails and a walk off the end of a
list lead to the label `panic`, from which the thread does not go on.  Threads
are free to call anything at any time except for what the code forbids its
callers: `MayRead` (a reader that is not the writer does not lock again, see
`ASSERT_UNLOCKED_RW_LOCK`), `MayAcquire` (no recursive mutex locking; a guarded
mutex is reached through its guard), and destruction only by a thread that has
the lock or when it is not in use.

Where one primitive is built on another, the lower one is taken by its
specification: an entry's rw_lock in `UserMutex` is readers against one writer
(`ReadersWriter`), its condition variable notifies a waiter or lets it leave
with its own status, never both (what the run `ConditionVariable` shows).

A block's contents are the number of the transaction that wrote it.  A write of
one block, or of the superblock, is one step and reaches the disk at once: the
model has no drive with a cache of its own.  `finished` (the volume after each
finished transaction) and `logged` (how many of them a completed log entry
covers) are history variables; the refinement maps them to `history` and
`durable` of `AtomicVolume`, and `volume` to `Recovered`, what `ReplayLog()`
would make of the disk as it is now.

`_WriteTransactionToLog()` may fail before it has changed the superblock: no
memory for the run arrays, the vectors or the `LogEntry`, or a block that cannot
be had from the cache (`LogFails`).  A client's `Done()` then returns the error
and the destructor of its `Transaction` aborts (`pc` is `failed` in between);
because `fHasSubtransaction` has been cleared, this drops all of the cache's
transaction, and with it the finished transactions since the last log entry.
`_FlushLog()` goes on, and leaves the transaction open.

There are two kinds of steps after which the journal does not keep its promise.
`LogBoundary` begins a log entry that fills the log or ends where the log ends
(finding 3).  `HookRace` is `_TransactionWritten()` of the only listed entry
between `LogEnd() =` and `fEntries.Add()` of the next (finding 4).  Both are
steps of `Spec`, no action has a guard against them, and a run of `Spec` shows
each of them fail.  To show what holds otherwise, `OrdinarySpec` has the
behaviours of `Spec` in which no such step occurs; everything said below about
crashes of BFS is said of `OrdinarySpec`.

## Runs

| Run | Instance | Shows |
|---|---|---|
| `RWLock` | 3 threads (one also with timeouts, one also destroys), nesting up to 2 | `MutualExclusion`, `ReaderAccounting`, `NoStrandedWaiter`, `AssertionsHold`, the refinement `ImplementsReadersWriter`, and `NoStarvation` hold |
| `RWLock_Timed` | 3 threads, no nesting | **violation** of `FailedWaiterIsQueued` (finding 1) |
| `KernelMutex` | KDEBUG, 3 threads, 1 mutex from `MUTEX_INITIALIZER`, 2 timed lockers, trylock, destruction | `MutualExclusion`, `NoStrandedWaiter`, `AssertionsHold`, `NoStarvation` hold |
| `KernelMutexRelease` | release build, 3 threads, a mutex and its guard, no timeouts | `TypeOK`, `MutualExclusion`, `NoStrandedWaiter`, `NoStarvation`, `CountAccounting` and `NoUseAfterDestroy` hold |
| `KernelMutexTimeout` | release build, 3 threads, 1 timed locker | **violation** of `MutualExclusion` (finding 2) |
| `ConditionVariable` | 2 waiters, 2 notifiers, one of which unpublishes | no access to a dead entry or variable, entries counted, no stray unblock, truthful status; `WatchingThreadWakes` and `SpinsEnd` |
| `BFSJournal` | `OrdinarySpec`; 2 blocks, a log of 7, arrays of 1 block, 3 transactions, 2 crashes | the refinement `ImplementsAtomicVolume`, `CacheCoherent`, `LogSpaceAfterSync`, `FlushedToDisk`, `JournalUnlocked` hold |
| `BFSJournalBoundary` | `Spec`; 2 blocks, a log of 4, 2 transactions | **violation** of `ReplayRecoversLogged` (finding 3) |
| `BFSJournalHookRace` | `Spec`; 2 blocks, a log of 7, 2 transactions | **violation** of `ReplayRecoversLogged` (finding 4) |
| `Semaphore` | 3 threads (2 with timeouts and signals, 1 switches), 2 slots, one reused | `NetCount`, `UnitsConserved`, `NoOrphanedWaiter`, `FailedAcquisitionWakes` hold |
| `SemaphoreWakeup` | 3 threads, 1 semaphore of 2 units, counts up to 3 | **violation** of `NoLostWakeup` (finding 5) |
| `UserMutex` | 3 threads (2 with timeouts and signals), 2 kernel entries, a mutex and a condition variable or a semaphore of up to 2 units | `UnitsConserved`, `NoForgottenWaiter`, `EntryInUse`, `SignalNotLost` hold |

Bounds.  Three threads are enough for every role at once: an owner, a thread
that waits or times out, and one that comes in between.  Two nested read or
write locks (`MaxNest`) are the least for which nesting and degrading differ
from plain locking.  Two notifiers are needed for one to find what the other
leaves behind, two waiters for `NotifyAll` to go on after the first.  The proofs
take over where the bounds end.

Of the journal, two blocks are the least for which half of a transaction can be
on the disk.  With arrays of one block (`MaxRuns` 2) a transaction of both has
two arrays, and a log of 7 wraps around in the middle of an entry, is filled so
that `cache_sync_transaction()` is needed, and has room for three one-block
entries: the oldest completed, the next not.  `MaxTransactionSize` 3 batches two
small transactions and logs a larger one at once.  Two crashes allow one during
the replay of the other.  Two transactions of one block are enough for the race
of the hook, in a log in which no entry reaches the end; in a log of 4, two
entries of one block reach it.  `LogHoldsVolume` keeps every transaction smaller
than the log, so that no sub transaction has to be detached.

Of semaphores, `MaxID` 2 with two slots lets one slot be used twice; counts of 1
and 2 are enough for a thread that waits for more than is there in front of one
that could go on.  `MaxCount` and `MaxUnits` bound releases in their guards.  Of
user mutexes, two entries are one fewer than there are addresses: an entry is
freed and its memory used for another address; a mutex and its condition
variable need both at once.

Deadlock.  The runs of locks switch TLC's deadlock check off, since a destroyed
lock legitimately stops everything; `NoStarvation` says what is expected
instead; `Semaphore` switches it off because everybody may wait for units that
nobody has.  `ConditionVariable`, `BFSJournal` and `UserMutex` are checked for
deadlock.

Fairness.  A thread that is ready runs in the end (weak fairness of its own
steps): what the scheduler promises.  A timeout expires.  A thread that spins
for a spinlock gets it although others hold it time and again (strong fairness;
sections are short and interrupts are off).  An owner gives back what it has in
the end (strong fairness of the unlocking calls): what clients owe each other.
No call that asks for a lock is fair.  In `BFSJournal` the owner of the
journal's lock, the notifier thread with what it has started, and a replay go on
when they can, and so does the destructor of a `Transaction` that failed (weak
fairness); nothing has to fail, and nobody has to start or finish a transaction, to
flush, or to begin writing blocks back.

## Findings

1. `_rw_lock_read_lock_with_timeout()` looks at `waiter.thread` without the
   spinlock and then walks the list to its own waiter with no other end.  If the
   unblocker dequeues it in between, the walk runs off the list.
   `_mutex_lock_with_timeout()` handles the same race.
2. In a release build a timed locker that gives up between an unlocker's
   atomic_add and its spinlock lets `_mutex_unlock()` mark a mutex as released
   that is free by `count` already: two threads may own it.
3. `_WriteTransactionToLog()` stores an unwrapped `log_end`.  If an entry ends
   exactly where the log area ends, it is `fLogSize`, which `ReplayLog()` never
   reaches because it wraps its own position: after a crash at that time the
   entries are replayed over and over, or the replay fails.
4. `_WriteTransactionToLog()` sets `LogEnd()` before it adds the entry to
   `fEntries`.  If `_TransactionWritten()` comes in between, for the only entry in
   the list, it takes the log for empty and sets `log_start` to the new
   `LogEnd()`: the entry that was just logged is not replayed after a crash,
   although its blocks are not on the disk.  The moment is short, but the two
   threads share no lock that spans it.
5. `release_sem_etc()` stops looking at the queue when its own count is used up.
   If units were left over from before, a thread that they would satisfy stays
   blocked, until the next release or the failure of another acquisition.

Two more things that the model shows are stated as what holds instead.
`_mutex_lock_with_timeout()` and `mutex_trylock()` call a mutex from
`MUTEX_INITIALIZER` uninitialized when they are the first to use it (`holder` 0),
which `_mutex_lock()` and a comment in `mutex_destroy()` take for normal:
`AssertionsHold` says that this is the only panic on a mutex that is not
destroyed.  If `_WriteTransactionToLog()` fails in `FlushLogAndBlocks()`, its
status is overwritten by that of `FlushDevice()` (`Journal.cpp:954`), so that the
call succeeds although the open transaction was neither logged nor written back:
`FlushedToDisk` is about flushes that leave no unwritten transaction.

## Proofs

`KernelMutexProofs` proves, for any numbers of threads and mutexes and with all
operations, that the KDEBUG mutex satisfies `TypeOK`, `MutualExclusion`,
`NoStrandedWaiter` and `AssertionsHold`.  Assumptions: `KernelMutexConstants` and
`KernelMutexCapacity` (fewer threads than `-INT16_MIN`); any of the mutexes may be
statically initialized.  The inductive invariant is `DebugInv`.  The properties alone are not inductive:
that an unlocker on its way is still the holder, and that a thread waiting for a
mutex is in its queue or was handed it, is known only from `LockInv` and
`ThreadInv`, which tie `holder`, `own`, the queue and the labels together.
There is one lemma per action; `LockFrame` carries over the mutexes a step
leaves alone.

`RWLockProofs` proves, for any number of threads and any nesting depth and with
all operations, that the rw_lock satisfies `TypeOK`, `MutualExclusion`,
`ReaderAccounting`, `NoStrandedWaiter` and `AssertionsHold`, and that it
implements `ReadersWriter`.  Assumptions: `RWLockConstants` and
`RWLockCapacity` (all read locks that can be asked for at once fit into the
`int16` counters, and so stay below `RW_LOCK_WRITER_COUNT_BASE` in `count`).
The inductive invariant `Inv` is `Types` and, until the lock is destroyed,
`AliveInv`; `DeadInv` after that.  `AliveInv` has five parts: `QueueInv` (who
sleeps in the list, once, and owns nothing), `ThreadInv` (what a thread owns
goes with where it is), `HolderInv` (the writer is alone, and `owner_count` is
the number of its locks), `Accounting` (the counters as cardinalities of sets of
threads and read locks) and `Served` (a queue without a writer in the lock has a
writer at its head, and readers it waits for).  Each property needs the others:
that the last reader may hand the lock to a writer rests on `active_readers`
being exact, this on nobody arriving unaccounted for in `pending_readers`, and
this on where each thread is.  There is one lemma per action; handing on the
lock, which read and write unlocking share, is `Unblocking` and `StepUnblock`.
The refinement maps `rd` and `wr` to themselves and follows from `Inv` and from
`MutualExclusion` after the step.

`KernelMutexReleaseProofs` proves of the release build, with all operations but
`mutex_lock_with_timeout()`, `TypeOK`, `MutualExclusion`, `NoStrandedWaiter`,
`CountAccounting` and `NoUseAfterDestroy`.  Assumptions: `KernelMutexConstants`,
`KernelMutexCapacity`, and the hypothesis `ReleaseBuild` (`~KDEBUG` and no timed
lockers): finding 2 shows that mutual exclusion fails with them.  The inductive
invariant `ReleaseInv` says where the mutex is.  `Keepers` are its owner and the
unlockers between their atomic_add and the spinlock; there is at most one, none
while `MUTEX_FLAG_RELEASED` is set, and `count` is negative exactly if there is
one or the flag is set.  `count` itself is minus the number of `Interested`
threads.  Without the first, an unlocker that finds an empty queue could not
know that the flag is clear; without the second, a fast path that reads 0 could
not know that nobody else has the mutex.  `ThreadInv` adds that a thread that is
about to lock a guarded mutex has the guard, and that a thread inside
`mutex_switch_lock()` has the spinlock of the mutex it goes to, which keeps
`mutex_destroy()` out.

`ConditionVariableProofs` proves, for any numbers of waiters, notifiers and
unpublishers, `TypeOK`, `EntryAccessIsSafe`, `VariableAccessIsSafe`,
`EntriesCounted`, `NoStrayUnblock` and `TruthfulStatus`.  Assumptions:
`ConditionVariableConstants`.  The inductive invariant `Inv` relates the two
sides of the removal of an entry, which share no lock.  `WaiterInv` says, for
each place a waiter can be in, whether its entry is listed, who has taken it,
and what `fThread`, `fVariable` and `fWaitStatus` are; `NotifierInv` says where
the waiter of the entry in a notifier's hands can be.  The swap of `fThread`
decides: whoever gets the thread goes on, the other one waits for `fVariable` to
be cleared or for `fEntriesCount` to go down.  That a waiter which spins may
still touch the variable needs `Unpublished`: it is gone only when no notifier
is inside and the list is empty.  `Counted` is `EntriesCounted` with at most one
notifier at work, which `Locks` provides.

`SemaphoreProofs` proves, for any numbers of threads and slots, any counts and
any bounds, `NetCount`, `UnitsConserved`, `NoOrphanedWaiter` and the action
property `FailedAcquisitionWakes`.  Assumptions: `SemaphoreConstants`.  The
inductive invariant `Inv` has what a slot is (`SlotInv`: in use, in the hands of
one deleter, or free, never two of these, with `next_id` telling old ids from
the current one), what a thread's id can be (`ThreadInv`: that of the slot's
semaphore or an older one), who is in a queue (`QueueInv`) and that everybody
blocked is (`BlockedInv`), and the two sums (`CountInv`, `UnitInv`).  That an id
in use is not an older one's needs `SlotInv` and `ThreadInv`; that a queue has
nobody of an older semaphore needs them too.  The loops of `release_sem_etc()`
and `remove_thread_from_sem()` are handled by an invariant of their turns,
`PassInv` and `Sums`: who has been removed and woken so far, and that the counts
and the units still to be handed out add up to what they were.  It is carried
over the turns by `CountUp` of `QueueLemmas`, the least-number principle for a
set of naturals.  `AfterPass` says what a loop has done in the end; waking and
leaving are lemmas that the actions share.

`UserMutexProofs` proves, for any numbers of threads and kernel entries and any
number of units, `TypeOK`, `EntryInUse`, `UnitsConserved`, `NoForgottenWaiter`
and the action property `SignalNotLost`.  Assumptions: `UserMutexConstants`
(finitely many threads, and `NULL` is not an entry).  The inductive invariant
`Inv` has what the label says of a call (`Local`), who is in an entry's queue
(`QueueInv`), that the table has the entry each reference is to and counts them
(`TableInv`), who is inside an entry's rw_lock and what it finds (`WriterInv`),
who has the mutex (`MutexInv`: an owner or a thread it was handed to, exactly
while the word says locked), the units (`SemInv`), and for everybody who waits or
is about to, that the word says so and somebody will unblock it (`WaitInv`).
`NoForgottenWaiter` is not inductive: a thread sets the word's waiting bit before
it adds itself to the queue, so that the promise has to begin there, and that no
unlocker clears the bit in between follows from `WriterInv`.  `SignalNotLost`
needs `SignalInv` besides, an invariant relative to `Inv`: while a thread signals
with the mutex held, nobody begins to wait, so those who wait are among those it
saw.

`BFSJournalProofs` proves, for any volume that the log can hold, any sizes of the
log, of its arrays and of a transaction, any number of transactions and crashes,
`TypeOK`, `CacheCoherent`, `LogSpaceAfterSync`, `ReplayRecoversLogged`, the action
property `FlushedToDisk`, and that the journal implements `AtomicVolume`, all of
`OrdinarySpec`: findings 3 and 4 show that of `Spec` the recovery is wrong, after
a `LogBoundary` or a `HookRace` step.  `OrdinaryBehaviours` proves that
`OrdinarySpec` is `Spec` with `[][Ordinary]_vars`, so that nothing else is left
out; failures to write the log are in it.  Assumptions: `BlockNumbers`,
`JournalConstants`, `LogHoldsVolume`.  The argument reads the log as a tape, a function from the distance
to `LogStart`:

* `Chain` says that up to `LogEnd` the tape holds run arrays, each followed by
  the blocks it names, and that no data block looks like an array.  `LogSays` is
  what the last block with the contents of b on a stretch of the tape says of b,
  and `Recovers` adds that a block the stretch does not name has that contents on
  the disk.  Lemmas about these carry the rest: a chain may be cut where an array
  begins (`ChainShift`, `SaysShift`, for `LogStart` moving on), extended by a log
  entry (`EntryAppended`, from the layout that `EntryBlock` computes), and
  replayed array by array (`ReplayTurn`, `RecoveredValue`).  `Recovered` is a
  recursive function; its turns are counted with `CountUp` of `QueueLemmas`.
* The inductive invariant `Inv` is `Types`, `Chain`, and `MountedInv` or, during
  a replay, `ReplayInv`.  The parts of `MountedInv` say where the lock's owner
  and its transaction are (`ControlInv`), what the cached blocks are to the disk,
  the last finished and the last logged transaction (`CacheInv`), what is being
  written (`WriterInv`) and waited for (`SyncInv`), which entries of the list
  still await blocks or their notification (`NotifyInv`), how the three sets of
  log pointers may differ while a thread is between two of its writes
  (`PointerInv`), that entries are in order and begin with an array
  (`EntriesInv`), the part of an entry written so far (`EntryInv`), and that the
  log says of each block what the last closed transaction made of it, and names
  each block that is not written back yet (`LogInv`).
* No property is inductive alone.  That a replay recovers what was logged needs
  `LogInv` for the blocks the log names and `CacheInv` for the others; that the
  hook may cut the log before an entry needs `NotifyInv`: the blocks still to be
  written belong to entries that stay.  `LogSpaceAfterSync` follows from `SyncInv`
  and `NotifyInv`: after the sync nothing is awaited or pending, so the list is
  empty and `LogStart` is `LogEnd`.  `ReplayInv` says that the disk has what the
  log says up to where the replay is, and that starting over would recover the
  same, which is why a crash during the replay does no harm.

There is one lemma per action; `RecoverNow` is the step from `Inv` to
`ReplayRecoversLogged`, and the refinement follows from that property before and
after each step: finishing a transaction is `Finish`, the write of the superblock
with the new `log_end`, by either thread, or a flush with nothing to log is
`Persist`, a crash or the abort of a transaction that could not be logged is
`Crash`, and nothing else changes what a mount would find.
TLC checked `Inv` on the instance of the run `BFSJournal` and on one with arrays
of two blocks before it was proved.

Only model-checked: everything about liveness (`NoStarvation`,
`WatchingThreadWakes`, `SpinsEnd`, `JournalUnlocked`); fairness and `ENABLED` are
out of TLAPS's reach.

## Plan

1. Recursive locks and `mutex_switch_from_read_lock()`: a composition of
   `KernelMutex` and `RWLock`.
2. Ports: capacity, deletion, interrupted waits.
3. Detached sub transactions of the block cache, and unmounting a volume.
4. SEN relations in Tracker.

## Not modelled

Within the modelled files: the `KDEBUG_RW_LOCK_DEBUG` list of locks per thread
(off by default), the debugger's dump commands, lock names and flags other than
`MUTEX_FLAG_RELEASED`, and the moment within `rw_lock_unblock()` at which
`waiter->thread` is reset after the thread was made ready.  The 16-bit
counters cannot overflow (`RWLockCapacity`): there are at most 4096 threads
(`sMaxThreads`, `thread.cpp:85`), and read locks are not nested.  Rules
for clients that the code does not check are guards of the model: no read lock within a read lock while a writer may wait, no destruction of a lock
that others still enter, no switching between two mutexes in both directions, a
condition variable that outlives its notifiers.

Semaphores: select events, owners and permissions, the informational calls.  A
thread with a pending signal that switches between two semaphores releases the
other one while it still holds the first one's spinlock (`sem.cpp:798`); if both
are in the same slot it deadlocks with itself, which the model leaves out.

User mutexes: `B_USER_MUTEX_DISABLED` (used by once-initialization and
barriers), the wiring of pages for shared mutexes, pthread rwlocks, named
semaphores, and owner and recursion count of pthread mutexes.  Threads that
signal a condition variable without holding the mutex are not considered: two of
them may both clear the condition's locked flag before either hands it off, and
then only one waiter is woken.

BFS and the block cache: detaching a sub transaction that outgrows the log,
`MoveLog()`, nested transactions of one thread, unmounting (the hook of a block
that the notifier thread is still writing may come after the journal was
deleted), errors of reads and writes and missing memory, except for what makes
`_WriteTransactionToLog()` return early, the drive's write cache, discarded and cleared blocks,
blocks outside of transactions, eviction, and what the file system stores in the
blocks.

The other parts of the table above have no module yet; VM, scheduler,
drivers, network, servers and applications are not planned: their state is too
large for a small instance, or they depend on hardware.
