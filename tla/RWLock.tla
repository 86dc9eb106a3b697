------------------------------- MODULE RWLock -------------------------------
(***************************************************************************)
(* The kernel's rw_lock (src/system/kernel/locks/lock.cpp, with the inline *)
(* fast paths of headers/private/kernel/lock.h), default build: KDEBUG on, *)
(* KDEBUG_RW_LOCK_DEBUG off.                                               *)
(*                                                                         *)
(* A reader announces itself with one atomic_add on `count` outside of any *)
(* lock and has the lock if no writer claimed it; otherwise it goes on to  *)
(* a slow path under lock->lock.  Writers work under lock->lock only and   *)
(* add RW_LOCK_WRITER_COUNT_BASE.  What lies between the atomic_add and    *)
(* the spinlock is where the algorithm is delicate, so these are separate  *)
(* steps here.  A section under the spinlock is one step: besides it only  *)
(* the fast paths touch the lock, they only add or subtract 1 from count,  *)
(* and never move it across RW_LOCK_WRITER_COUNT_BASE (RWLockCapacity), so *)
(* they commute with the rest of a section once its atomic_add is done.    *)
(*                                                                         *)
(* rd[t] and wr[t] are what thread t may believe to own: the lock is its   *)
(* own from the moment its unblocker dequeues it.                          *)
(***************************************************************************)
EXTENDS Integers, SequencesExt, ThreadBlocking

CONSTANTS
  Threads,       \* the threads that use the lock
  TimedReaders,  \* those that call rw_lock_read_lock_with_timeout()
  Destroyers,    \* those that may call rw_lock_destroy()
  MaxNest,       \* bound on the read locks, and on the write locks, of a thread
  NoThread       \* holder = -1

RW_LOCK_WRITER_COUNT_BASE == 65536
B_INT16_MAX == 32767     \* active_readers, pending_readers are int16

ASSUME RWLockConstants ==
  /\ TimedReaders \subseteq Threads
  /\ Destroyers \subseteq Threads
  /\ NoThread \notin Threads
  /\ MaxNest \in Nat \ {0}

(* The lock has room for every reader and writer: neither count (int32)    *)
(* nor the int16 counters overflow.                                        *)
ASSUME RWLockCapacity ==
  /\ IsFiniteSet(Threads)
  /\ Cardinality(Threads) * (MaxNest + 1) <= B_INT16_MAX

VARIABLES
  count, holder, owner_count, active_readers, pending_readers,
  waiters,        \* the rw_lock_waiter list, by thread
  waiter_thread,  \* waiter_thread[t]: t's rw_lock_waiter::thread is not NULL
  wait,           \* thread->wait.status (module ThreadBlocking)
  pc,             \* where thread t is in the lock's code
  destroyed,      \* rw_lock_destroy() ran
  rd, wr          \* read and write locks each thread owns

lockVars == <<count, holder, owner_count, active_readers, pending_readers>>
vars == <<count, holder, owner_count, active_readers, pending_readers,
          waiters, waiter_thread, wait, pc, destroyed, rd, wr>>

Goto(t, label) == pc' = [pc EXCEPT ![t] = label]

ReadWaiting == {"read_wait", "timed_wait", "timed_dequeue"}
Labels == ReadWaiting \cup {"idle", "read_slow", "timed_slow", "unread_slow",
                            "write_wait", "panic"}

(* rw_lock_waiter::writer of a queued thread *)
IsWriter(t) == pc[t] = "write_wait"

(* rw_lock_init() *)
Init ==
  /\ count = 0 /\ owner_count = 0 /\ active_readers = 0 /\ pending_readers = 0
  /\ holder = NoThread
  /\ waiters = <<>>
  /\ waiter_thread = [t \in Threads |-> FALSE]
  /\ wait = [t \in Threads |-> B_OK]
  /\ pc = [t \in Threads |-> "idle"]
  /\ destroyed = FALSE
  /\ rd = [t \in Threads |-> 0]
  /\ wr = [t \in Threads |-> 0]

-----------------------------------------------------------------------------
(* The enqueueing half of rw_lock_wait(), which                            *)
(* _rw_lock_read_lock_with_timeout() repeats.                              *)
rw_lock_wait(t, label) ==
  /\ waiters' = Append(waiters, t)
  /\ waiter_thread' = [waiter_thread EXCEPT ![t] = TRUE]
  /\ wait' = thread_prepare_to_block(wait, t)
  /\ Goto(t, label)

(* Mutants: the writer overlooks the readers still on their way, or the    *)
(* readers that are in.                                                    *)
WriterMustWait_IgnoresPending(ar, pr) == ar > 0
WriterMustWait_IgnoresActive(ar, pr) == pr > 0

(* A waiting writer has to stay asleep while others read. *)
WriterMustWait(ar, pr) == ar > 0 \/ pr > 0

(* rw_lock_unblock() takes the first n waiters off the queue when it finds *)
(* lock->holder, active_readers and pending_readers to be h, ar and pr: a  *)
(* writer at the head unless others read, or all readers up to a writer.   *)
Unblocks(n, h, ar, pr) ==
  IF waiters = <<>> \/ h # NoThread THEN n = 0
  ELSE IF IsWriter(Head(waiters))
       THEN n = IF WriterMustWait(ar, pr) THEN 0 ELSE 1
       ELSE /\ \A i \in 1 .. n : ~IsWriter(waiters[i])
            /\ n < Len(waiters) => IsWriter(waiters[n + 1])

(* active_readers after n readers were unblocked while count was c *)
ActiveWith(ar, n, c) ==
  IF c >= RW_LOCK_WRITER_COUNT_BASE THEN ar + n ELSE ar

(* The first n waiters *)
FirstWaiters(n) == {waiters[i] : i \in 1 .. n}

(* rw_lock_unblock(), called by thread t.  The n threads it takes off the  *)
(* queue own the lock from here on.                                        *)
rw_lock_unblock(t, n, h, ar, pr, c) ==
  LET woken == FirstWaiters(n) IN
  /\ Unblocks(n, h, ar, pr)
  /\ waiters' = SubSeq(waiters, n + 1, Len(waiters))
  /\ wait' = thread_unblock(wait, woken, B_OK)
  /\ waiter_thread' = [u \in Threads |-> u \notin woken /\ waiter_thread[u]]
  /\ \/ \E u \in woken :
          /\ IsWriter(u)
          /\ holder' = u
          /\ active_readers' = ar
          /\ wr' = [wr EXCEPT ![t] = 0, ![u] = 1]
          /\ UNCHANGED rd
     \/ /\ \A u \in woken : ~IsWriter(u)
        /\ holder' = h
        /\ active_readers' = ActiveWith(ar, n, c)
        /\ wr' = [wr EXCEPT ![t] = 0]
        /\ rd' = [u \in Threads |-> IF u \in woken THEN rd[u] + 1 ELSE rd[u]]

-----------------------------------------------------------------------------
(* Reading *)

(* What lock.cpp asks of its clients (ASSERT_UNLOCKED_RW_LOCK): a thread   *)
(* that reads without being the writer does not ask for the lock again.    *)
MayRead(t) ==
  /\ ~destroyed
  /\ pc[t] = "idle"
  /\ rd[t] < MaxNest
  /\ rd[t] = 0 \/ wr[t] > 0

(* The inline rw_lock_read_lock[_with_timeout](): one atomic_add.          *)
ReadLock(t, slow) ==
  /\ MayRead(t)
  /\ count' = count + 1
  /\ IF count >= RW_LOCK_WRITER_COUNT_BASE
     THEN Goto(t, slow) /\ UNCHANGED rd
     ELSE rd' = [rd EXCEPT ![t] = @ + 1] /\ UNCHANGED pc
  /\ UNCHANGED <<holder, owner_count, active_readers, pending_readers, waiters,
                 waiter_thread, wait, destroyed, wr>>

rw_lock_read_lock(t) == ReadLock(t, "read_slow")

rw_lock_read_lock_with_timeout(t) ==
  t \in TimedReaders /\ ReadLock(t, "timed_slow")

(* Mutant: a pending reader that comes in is not counted as active. *)
ActiveAfterPending_NotCounted == active_readers

(* active_readers after a reader took one of the pending places *)
ActiveAfterPending ==
  IF count >= RW_LOCK_WRITER_COUNT_BASE THEN active_readers + 1
                                        ELSE active_readers

(* The section under the spinlock of _rw_lock_read_lock() and              *)
(* _rw_lock_read_lock_with_timeout(), up to the point where they block.    *)
ReadLockSlow(t, slow, waiting) ==
  /\ pc[t] = slow
  /\ \/ /\ holder = t
        /\ owner_count' = owner_count + 1
        /\ rd' = [rd EXCEPT ![t] = @ + 1]
        /\ Goto(t, "idle")
        /\ UNCHANGED <<active_readers, pending_readers, waiters, waiter_thread,
                       wait>>
     \/ /\ holder # t
        /\ pending_readers > 0
        /\ pending_readers' = pending_readers - 1
        /\ active_readers' = ActiveAfterPending
        /\ rd' = [rd EXCEPT ![t] = @ + 1]
        /\ Goto(t, "idle")
        /\ UNCHANGED <<owner_count, waiters, waiter_thread, wait>>
     \/ /\ holder # t
        /\ pending_readers = 0
        /\ rw_lock_wait(t, waiting)
        /\ UNCHANGED <<owner_count, active_readers, pending_readers, rd>>
  /\ UNCHANGED <<count, holder, destroyed, wr>>

_rw_lock_read_lock(t) == ReadLockSlow(t, "read_slow", "read_wait")

_rw_lock_read_lock_with_timeout(t) == ReadLockSlow(t, "timed_slow", "timed_wait")

(* The end of rw_lock_wait() and of _rw_lock_read_lock(): thread_block()   *)
(* returned, with B_OK or, from rw_lock_destroy(), with B_ERROR.           *)
ReadWaitReturn(t) ==
  /\ pc[t] = "read_wait"
  /\ ~thread_is_blocked(wait, t)
  /\ Goto(t, "idle")
  /\ UNCHANGED <<lockVars, waiters, waiter_thread, wait, destroyed, rd, wr>>

(* The timer of thread_block_with_timeout() fires. *)
Timeout(t) ==
  /\ pc[t] = "timed_wait"
  /\ thread_is_blocked(wait, t)
  /\ wait' = thread_block_timeout(wait, t)
  /\ UNCHANGED <<lockVars, waiters, waiter_thread, pc, destroyed, rd, wr>>

(* thread_block_with_timeout() returned; the test that follows is made     *)
(* without the spinlock.                                                   *)
TimedReturn(t) ==
  /\ pc[t] = "timed_wait"
  /\ ~thread_is_blocked(wait, t)
  /\ IF wait[t] = B_OK \/ ~waiter_thread[t]
     THEN Goto(t, "idle")
     ELSE Goto(t, "timed_dequeue")
  /\ UNCHANGED <<lockVars, waiters, waiter_thread, wait, destroyed, rd, wr>>

(* "We failed to get the lock -- dequeue from waiter list": the walk over  *)
(* the list ends at our own waiter and knows no other end.                 *)
Dequeue(t) ==
  \/ /\ \E i \in DOMAIN waiters :
          /\ waiters[i] = t
          /\ waiters' = RemoveAt(waiters, i)
     /\ count' = count - 1
     /\ Goto(t, "idle")
  \/ /\ t \notin Range(waiters)
     /\ Goto(t, "panic")
     /\ UNCHANGED <<waiters, count>>

TimedDequeue(t) ==
  /\ pc[t] = "timed_dequeue"
  /\ Dequeue(t)
  /\ UNCHANGED <<holder, owner_count, active_readers, pending_readers,
                 waiter_thread, wait, destroyed, rd, wr>>

(* The inline rw_lock_read_unlock(): one atomic_add.                       *)
rw_lock_read_unlock(t) ==
  /\ ~destroyed
  /\ pc[t] = "idle"
  /\ rd[t] > 0
  /\ count' = count - 1
  /\ rd' = [rd EXCEPT ![t] = @ - 1]
  /\ IF count >= RW_LOCK_WRITER_COUNT_BASE
     THEN Goto(t, "unread_slow")
     ELSE UNCHANGED pc
  /\ UNCHANGED <<holder, owner_count, active_readers, pending_readers, waiters,
                 waiter_thread, wait, destroyed, wr>>

(* _rw_lock_read_unlock().  Where it finds no reader to count down it      *)
(* panics, with active_readers = 0.                                        *)
_rw_lock_read_unlock(t) ==
  /\ pc[t] = "unread_slow"
  /\ \/ /\ holder = t
        /\ owner_count' = owner_count - 1
        /\ Goto(t, "idle")
        /\ UNCHANGED <<holder, active_readers, waiters, waiter_thread, wait,
                       rd, wr>>
     \/ /\ holder # t
        /\ active_readers # 1
        /\ IF active_readers > 1
           THEN active_readers' = active_readers - 1 /\ Goto(t, "idle")
           ELSE active_readers' = 0 /\ Goto(t, "panic")
        /\ UNCHANGED <<holder, owner_count, waiters, waiter_thread, wait, rd,
                       wr>>
     \/ /\ holder # t
        /\ active_readers = 1
        /\ \E n \in 0 .. Len(waiters) :
             rw_lock_unblock(t, n, holder, 0, pending_readers, count)
        /\ Goto(t, "idle")
        /\ UNCHANGED owner_count
  /\ UNCHANGED <<count, pending_readers, destroyed>>

-----------------------------------------------------------------------------
(* Writing *)

(* Mutant: every writer, not only the first, notes the reader count. *)
ReadersSeen_EveryWriter == count - pending_readers

(* active_readers when the first writer starts to wait *)
ReadersSeen ==
  IF count < RW_LOCK_WRITER_COUNT_BASE THEN count - pending_readers
                                       ELSE active_readers

rw_lock_write_lock(t) ==
  /\ ~destroyed
  /\ pc[t] = "idle"
  /\ wr[t] < MaxNest
  /\ rd[t] = 0 \/ wr[t] > 0
  /\ \/ /\ holder = t
        /\ owner_count' = owner_count + RW_LOCK_WRITER_COUNT_BASE
        /\ wr' = [wr EXCEPT ![t] = @ + 1]
        /\ UNCHANGED <<count, holder, active_readers, waiters, waiter_thread,
                       wait, pc>>
     \/ /\ holder # t
        /\ count = 0
        /\ count' = RW_LOCK_WRITER_COUNT_BASE
        /\ holder' = t
        /\ owner_count' = RW_LOCK_WRITER_COUNT_BASE
        /\ wr' = [wr EXCEPT ![t] = 1]
        /\ UNCHANGED <<active_readers, waiters, waiter_thread, wait, pc>>
     \/ /\ holder # t
        /\ count # 0
        /\ count' = count + RW_LOCK_WRITER_COUNT_BASE
        /\ active_readers' = ReadersSeen
        /\ rw_lock_wait(t, "write_wait")
        /\ UNCHANGED <<holder, owner_count, wr>>
  /\ UNCHANGED <<pending_readers, destroyed, rd>>

(* The end of rw_lock_wait() and of rw_lock_write_lock(). *)
WriteWaitReturn(t) ==
  /\ pc[t] = "write_wait"
  /\ ~thread_is_blocked(wait, t)
  /\ IF wait[t] = B_OK
     THEN holder' = t /\ owner_count' = RW_LOCK_WRITER_COUNT_BASE
     ELSE UNCHANGED <<holder, owner_count>>
  /\ Goto(t, "idle")
  /\ UNCHANGED <<count, active_readers, pending_readers, waiters,
                 waiter_thread, wait, destroyed, rd, wr>>

(* Mutants: the writer's own read locks are taken for pending readers, and *)
(* pending readers are not noted at all.                                   *)
PendingAfterUnlock_KeepsOwnReads(old, readerCount, unblocked) ==
  old - unblocked
PendingAfterUnlock_None(old, readerCount, unblocked) == 0

(* "the number of readers that are still expected to enter the critical    *)
(* section", when the last writer leaves                                   *)
PendingAfterUnlock(old, readerCount, unblocked) ==
  old - readerCount - unblocked

(* _rw_lock_write_unlock() by the holder: a nested one, the last one with  *)
(* nobody else about, with writers waiting, or with readers only.          *)
GiveUpWrite(t) ==
  LET left == owner_count - RW_LOCK_WRITER_COUNT_BASE
      old  == count - RW_LOCK_WRITER_COUNT_BASE
  IN
  \/ /\ left >= RW_LOCK_WRITER_COUNT_BASE
     /\ owner_count' = left
     /\ wr' = [wr EXCEPT ![t] = @ - 1]
     /\ UNCHANGED <<count, holder, active_readers, pending_readers, waiters,
                    waiter_thread, wait, rd>>
  \/ /\ left < RW_LOCK_WRITER_COUNT_BASE
     /\ old = 0
     /\ owner_count' = 0 /\ holder' = NoThread /\ count' = 0
     /\ wr' = [wr EXCEPT ![t] = 0]
     /\ UNCHANGED <<active_readers, pending_readers, waiters, waiter_thread,
                    wait, rd>>
  \/ /\ left < RW_LOCK_WRITER_COUNT_BASE
     /\ old >= RW_LOCK_WRITER_COUNT_BASE
     /\ owner_count' = 0 /\ count' = old
     /\ \E n \in 0 .. Len(waiters) :
          rw_lock_unblock(t, n, NoThread, left, pending_readers, old)
     /\ UNCHANGED pending_readers
  \/ /\ left < RW_LOCK_WRITER_COUNT_BASE
     /\ old # 0 /\ old < RW_LOCK_WRITER_COUNT_BASE
     /\ owner_count' = 0 /\ count' = old
     /\ \E n \in 0 .. Len(waiters) :
          /\ rw_lock_unblock(t, n, NoThread, active_readers, pending_readers,
                             old)
          /\ pending_readers' = PendingAfterUnlock(old, left, n)

_rw_lock_write_unlock(t) ==
  /\ ~destroyed
  /\ pc[t] = "idle"
  /\ wr[t] > 0
  /\ IF holder = t
     THEN GiveUpWrite(t) /\ UNCHANGED pc
     ELSE /\ Goto(t, "panic")
          /\ UNCHANGED <<lockVars, waiters, waiter_thread, wait, rd, wr>>
  /\ UNCHANGED destroyed

-----------------------------------------------------------------------------
(* rw_lock_destroy(), by the writer or while the lock is not in use.  The  *)
(* waiters get B_ERROR; waiter->thread is not reset.                       *)
rw_lock_destroy(t) ==
  /\ t \in Destroyers
  /\ ~destroyed
  /\ pc[t] = "idle"
  /\ holder = t \/ (count = 0 /\ waiters = <<>>)
  /\ destroyed' = TRUE
  /\ waiters' = <<>>
  /\ wait' = thread_unblock(wait, Range(waiters), B_ERROR)
  /\ rd' = [rd EXCEPT ![t] = 0]
  /\ wr' = [wr EXCEPT ![t] = 0]
  /\ UNCHANGED <<lockVars, waiter_thread, pc>>

Step(t) ==
  \/ rw_lock_read_lock(t) \/ rw_lock_read_lock_with_timeout(t)
  \/ _rw_lock_read_lock(t) \/ _rw_lock_read_lock_with_timeout(t)
  \/ ReadWaitReturn(t)
  \/ Timeout(t) \/ TimedReturn(t) \/ TimedDequeue(t)
  \/ rw_lock_read_unlock(t) \/ _rw_lock_read_unlock(t)
  \/ rw_lock_write_lock(t) \/ WriteWaitReturn(t) \/ _rw_lock_write_unlock(t)
  \/ rw_lock_destroy(t)

Next == \E t \in Threads : Step(t)

Spec == Init /\ [][Next]_vars

(* The kernel goes on running a thread that is ready (weak fairness of the *)
(* lock's own steps), a timeout expires in the end, and who owns the lock  *)
(* gives all of it back in the end, even if it nests read and write locks  *)
(* meanwhile (strong fairness of the unlocking calls, the last included).  *)
Fairness ==
  \A t \in Threads :
    /\ WF_vars(_rw_lock_read_lock(t) \/ _rw_lock_read_lock_with_timeout(t))
    /\ WF_vars(_rw_lock_read_unlock(t))
    /\ WF_vars(ReadWaitReturn(t) \/ WriteWaitReturn(t))
    /\ WF_vars(Timeout(t) \/ TimedReturn(t) \/ TimedDequeue(t))
    /\ SF_vars(rw_lock_read_unlock(t))
    /\ SF_vars(_rw_lock_write_unlock(t))
    /\ SF_vars(_rw_lock_write_unlock(t) /\ wr'[t] = 0)

FairSpec == Spec /\ Fairness

-----------------------------------------------------------------------------
(* Properties *)

(* Where each variable ranges; the int16 counters stay within their type.  *)
TypeOK ==
  /\ count \in Int /\ owner_count \in Int
  /\ active_readers \in 0 .. B_INT16_MAX
  /\ pending_readers \in 0 .. B_INT16_MAX
  /\ holder \in Threads \cup {NoThread}
  /\ waiters \in Seq(Threads)
  /\ waiter_thread \in [Threads -> BOOLEAN]
  /\ wait \in [Threads -> WaitStatus]
  /\ pc \in [Threads -> Labels]
  /\ destroyed \in BOOLEAN
  /\ rd \in [Threads -> Nat] /\ wr \in [Threads -> Nat]

(* Nobody reads or writes beside a writer, counting a thread as reader or  *)
(* writer from the moment rw_lock_unblock() dequeues it until it calls     *)
(* rw_lock_read_unlock() or gives up its last write lock.                  *)
MutualExclusion ==
  \A t, u \in Threads : wr[t] > 0 /\ u # t => wr[u] = 0 /\ rd[u] = 0

(* Readers between their atomic_add and the spinlock, and readers that     *)
(* left through the atomic_add and did not reach the spinlock yet.         *)
Arriving == {t \in Threads : pc[t] \in {"read_slow", "timed_slow"}}
Leaving == {t \in Threads : pc[t] = "unread_slow"}

Queued == Range(waiters)
QueuedReaders == {t \in Queued : ~IsWriter(t)}

(* The writer and the waiting writers: those that added                    *)
(* RW_LOCK_WRITER_COUNT_BASE to count.                                     *)
Claiming == {t \in Threads : holder = t \/ (t \in Queued /\ IsWriter(t))}

(* One element per read lock that some thread owns *)
ReadLocks == {p \in Threads \X (1 .. MaxNest) : p[2] <= rd[p[1]]}

(* The four numbers of the lock account for every thread: count for those  *)
(* who own, want or waited for it; active_readers, while writers wait, for *)
(* the readers they wait for; pending_readers, when no writer is left, for *)
(* exactly the readers still on their way to the spinlock, and never for   *)
(* more than those (lock.h on the two fields; the comments on              *)
(* pending_readers in _rw_lock_read_lock() and _rw_lock_write_unlock()).   *)
ReaderAccounting ==
  ~destroyed =>
    /\ count = RW_LOCK_WRITER_COUNT_BASE * Cardinality(Claiming)
                + Cardinality(ReadLocks) + Cardinality(Arriving)
                + Cardinality(QueuedReaders)
    /\ holder # NoThread => active_readers = 0 /\ pending_readers = 0
    /\ holder = NoThread /\ Claiming # {} =>
         /\ active_readers = Cardinality(ReadLocks) + Cardinality(Leaving)
         /\ pending_readers \in 0 .. Cardinality(Arriving)
    /\ Claiming = {} =>
         active_readers = 0 /\ pending_readers = Cardinality(Arriving)

(* No wakeup is lost: threads queue up only behind a writer, or behind a   *)
(* writer that in turn waits for a reader which has the lock, or is about  *)
(* to have it, and will wake that writer when it leaves.                   *)
NoStrandedWaiter ==
  ~destroyed /\ waiters # <<>> /\ holder = NoThread =>
    /\ IsWriter(Head(waiters))
    /\ active_readers > 0 \/ pending_readers > 0

(* The assertions and panics of lock.cpp: before a reader starts to wait   *)
(* a writer has claimed the lock; a thread woken with B_OK was dequeued;   *)
(* the writer that drops a read lock has one; a leaving reader finds       *)
(* itself counted; who gives up a write lock is the holder.                *)
AssertionsHold ==
  ~destroyed => \A t \in Threads :
    /\ t \in Arriving /\ holder # t /\ pending_readers = 0
         => count >= RW_LOCK_WRITER_COUNT_BASE
    /\ pc[t] \in {"read_wait", "write_wait"} /\ wait[t] = B_OK
         => ~waiter_thread[t]
    /\ t \in Leaving /\ holder = t
         => owner_count % RW_LOCK_WRITER_COUNT_BASE > 0
    /\ t \in Leaving /\ holder # t => active_readers > 0
    /\ pc[t] = "idle" /\ wr[t] > 0
         => holder = t /\ owner_count >= RW_LOCK_WRITER_COUNT_BASE

(* The lock implements its abstract specification. *)
Abstract == INSTANCE ReadersWriter
ImplementsReadersWriter == Abstract!Spec

(* Whoever asked for the lock gets an answer: neither do new readers       *)
(* starve a waiting writer (they queue up behind it), nor writers a        *)
(* reader, unless the lock is destroyed or the kernel has panicked.        *)
NoStarvation ==
  \A t \in Threads :
    pc[t] # "idle" ~> \/ pc[t] = "idle"
                      \/ destroyed
                      \/ \E u \in Threads : pc[u] = "panic"

(* The comments of _rw_lock_read_lock_with_timeout(): a thread that was    *)
(* dequeued by its unblocker "after we already failed" has the lock; one   *)
(* that goes on to dequeue itself is still in the list, whose walk has no  *)
(* other end.                                                              *)
FailedWaiterIsQueued ==
  \A t \in Threads : pc[t] = "timed_dequeue" => t \in Queued

=============================================================================
