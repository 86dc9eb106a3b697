---------------------------- MODULE KernelMutex ----------------------------
(***************************************************************************)
(* The kernel's mutexes (src/system/kernel/locks/lock.cpp and the inline   *)
(* functions of headers/private/kernel/lock.h), in both builds:            *)
(*                                                                         *)
(*   KDEBUG = TRUE   (the default) everything happens under lock->lock and *)
(*                   lock->holder says who has the mutex;                  *)
(*   KDEBUG = FALSE  (release builds) lock and unlock are one atomic_add   *)
(*                   on lock->count, and only contention leads to the      *)
(*                   section under lock->lock.                             *)
(*                                                                         *)
(* A call is a step, and so is each section under the spinlock that        *)
(* follows.  mutex_switch_lock() holds one mutex's spinlock while it       *)
(* unlocks another mutex, so spinlocks held across steps are in `spin`.    *)
(*                                                                         *)
(* own[l] is the set of threads that may believe to own l: from the return *)
(* of the call, or the moment the unlocker dequeues the thread, until it   *)
(* unlocks.                                                                *)
(***************************************************************************)
EXTENDS Integers, SequencesExt, ThreadBlocking

CONSTANTS
  Threads,
  Locks,
  KDEBUG,
  GuardedBy,     \* <<l, g>>: clients reach l only while they own g
  StaticLocks,   \* locks from MUTEX_INITIALIZER: holder = 0
  TimedLockers,  \* threads that call mutex_lock_with_timeout()
  TryLockers,    \* threads that call mutex_trylock()
  Destroyers,    \* threads that may call mutex_destroy()
  NoThread, ZeroThread, DeadThread    \* holder = -1, 0, INT16_MIN

INT16_MIN == -32768

ASSUME KernelMutexConstants ==
  /\ KDEBUG \in BOOLEAN
  /\ Locks # {}
  /\ GuardedBy \subseteq Locks \X Locks
  /\ StaticLocks \subseteq Locks
  /\ TimedLockers \cup TryLockers \cup Destroyers \subseteq Threads
  /\ {NoThread, ZeroThread, DeadThread} \cap Threads = {}
  /\ NoThread # ZeroThread /\ NoThread # DeadThread /\ ZeroThread # DeadThread

(* count (int32) has room for every thread, and INT16_MIN means destroyed. *)
ASSUME KernelMutexCapacity ==
  IsFiniteSet(Threads) /\ Cardinality(Threads) < -INT16_MIN

VARIABLES
  holder,         \* lock->holder, KDEBUG only
  count,          \* lock->count, release only
  released,       \* MUTEX_FLAG_RELEASED in lock->flags, release only
  waiters,        \* the mutex_waiter list of each lock, by thread
  waiter_thread,  \* waiter_thread[t]: t's mutex_waiter::thread is not NULL
  wait,           \* thread->wait.status
  spin,           \* who keeps lock->lock across steps
  destroyed,
  pc,             \* where thread t is in lock.cpp
  at, from,       \* the mutex t works on; mutex_switch_lock()'s "from"
  own

mutexVars == <<holder, count, released>>
waitVars == <<waiters, waiter_thread, wait>>
vars == <<holder, count, released, waiters, waiter_thread, wait, spin,
          destroyed, pc, at, from, own>>

Goto(t, label) == pc' = [pc EXCEPT ![t] = label]

(* Labels at which a thread is about to touch the mutex at[t], or from[t]. *)
Touching == {"lock", "timed_lock", "timed_dequeue", "unlock", "switch_lock",
             "switch_unlock", "switch_unlock_slow"}
Switching == {"switch_unlock", "switch_unlock_slow"}
Labels == Touching \cup {"idle", "wait", "timed_wait", "panic"}

(* mutex_init(), or MUTEX_INITIALIZER *)
Init ==
  /\ holder = [l \in Locks |-> IF l \in StaticLocks THEN ZeroThread ELSE NoThread]
  /\ count = [l \in Locks |-> 0]
  /\ released = [l \in Locks |-> FALSE]
  /\ waiters = [l \in Locks |-> <<>>]
  /\ waiter_thread = [t \in Threads |-> FALSE]
  /\ wait = [t \in Threads |-> B_OK]
  /\ spin = [l \in Locks |-> NoThread]
  /\ destroyed = [l \in Locks |-> FALSE]
  /\ pc = [t \in Threads |-> "idle"]
  /\ at \in [Threads -> {CHOOSE l \in Locks : TRUE}]
  /\ from = at
  /\ own = [l \in Locks |-> {}]

-----------------------------------------------------------------------------
(* The clients: a thread does not lock a mutex it owns; it reaches a       *)
(* guarded mutex through its guard, and takes the guard first.             *)
MayAcquire(t, l) ==
  /\ pc[t] = "idle"
  /\ t \notin own[l]
  /\ ~destroyed[l]
  /\ \A p \in GuardedBy : p[1] = l => t \in own[p[2]]
  /\ \A p \in GuardedBy : p[2] = l => t \notin own[p[1]]

SpinFree(l) == spin[l] = NoThread
OwnAlso(l, t) == own' = [own EXCEPT ![l] = @ \cup {t}]

(* Mutant: count is not decremented. *)
CountAfterLock_Unchanged(l) == count

(* count after the atomic_add of a release build that asks for l *)
CountAfterLock(l) == IF KDEBUG THEN count ELSE [count EXCEPT ![l] = @ - 1]

(* mutex_lock() and mutex_lock_with_timeout(), inline in a release build:  *)
(* the atomic_add, which leads to the slow path if the mutex was taken.    *)
StartLock(t, l, slow) ==
  /\ MayAcquire(t, l)
  /\ at' = [at EXCEPT ![t] = l]
  /\ count' = CountAfterLock(l)
  /\ IF KDEBUG \/ count[l] < 0
     THEN Goto(t, slow) /\ UNCHANGED own
     ELSE OwnAlso(l, t) /\ UNCHANGED pc
  /\ UNCHANGED <<holder, released, waitVars, spin, destroyed, from>>

mutex_lock(t, l) == StartLock(t, l, "lock")

mutex_lock_with_timeout(t, l) ==
  t \in TimedLockers /\ StartLock(t, l, "timed_lock")

(* Mutant: a released mutex is not noticed under the spinlock. *)
IsReleased_NeverNoticed(l) == KDEBUG /\ holder[l] \in {NoThread, ZeroThread}

(* What _mutex_lock() and _mutex_lock_with_timeout() take for a free mutex *)
(* in the section under the spinlock; the KDEBUG versions of the test      *)
(* differ in how they see a holder of 0 and of INT16_MIN.                  *)
IsReleased(l) ==
  IF KDEBUG THEN holder[l] \in {NoThread, ZeroThread} ELSE released[l]
IsReleasedTimed(l) ==
  IF KDEBUG THEN holder[l] \in {NoThread, DeadThread} ELSE released[l]

Take(t, l) ==
  /\ holder' = IF KDEBUG THEN [holder EXCEPT ![l] = t] ELSE holder
  /\ released' = IF KDEBUG THEN released ELSE [released EXCEPT ![l] = FALSE]
  /\ OwnAlso(l, t)
  /\ Goto(t, "idle")
  /\ UNCHANGED waitVars

Enqueue(t, l, waiting) ==
  /\ waiters' = [waiters EXCEPT ![l] = Append(@, t)]
  /\ waiter_thread' = [waiter_thread EXCEPT ![t] = TRUE]
  /\ wait' = thread_prepare_to_block(wait, t)
  /\ Goto(t, waiting)
  /\ UNCHANGED <<holder, released, own>>

(* _mutex_lock() under the spinlock.  It panics on a double lock and on a  *)
(* destroyed mutex.                                                        *)
LockSection(t, l) ==
  \/ IsReleased(l) /\ Take(t, l)
  \/ /\ ~IsReleased(l)
     /\ IF KDEBUG /\ holder[l] \in {t, DeadThread}
        THEN Goto(t, "panic") /\ UNCHANGED <<holder, released, waitVars, own>>
        ELSE Enqueue(t, l, "wait")

_mutex_lock(t) ==
  /\ pc[t] = "lock"
  /\ SpinFree(at[t])
  /\ LockSection(t, at[t])
  /\ UNCHANGED <<count, spin, destroyed, at, from>>

(* _mutex_lock_with_timeout(), likewise; it panics on a holder of 0.       *)
_mutex_lock_with_timeout(t) ==
  /\ pc[t] = "timed_lock"
  /\ SpinFree(at[t])
  /\ \/ IsReleasedTimed(at[t]) /\ Take(t, at[t])
     \/ /\ ~IsReleasedTimed(at[t])
        /\ IF KDEBUG /\ holder[at[t]] \in {t, ZeroThread}
           THEN /\ Goto(t, "panic")
                /\ UNCHANGED <<holder, released, waitVars, own>>
           ELSE Enqueue(t, at[t], "timed_wait")
  /\ UNCHANGED <<count, spin, destroyed, at, from>>

(* thread_block() returned to _mutex_lock().                               *)
WaitReturn(t) ==
  /\ pc[t] = "wait"
  /\ ~thread_is_blocked(wait, t)
  /\ Goto(t, "idle")
  /\ UNCHANGED <<mutexVars, waitVars, spin, destroyed, at, from, own>>

(* The timer of thread_block_with_timeout() fires. *)
Timeout(t) ==
  /\ pc[t] = "timed_wait"
  /\ thread_is_blocked(wait, t)
  /\ wait' = thread_block_timeout(wait, t)
  /\ UNCHANGED <<mutexVars, waiters, waiter_thread, spin, destroyed, pc, at,
                 from, own>>

(* thread_block_with_timeout() returned: with the mutex, with the news     *)
(* that it was destroyed (waiter.thread is NULL), or with a timeout.       *)
TimedReturn(t) ==
  /\ pc[t] = "timed_wait"
  /\ ~thread_is_blocked(wait, t)
  /\ IF wait[t] = B_OK \/ ~waiter_thread[t]
     THEN Goto(t, "idle")
     ELSE Goto(t, "timed_dequeue")
  /\ UNCHANGED <<mutexVars, waitVars, spin, destroyed, at, from, own>>

(* "we need to fix the lock count" *)
CountAfterTimeout(l) ==
  IF KDEBUG THEN count ELSE [count EXCEPT ![l] = @ + 1]

(* After a timeout: leave the list, or, if not in the list, own the mutex. *)
(* If a mutex_destroy() took the waiter off the list after all, the        *)
(* assertion of a KDEBUG build reads waiter.thread->id with thread = NULL. *)
TimedDequeue(t) ==
  LET l == at[t] IN
  /\ pc[t] = "timed_dequeue"
  /\ SpinFree(l)
  /\ \/ /\ \E i \in DOMAIN waiters[l] :
             /\ waiters[l][i] = t
             /\ waiters' = [waiters EXCEPT ![l] = RemoveAt(@, i)]
        /\ count' = CountAfterTimeout(l)
        /\ Goto(t, "idle")
        /\ UNCHANGED own
     \/ /\ t \notin Range(waiters[l])
        /\ IF KDEBUG /\ ~waiter_thread[t]
           THEN Goto(t, "panic") /\ UNCHANGED own
           ELSE Goto(t, "idle") /\ OwnAlso(l, t)
        /\ UNCHANGED <<waiters, count>>
  /\ UNCHANGED <<holder, released, waiter_thread, wait, spin, destroyed, at,
                 from>>

mutex_trylock(t, l) ==
  /\ t \in TryLockers
  /\ MayAcquire(t, l)
  /\ IF KDEBUG
     THEN /\ SpinFree(l)
          /\ holder[l] \in {NoThread, DeadThread, ZeroThread}
          /\ IF holder[l] = ZeroThread
             THEN Goto(t, "panic") /\ UNCHANGED <<holder, own>>
             ELSE /\ holder' = [holder EXCEPT ![l] = t]
                  /\ OwnAlso(l, t)
                  /\ UNCHANGED pc
          /\ UNCHANGED count
     ELSE /\ count[l] = 0
          /\ count' = [count EXCEPT ![l] = -1]
          /\ OwnAlso(l, t)
          /\ UNCHANGED <<holder, pc>>
  /\ at' = [at EXCEPT ![t] = l]
  /\ UNCHANGED <<released, waitVars, spin, destroyed, from>>

-----------------------------------------------------------------------------
(* Unlocking *)

(* Mutant: the holder is reset instead of passed on, "a race condition,    *)
(* since another locker could think the lock is not held by anyone".       *)
HolderAfterUnlock_Reset(l, u) ==
  IF KDEBUG THEN [holder EXCEPT ![l] = NoThread] ELSE holder

(* lock->holder as _mutex_unlock() leaves it, u being the thread dequeued  *)
HolderAfterUnlock(l, u) == IF KDEBUG THEN [holder EXCEPT ![l] = u] ELSE holder

(* _mutex_unlock() under the spinlock, and where the caller goes on.       *)
UnlockSection(t, l, next) ==
  /\ IF KDEBUG /\ holder[l] # t
     THEN Goto(t, "panic") /\ UNCHANGED <<holder, released, waiters, wait, own>>
     ELSE /\ Goto(t, next)
          /\ \/ /\ waiters[l] # <<>>
                /\ waiters' = [waiters EXCEPT ![l] = Tail(@)]
                /\ holder' = HolderAfterUnlock(l, Head(waiters[l]))
                /\ wait' = thread_unblock(wait, {Head(waiters[l])}, B_OK)
                /\ own' = [own EXCEPT ![l] = (@ \ {t}) \cup {Head(waiters[l])}]
                /\ UNCHANGED released
             \/ /\ waiters[l] = <<>>
                /\ holder' = HolderAfterUnlock(l, NoThread)
                /\ released' = IF KDEBUG THEN released
                                         ELSE [released EXCEPT ![l] = TRUE]
                /\ own' = [own EXCEPT ![l] = @ \ {t}]
                /\ UNCHANGED <<waiters, wait>>
  /\ UNCHANGED waiter_thread

(* Mutants: off by one in both directions. *)
MustUnlock_MissesLast(l) == count[l] < -2
MustUnlock_Always(l) == count[l] < 0

(* Whether the atomic_add of mutex_unlock_inline() found waiting threads.  *)
MustUnlock(l) == count[l] < -1

(* mutex_unlock(): the slow path is all there is in a KDEBUG build.        *)
StartUnlock(t, l, slow, next) ==
  /\ t \in own[l]
  /\ count' = IF KDEBUG THEN count ELSE [count EXCEPT ![l] = @ + 1]
  /\ own' = [own EXCEPT ![l] = @ \ {t}]
  /\ IF KDEBUG \/ MustUnlock(l) THEN Goto(t, slow) ELSE Goto(t, next)

mutex_unlock(t, l) ==
  /\ pc[t] = "idle"
  /\ StartUnlock(t, l, "unlock", "idle")
  /\ at' = [at EXCEPT ![t] = l]
  /\ UNCHANGED <<holder, released, waitVars, spin, destroyed, from>>

_mutex_unlock(t) ==
  /\ pc[t] = "unlock"
  /\ SpinFree(at[t])
  /\ UnlockSection(t, at[t], "idle")
  /\ UNCHANGED <<count, spin, destroyed, at, from>>

mutex_transfer_lock(t, l, u) ==
  /\ pc[t] = "idle" /\ pc[u] = "idle"
  /\ u # t
  /\ t \in own[l] /\ ~destroyed[l]
  /\ IF KDEBUG /\ holder[l] # t
     THEN Goto(t, "panic") /\ UNCHANGED <<holder, own>>
     ELSE /\ holder' = HolderAfterUnlock(l, u)
          /\ own' = [own EXCEPT ![l] = (@ \ {t}) \cup {u}]
          /\ UNCHANGED pc
  /\ UNCHANGED <<count, released, waitVars, spin, destroyed, at, from>>

-----------------------------------------------------------------------------
(* Mutant: the switch does not keep the spinlock. *)
SpinWhileSwitching_Dropped(t, b) == spin

(* mutex_switch_lock() keeps the spinlock of the mutex it will lock.       *)
SpinWhileSwitching(t, b) == [spin EXCEPT ![b] = t]

(* mutex_switch_lock(a, b): b's spinlock, then unlock a, then lock b.      *)
mutex_switch_lock(t, a, b) ==
  /\ pc[t] = "idle"
  /\ <<b, a>> \in GuardedBy
  /\ t \in own[a] /\ t \notin own[b]
  /\ ~destroyed[a] /\ ~destroyed[b]
  /\ SpinFree(b)
  /\ spin' = SpinWhileSwitching(t, b)
  /\ at' = [at EXCEPT ![t] = b]
  /\ from' = [from EXCEPT ![t] = a]
  /\ Goto(t, "switch_unlock")
  /\ UNCHANGED <<mutexVars, waitVars, destroyed, own>>

SwitchUnlock(t) ==
  /\ \/ /\ pc[t] = "switch_unlock"
        /\ StartUnlock(t, from[t], "switch_unlock_slow", "switch_lock")
        /\ UNCHANGED <<holder, released, waitVars>>
     \/ /\ pc[t] = "switch_unlock_slow"
        /\ SpinFree(from[t])
        /\ UnlockSection(t, from[t], "switch_lock")
        /\ UNCHANGED count
  /\ UNCHANGED <<spin, destroyed, at, from>>

(* mutex_lock_threads_locked() *)
SwitchLock(t) ==
  /\ pc[t] = "switch_lock"
  /\ count' = CountAfterLock(at[t])
  /\ IF KDEBUG \/ count[at[t]] < 0
     THEN LockSection(t, at[t])
     ELSE /\ OwnAlso(at[t], t)
          /\ Goto(t, "idle")
          /\ UNCHANGED <<holder, released, waitVars>>
  /\ spin' = [spin EXCEPT ![at[t]] = NoThread]
  /\ UNCHANGED <<destroyed, at, from>>

-----------------------------------------------------------------------------
(* Nobody is in a call on l. *)
Unused(l) ==
  /\ own[l] = {}
  /\ \A u \in Threads : pc[u] = "idle" \/ (at[u] # l /\ from[u] # l)

(* mutex_destroy(), by the owner or while nobody uses the mutex, and while *)
(* the guards are held.  The waiters are told by waiter->thread = NULL.    *)
mutex_destroy(t, l) ==
  /\ t \in Destroyers
  /\ pc[t] = "idle"
  /\ ~destroyed[l]
  /\ t \in own[l] \/ Unused(l)
  /\ \A p \in GuardedBy : p[1] = l => t \in own[p[2]]
  /\ \A p \in GuardedBy : p[2] = l => destroyed[p[1]]
  /\ SpinFree(l)
  /\ waiters' = [waiters EXCEPT ![l] = <<>>]
  /\ waiter_thread' = [u \in Threads |-> waiter_thread[u]
                                           /\ u \notin Range(waiters[l])]
  /\ wait' = thread_unblock(wait, Range(waiters[l]), B_ERROR)
  /\ IF KDEBUG
     THEN holder' = [holder EXCEPT ![l] = DeadThread] /\ UNCHANGED count
     ELSE count' = [count EXCEPT ![l] = INT16_MIN] /\ UNCHANGED holder
  /\ released' = [released EXCEPT ![l] = FALSE]
  /\ destroyed' = [destroyed EXCEPT ![l] = TRUE]
  /\ own' = [own EXCEPT ![l] = {}]
  /\ UNCHANGED <<spin, pc, at, from>>

Call(t, l) ==
  \/ mutex_lock(t, l) \/ mutex_lock_with_timeout(t, l) \/ mutex_trylock(t, l)
  \/ mutex_unlock(t, l)
  \/ \E u \in Threads : mutex_transfer_lock(t, l, u)
  \/ \E k \in Locks : mutex_switch_lock(t, l, k)
  \/ mutex_destroy(t, l)

Continue(t) ==
  \/ _mutex_lock(t) \/ _mutex_lock_with_timeout(t) \/ WaitReturn(t)
  \/ Timeout(t) \/ TimedReturn(t) \/ TimedDequeue(t)
  \/ _mutex_unlock(t) \/ SwitchUnlock(t) \/ SwitchLock(t)

Next == \E t \in Threads : Continue(t) \/ \E l \in Locks : Call(t, l)

Spec == Init /\ [][Next]_vars

(* Ready threads run, timeouts expire, and a thread gets the spinlock it   *)
(* spins for in the end (strong fairness: others hold it now and then); an *)
(* owner gives the mutex back in the end.                                  *)
Fairness ==
  \A t \in Threads :
    /\ SF_vars(Continue(t))
    /\ \A l \in Locks : SF_vars(mutex_unlock(t, l))

FairSpec == Spec /\ Fairness

-----------------------------------------------------------------------------
(* Properties *)

(* Where each variable ranges; count never gets near INT16_MIN, the value  *)
(* that marks a destroyed mutex.                                           *)
TypeOK ==
  /\ holder \in [Locks -> Threads \cup {NoThread, ZeroThread, DeadThread}]
  /\ count \in [Locks -> Int]
  /\ \A l \in Locks :
       ~destroyed[l] => count[l] \in -Cardinality(Threads) .. 0
  /\ released \in [Locks -> BOOLEAN]
  /\ waiters \in [Locks -> Seq(Threads)]
  /\ waiter_thread \in [Threads -> BOOLEAN]
  /\ wait \in [Threads -> WaitStatus]
  /\ spin \in [Locks -> Threads \cup {NoThread}]
  /\ destroyed \in [Locks -> BOOLEAN]
  /\ pc \in [Threads -> Labels]
  /\ at \in [Threads -> Locks] /\ from \in [Threads -> Locks]
  /\ own \in [Locks -> SUBSET Threads]

(* A mutex has at most one owner, in a debug build and in a release build: *)
(* who was handed the mutex by _mutex_unlock() counts from that moment, a  *)
(* timeout that comes at the same time notwithstanding.                    *)
MutualExclusion ==
  \A l \in Locks : ~destroyed[l] =>
    \A t, u \in own[l] : t = u

(* Threads on their way into, and out of, the slow paths of l *)
Arriving(l) == {t \in Threads : pc[t] \in {"lock", "timed_lock"} /\ at[t] = l}
Unlocking(l) ==
  {t \in Threads : \/ pc[t] = "unlock" /\ at[t] = l
                   \/ pc[t] = "switch_unlock_slow" /\ from[t] = l}

(* No wakeup is lost: where a thread sleeps in the queue, somebody owns    *)
(* the mutex or is on the way to hand it on.                               *)
NoStrandedWaiter ==
  \A l \in Locks :
    ~destroyed[l] /\ waiters[l] # <<>> => own[l] \cup Unlocking(l) # {}

(* The ASSERTs of the KDEBUG build: who unlocks is the holder; who was     *)
(* woken with B_OK, or is not in the list any more after its timeout, is   *)
(* the holder; any other error means the mutex was destroyed.              *)
Assertions ==
  \A t \in Threads : LET l == at[t] IN ~destroyed[l] =>
    /\ pc[t] = "unlock" => holder[l] = t
    /\ pc[t] \in {"wait", "timed_wait"} /\ wait[t] = B_OK => holder[l] = t
    /\ pc[t] = "timed_dequeue" => holder[l] = t \/ t \in Range(waiters[l])
    /\ pc[t] = "wait" /\ wait[t] = B_ERROR => ~waiter_thread[t]

(* A step of a thread into a panic: the mutex is destroyed, or its holder  *)
(* is 0, that is, it is from MUTEX_INITIALIZER and was never used.         *)
PanicStep ==
  \A t \in Threads : pc[t] # "panic" /\ pc'[t] = "panic" =>
    destroyed[at'[t]] \/ holder[at'[t]] = ZeroThread

(* In the KDEBUG build the ASSERTs hold, and whatever order the calls come *)
(* in, there is only one panic on a mutex that is not destroyed: a timed   *)
(* or a trying call is the first to use a mutex from MUTEX_INITIALIZER and *)
(* takes its holder of 0 for uninitialized (lock.cpp:1136 and 1226).       *)
AssertionsHold == [](KDEBUG => Assertions) /\ [][KDEBUG => PanicStep]_vars

(* The release build's count says how many threads own the mutex, wait for *)
(* it or are about to; and while count < 0 the mutex is in exactly one     *)
(* place: owned, being handed on by an unlocker, or marked as released.    *)
CountAccounting ==
  \A l \in Locks : ~KDEBUG /\ ~destroyed[l] =>
    /\ count[l] = -(Cardinality(own[l]) + Cardinality(Arriving(l))
                      + Len(waiters[l]))
    /\ Cardinality(own[l]) + Cardinality(Unlocking(l))
         + (IF released[l] THEN 1 ELSE 0) = (IF count[l] < 0 THEN 1 ELSE 0)

(* "if "from" guards the object "to" belongs to, the operation is safe as  *)
(* long as "from" is held while destroying "to"" (lock.h on                *)
(* mutex_switch_lock()): no thread is about to touch a guarded mutex that  *)
(* was destroyed.                                                          *)
NoUseAfterDestroy ==
  \A p \in GuardedBy, t \in Threads :
    destroyed[p[1]] /\ pc[t] \in Touching => at[t] # p[1]

(* Every call comes to an end, the lock being handed on first come, first  *)
(* served, unless the mutex is destroyed.  (A call may also end in a       *)
(* panic; AssertionsHold says when.)                                       *)
NoStarvation ==
  \A t \in Threads :
    pc[t] # "idle" ~> pc[t] \in {"idle", "panic"} \/ destroyed[at[t]]
=============================================================================
