------------------------- MODULE KernelMutexProofs -------------------------
(***************************************************************************)
(* Proofs about KernelMutex as the default build compiles it (KDEBUG): for *)
(* any number of threads and mutexes, with timeouts, transfers, switches   *)
(* and destruction.                                                        *)
(***************************************************************************)
EXTENDS KernelMutex, QueueLemmas

(* Sleeping, or awake but not yet done with the waiter                     *)
Waiting == {"wait", "timed_wait", "timed_dequeue"}

(* On the way to ask for the mutex at[t] under its spinlock                *)
Asking == {"lock", "timed_lock", "switch_lock"} \cup Switching

(* Thread t is in the queue of l, and was not woken by an unlocker.  Only  *)
(* a thread with a timeout may be awake.                                   *)
Sleeper(t, l) ==
  /\ pc[t] \in Waiting /\ at[t] = l
  /\ waiter_thread[t]
  /\ wait[t] # B_OK
  /\ pc[t] = "wait" => wait[t] = Blocked

(* The queue of a mutex holds threads that wait for it, each once.  While  *)
(* it is not destroyed, the mutex has a holder if and only if a thread     *)
(* owns it or is about to hand it on.                                      *)
LockInv(l) ==
  /\ IsInjective(waiters[l])
  /\ \A t \in Range(waiters[l]) : Sleeper(t, l)
  /\ ~destroyed[l] =>
       /\ own[l] \subseteq {holder[l]}
       /\ \A t \in Threads : holder[l] = t => t \in own[l] \/ t \in Unlocking(l)
       /\ \A t \in Unlocking(l) : holder[l] = t /\ t \notin own[l]
       /\ holder[l] # DeadThread
       /\ \A t \in own[l] : t \notin Range(waiters[l])
       /\ waiters[l] # <<>> => holder[l] \in Threads

(* What a thread may rely on at each label, while the mutex it works on is *)
(* not destroyed: it does not own what it asks for, and, once it waits, it *)
(* is either in the queue or was handed the mutex.                         *)
ThreadInv(t) ==
  /\ pc[t] \in Asking /\ ~destroyed[at[t]] => t \notin own[at[t]]
  /\ pc[t] \in Switching => ~destroyed[from[t]] /\ from[t] # at[t]
  /\ pc[t] = "switch_unlock" => t \in own[from[t]]
  /\ pc[t] \in Waiting /\ ~destroyed[at[t]] =>
       /\ waiter_thread[t]
       /\ wait[t] # B_ERROR
       /\ t \in Range(waiters[at[t]]) \/ t \in own[at[t]]

(* The inductive invariant of the KDEBUG build, which leaves count alone.  *)
DebugInv ==
  /\ TypeOK
  /\ \A l \in Locks : count[l] = 0
  /\ \A l \in Locks : LockInv(l)
  /\ \A t \in Threads : ThreadInv(t)

-----------------------------------------------------------------------------
(* Queues consist of threads. *)
LEMMA QueuesHoldThreads ==
  ASSUME TypeOK
  PROVE  \A l \in Locks : waiters[l] \in Seq(Threads) /\ Range(waiters[l]) \subseteq Threads
<1> SUFFICES ASSUME NEW l \in Locks
             PROVE  waiters[l] \in Seq(Threads) /\ Range(waiters[l]) \subseteq Threads
  OBVIOUS
<1>1. waiters[l] \in Seq(Threads)
  BY DEF TypeOK
<1> QED
  BY <1>1, RangeOfSeq

(* mutex_init() establishes the invariant.                                 *)
LEMMA DebugInitially ==
  ASSUME KDEBUG
  PROVE  Init => DebugInv
<1> SUFFICES ASSUME Init PROVE DebugInv
  OBVIOUS
<1> USE KernelMutexConstants, KernelMutexCapacity DEF Init
<1>1. PICK l0 \in Locks : at = [t \in Threads |-> l0]
  <2> DEFINE l0 == CHOOSE l \in Locks : TRUE
  <2>1. l0 \in Locks
    OBVIOUS
  <2>2. at = [t \in Threads |-> l0]
    BY Zenon
  <2> QED
    BY <2>1, <2>2
<1>2. Cardinality(Threads) \in Nat
  BY FS_CardinalityType
<1>3. TypeOK
  BY <1>1, <1>2 DEF TypeOK, WaitStatus, Labels, Touching
<1>4. ASSUME NEW l \in Locks PROVE LockInv(l)
  BY DEF LockInv, Unlocking, IsInjective, Range
<1>5. ASSUME NEW t \in Threads PROVE ThreadInv(t)
  BY DEF ThreadInv, Asking, Switching, Waiting
<1> QED
  BY <1>3, <1>4, <1>5 DEF DebugInv

(* A mutex keeps its invariant through a step that leaves it alone.        *)
LEMMA LockFrame ==
  ASSUME DebugInv, NEW k \in Locks,
         holder'[k] = holder[k], own'[k] = own[k], waiters'[k] = waiters[k],
         destroyed'[k] = destroyed[k],
         ~destroyed[k] => Unlocking(k)' = Unlocking(k),
         \A u \in Threads :
           u \in Range(waiters[k]) /\ Sleeper(u, k) => Sleeper(u, k)'
  PROVE  LockInv(k)'
BY QueuesHoldThreads DEF LockInv, DebugInv

(* mutex_lock() and mutex_lock_with_timeout() up to the spinlock           *)
LEMMA DebugStartLock ==
  ASSUME KDEBUG, DebugInv, NEW t \in Threads, NEW l \in Locks,
         NEW slow \in {"lock", "timed_lock"}, StartLock(t, l, slow)
  PROVE  DebugInv'
<1> USE DEF DebugInv, StartLock, MayAcquire, CountAfterLock, waitVars, Goto
<1>1. TypeOK'
  BY DEF TypeOK, Labels, Touching
<1>2. ASSUME NEW k \in Locks PROVE LockInv(k)'
  <2>1. Unlocking(k)' = Unlocking(k)
    BY DEF Unlocking, TypeOK
  <2>2. \A u \in Threads : Sleeper(u, k) => Sleeper(u, k)'
    BY DEF TypeOK, Waiting, Sleeper
  <2> QED
    BY <2>1, <2>2, LockFrame
<1>3. ASSUME NEW u \in Threads PROVE ThreadInv(u)'
  BY DEF ThreadInv, TypeOK, Asking, Switching, Waiting
<1> QED
  BY <1>1, <1>2, <1>3

(* Taking a free mutex under its spinlock                                  *)
LEMMA DebugTake ==
  ASSUME KDEBUG, DebugInv, NEW t \in Threads,
         pc[t] \in {"lock", "timed_lock", "switch_lock"},
         holder[at[t]] \in {NoThread, ZeroThread, DeadThread},
         Take(t, at[t]), UNCHANGED <<count, destroyed, at, from>>,
         spin' \in [Locks -> Threads \cup {NoThread}]
  PROVE  DebugInv'
<1> USE DEF DebugInv, Take, OwnAlso, waitVars, Goto
<1> DEFINE l == at[t]
<1>0. l \in Locks
  BY DEF TypeOK
<1>1. TypeOK'
  BY <1>0 DEF TypeOK, Labels, Touching
<1>2. \A k \in Locks : Unlocking(k)' = Unlocking(k)
  BY DEF Unlocking, TypeOK
<1>3. \A u \in Threads, k \in Locks : Sleeper(u, k) => Sleeper(u, k)'
  BY <1>0 DEF TypeOK, Waiting, Sleeper
<1>4. ~destroyed[l] => own[l] = {} /\ Unlocking(l) = {}
  BY <1>0, KernelMutexConstants DEF LockInv, TypeOK, Unlocking
<1>5. ASSUME NEW k \in Locks, k = l PROVE LockInv(k)'
  <2>1. t \notin Range(waiters[k])
    BY DEF LockInv, Sleeper, Waiting
  <2>2. IsInjective(waiters[k]) /\ \A u \in Range(waiters[k]) : Sleeper(u, k)'
    BY <1>3, QueuesHoldThreads DEF LockInv
  <2>3. ~destroyed[k] => own'[k] = {t} /\ holder'[k] = t
    BY <1>4, <1>5 DEF TypeOK
  <2> QED
    BY <1>2, <1>4, <1>5, <2>1, <2>2, <2>3, KernelMutexConstants DEF LockInv
<1>6. ASSUME NEW k \in Locks, k # l PROVE LockInv(k)'
  BY <1>0, <1>2, <1>3, <1>6, LockFrame DEF TypeOK
<1>7. ASSUME NEW u \in Threads PROVE ThreadInv(u)'
  BY <1>0 DEF ThreadInv, TypeOK, Asking, Switching, Waiting
<1> QED
  BY <1>0, <1>1, <1>5, <1>6, <1>7

(* Going to sleep in the queue of a mutex that somebody has                *)
LEMMA DebugEnqueue ==
  ASSUME KDEBUG, DebugInv, NEW t \in Threads,
         pc[t] \in {"lock", "timed_lock", "switch_lock"},
         NEW label \in {"wait", "timed_wait"},
         holder[at[t]] \notin {NoThread, ZeroThread, DeadThread},
         Enqueue(t, at[t], label), UNCHANGED <<count, destroyed, at, from>>,
         spin' \in [Locks -> Threads \cup {NoThread}]
  PROVE  DebugInv'
<1> USE DEF DebugInv, Enqueue, Goto
<1> DEFINE l == at[t]
<1>0. l \in Locks /\ waiters[l] \in Seq(Threads)
  BY DEF TypeOK
<1>1. /\ waiters'[l] \in Seq(Threads)
      /\ Range(waiters'[l]) = Range(waiters[l]) \cup {t}
      /\ IsInjective(waiters[l]) /\ t \notin Range(waiters[l]) => IsInjective(waiters'[l])
  <2>1. waiters'[l] = Append(waiters[l], t)
    BY <1>0 DEF TypeOK
  <2> QED
    BY <2>1, <1>0, AppendMembers
<1>2. TypeOK'
  BY <1>0, <1>1 DEF TypeOK, Labels, Touching, thread_prepare_to_block, WaitStatus
<1>3. \A k \in Locks : Unlocking(k)' = Unlocking(k)
  BY DEF Unlocking, TypeOK
<1>4. \A u \in Threads, k \in Locks : Sleeper(u, k) => Sleeper(u, k)'
  BY DEF TypeOK, Waiting, Sleeper, thread_prepare_to_block
<1>5. pc'[t] \in Waiting /\ wait'[t] = Blocked /\ waiter_thread'[t]
  BY DEF TypeOK, Waiting, thread_prepare_to_block
<1>6. LockInv(l)'
  <2> SUFFICES ASSUME NEW k \in Locks, k = l PROVE LockInv(k)'
    BY <1>0
  <2>1. t \notin Range(waiters[k]) /\ (~destroyed[k] => t \notin own[k])
    BY <1>0 DEF LockInv, ThreadInv, Asking, Sleeper, Waiting
  <2>2. \A u \in Range(waiters'[k]) : Sleeper(u, k)'
    <3>1. Sleeper(t, k)'
      BY <2>1, <1>5 DEF Sleeper, Blocked, B_OK
    <3>2. \A u \in Range(waiters[k]) : Sleeper(u, k)'
      BY <1>4, QueuesHoldThreads DEF LockInv
    <3> QED
      BY <3>1, <3>2, <1>1
  <2>3. IsInjective(waiters'[k])
    BY <2>1, <1>1 DEF LockInv
  <2>4. UNCHANGED <<holder, own, destroyed>>
    OBVIOUS
  <2>5. holder[k] \in Threads
    BY DEF TypeOK
  <2> QED
    BY <2>1, <2>2, <2>3, <2>4, <2>5, <1>1, <1>3 DEF LockInv
<1>7. ASSUME NEW k \in Locks, k # l PROVE LockInv(k)'
  <2>1. waiters'[k] = waiters[k]
    BY <1>7, <1>0 DEF TypeOK
  <2> QED
    BY <2>1, <1>3, <1>4, LockFrame
<1>8. ASSUME NEW u \in Threads PROVE ThreadInv(u)'
  <2>1. Range(waiters[at[u]]) \subseteq Range(waiters'[at[u]])
    BY <1>0, <1>1 DEF TypeOK
  <2>2. CASE u = t
    BY <2>2, <1>1, <1>5
    DEF ThreadInv, Asking, Switching, Waiting, TypeOK, Blocked, B_ERROR
  <2>3. CASE u # t
    BY <2>1, <2>3
    DEF ThreadInv, TypeOK, Asking, Switching, Waiting, thread_prepare_to_block
  <2> QED
    BY <2>2, <2>3
<1> QED
  BY <1>2, <1>6, <1>7, <1>8

(* A panic in the sections under the spinlock of _mutex_lock(),            *)
(* _mutex_lock_with_timeout() and mutex_lock_threads_locked()              *)
LEMMA DebugLockPanics ==
  ASSUME KDEBUG, DebugInv, NEW t \in Threads,
         pc[t] \in {"lock", "timed_lock", "switch_lock"},
         holder[at[t]] \in {t, ZeroThread, DeadThread},
         Goto(t, "panic"),
         UNCHANGED <<holder, released, waitVars, own, count, destroyed, at, from>>,
         spin' \in [Locks -> Threads \cup {NoThread}]
  PROVE  DebugInv'
<1> USE DEF DebugInv, waitVars, Goto
<1>0. at[t] \in Locks
  BY DEF TypeOK
<1>1. TypeOK'
  BY DEF TypeOK, Labels, Touching
<1>2. ASSUME NEW k \in Locks PROVE LockInv(k)'
  <2>1. Unlocking(k)' = Unlocking(k)
    BY DEF Unlocking, TypeOK
  <2>2. \A u \in Threads : Sleeper(u, k) => Sleeper(u, k)'
    BY DEF TypeOK, Waiting, Sleeper
  <2> QED
    BY <2>1, <2>2, LockFrame
<1>3. ASSUME NEW u \in Threads PROVE ThreadInv(u)'
  BY DEF ThreadInv, TypeOK, Asking, Switching, Waiting
<1> QED
  BY <1>1, <1>2, <1>3

(* _mutex_lock() and mutex_lock_threads_locked() under the spinlock        *)
LEMMA DebugLockSection ==
  ASSUME KDEBUG, DebugInv, NEW t \in Threads,
         pc[t] \in {"lock", "switch_lock"},
         LockSection(t, at[t]), UNCHANGED <<count, destroyed, at, from>>,
         spin' \in [Locks -> Threads \cup {NoThread}]
  PROVE  DebugInv'
<1>1. CASE IsReleased(at[t]) /\ Take(t, at[t])
  BY <1>1, DebugTake DEF IsReleased
<1>2. CASE /\ holder[at[t]] \in {t, DeadThread}
           /\ Goto(t, "panic") /\ UNCHANGED <<holder, released, waitVars, own>>
  BY <1>2, DebugLockPanics DEF waitVars
<1>3. CASE /\ ~IsReleased(at[t]) /\ holder[at[t]] # DeadThread
           /\ Enqueue(t, at[t], "wait")
  BY <1>3, DebugEnqueue DEF IsReleased
<1> QED
  BY <1>1, <1>2, <1>3 DEF LockSection

(* _mutex_lock_with_timeout() under the spinlock                           *)
LEMMA DebugTimedLock ==
  ASSUME KDEBUG, DebugInv, NEW t \in Threads, _mutex_lock_with_timeout(t)
  PROVE  DebugInv'
<1>0. /\ pc[t] = "timed_lock" /\ UNCHANGED <<count, destroyed, at, from>>
      /\ spin' \in [Locks -> Threads \cup {NoThread}]
  BY DEF _mutex_lock_with_timeout, DebugInv, TypeOK
<1>1. CASE IsReleasedTimed(at[t]) /\ Take(t, at[t])
  BY <1>0, <1>1, DebugTake DEF IsReleasedTimed
<1>2. CASE /\ holder[at[t]] \in {t, ZeroThread}
           /\ Goto(t, "panic") /\ UNCHANGED <<holder, released, waitVars, own>>
  BY <1>0, <1>2, DebugLockPanics DEF waitVars
<1>3. CASE /\ ~IsReleasedTimed(at[t]) /\ holder[at[t]] # ZeroThread
           /\ Enqueue(t, at[t], "timed_wait")
  BY <1>0, <1>3, DebugEnqueue DEF IsReleasedTimed
<1> QED
  BY <1>1, <1>2, <1>3 DEF _mutex_lock_with_timeout

(* thread_block[_with_timeout]() returns to a thread that is not in the    *)
(* queue any more, or stays in it until it dequeues itself.                *)
LEMMA DebugWaitReturn ==
  ASSUME KDEBUG, DebugInv, NEW t \in Threads, WaitReturn(t) \/ TimedReturn(t)
  PROVE  DebugInv'
<1> USE DEF DebugInv, WaitReturn, TimedReturn, waitVars, mutexVars, Goto
<1>1. TypeOK'
  BY DEF TypeOK, Labels, Touching
<1>2. ASSUME NEW k \in Locks PROVE LockInv(k)'
  <2>1. Unlocking(k)' = Unlocking(k)
    BY DEF Unlocking, TypeOK
  <2>2. ASSUME NEW u \in Threads, u \in Range(waiters[k]), Sleeper(u, k)
        PROVE  Sleeper(u, k)'
    <3>1. CASE u # t
      BY <2>2, <3>1 DEF TypeOK, Sleeper
    <3>2. CASE u = t
      BY <2>2, <3>2
      DEF TypeOK, Sleeper, ThreadInv, Waiting, thread_is_blocked, B_OK, Blocked
    <3> QED
      BY <3>1, <3>2
  <2> QED
    BY <2>1, <2>2, LockFrame
<1>3. ASSUME NEW u \in Threads PROVE ThreadInv(u)'
  BY DEF ThreadInv, TypeOK, Asking, Switching, Waiting
<1> QED
  BY <1>1, <1>2, <1>3

(* The timer of thread_block_with_timeout() wakes a waiter, which stays in *)
(* the queue.                                                              *)
LEMMA DebugTimeout ==
  ASSUME KDEBUG, DebugInv, NEW t \in Threads, Timeout(t)
  PROVE  DebugInv'
<1> USE DEF DebugInv, Timeout, mutexVars, thread_is_blocked
<1>0. /\ wait' \in [Threads -> WaitStatus]
      /\ wait'[t] = B_TIMED_OUT
      /\ \A u \in Threads : u # t => wait'[u] = wait[u]
  BY DEF TypeOK, thread_block_timeout, thread_unblock, WaitStatus
<1>1. TypeOK'
  BY <1>0 DEF TypeOK
<1>2. ASSUME NEW k \in Locks PROVE LockInv(k)'
  <2>1. Unlocking(k)' = Unlocking(k)
    BY DEF Unlocking
  <2>2. \A u \in Threads : Sleeper(u, k) => Sleeper(u, k)'
    BY <1>0 DEF Sleeper, B_OK, B_TIMED_OUT
  <2> QED
    BY <2>1, <2>2, LockFrame
<1>3. ASSUME NEW u \in Threads PROVE ThreadInv(u)'
  BY <1>0 DEF ThreadInv, TypeOK, Asking, Switching, Waiting, B_TIMED_OUT, B_ERROR
<1> QED
  BY <1>1, <1>2, <1>3

(* A thread that timed out leaves the queue, or finds that it was handed   *)
(* the mutex.                                                              *)
LEMMA DebugTimedDequeue ==
  ASSUME KDEBUG, DebugInv, NEW t \in Threads, TimedDequeue(t)
  PROVE  DebugInv'
<1> USE DEF DebugInv, Goto, OwnAlso
<1> DEFINE l == at[t]
<1>0. /\ l \in Locks /\ waiters[l] \in Seq(Threads)
      /\ pc[t] = "timed_dequeue" /\ count' = count
      /\ UNCHANGED <<holder, released, waiter_thread, wait, spin, destroyed, at, from>>
  BY DEF TypeOK, TimedDequeue, CountAfterTimeout
<1>1. CASE /\ \E i \in DOMAIN waiters[l] :
                /\ waiters[l][i] = t
                /\ waiters' = [waiters EXCEPT ![l] = RemoveAt(@, i)]
           /\ Goto(t, "idle") /\ UNCHANGED own
  <2>1. PICK i \in DOMAIN waiters[l] :
          /\ waiters[l][i] = t
          /\ waiters' = [waiters EXCEPT ![l] = RemoveAt(@, i)]
    BY <1>1
  <2>2. /\ waiters'[l] = RemoveAt(waiters[l], i)
        /\ \A k \in Locks : k # l => waiters'[k] = waiters[k]
    BY <1>0, <2>1 DEF TypeOK
  <2>3. /\ waiters'[l] \in Seq(Threads)
        /\ Range(waiters[l]) = Range(waiters'[l]) \cup {t}
        /\ IsInjective(waiters[l]) =>
             IsInjective(waiters'[l]) /\ t \notin Range(waiters'[l])
    BY <1>0, <2>1, <2>2, RemoveAtMembers
  <2>4. TypeOK'
    BY <1>0, <1>1, <2>1, <2>2, <2>3 DEF TypeOK, Labels
  <2>5. \A k \in Locks : Unlocking(k)' = Unlocking(k)
    BY <1>0, <1>1 DEF Unlocking, TypeOK
  <2>6. \A u \in Threads, k \in Locks : u # t /\ Sleeper(u, k) => Sleeper(u, k)'
    BY <1>0, <1>1 DEF Sleeper, TypeOK
  <2>7. ASSUME NEW k \in Locks, k = l PROVE LockInv(k)'
    <3>1. IsInjective(waiters'[k]) /\ t \notin Range(waiters'[k])
      BY <2>3, <2>7 DEF LockInv
    <3>2. \A u \in Range(waiters'[k]) : Sleeper(u, k)'
      BY <2>3, <2>6, <2>7, <3>1, QueuesHoldThreads DEF LockInv
    <3> QED
      BY <1>0, <1>1, <2>3, <2>5, <2>7, <3>1, <3>2 DEF LockInv
  <2>8. ASSUME NEW k \in Locks, k # l PROVE LockInv(k)'
    <3>1. Sleeper(t, k) => FALSE
      BY <2>8 DEF Sleeper
    <3> QED
      BY <1>0, <1>1, <2>2, <2>5, <2>6, <2>8, <3>1, LockFrame
  <2>9. ASSUME NEW u \in Threads PROVE ThreadInv(u)'
    <3>1. \A k \in Locks : u # t /\ u \in Range(waiters[k]) => u \in Range(waiters'[k])
      BY <2>2, <2>3
    <3> QED
      BY <1>0, <1>1, <3>1 DEF ThreadInv, TypeOK, Asking, Switching, Waiting
  <2> QED
    BY <1>0, <2>4, <2>7, <2>8, <2>9
<1>2. CASE /\ t \notin Range(waiters[l])
           /\ IF ~waiter_thread[t] THEN Goto(t, "panic") /\ UNCHANGED own
                                   ELSE Goto(t, "idle") /\ OwnAlso(l, t)
           /\ UNCHANGED waiters
  <2>1. ~destroyed[l] => own[l] = {t} /\ waiter_thread[t]
    BY <1>0, <1>2 DEF LockInv, ThreadInv, Waiting
  <2>2. /\ own' \in [Locks -> SUBSET Threads]
        /\ \A k \in Locks : ~destroyed[k] => own'[k] = own[k]
        /\ \A k \in Locks : own[k] \subseteq own'[k]
    <3>1. CASE own' = own
      BY <3>1 DEF TypeOK
    <3>2. CASE own' = [own EXCEPT ![l] = @ \cup {t}]
      <4>1. own'[l] = own[l] \cup {t} /\ \A k \in Locks : k # l => own'[k] = own[k]
        BY <1>0, <3>2 DEF TypeOK
      <4> QED
        BY <1>0, <2>1, <3>2, <4>1 DEF TypeOK
    <3> QED
      BY <1>2, <3>1, <3>2
  <2>3. /\ pc' \in [Threads -> Labels] /\ pc'[t] \in {"idle", "panic"}
        /\ pc'[t] = "panic" => destroyed[l]
        /\ \A u \in Threads : u # t => pc'[u] = pc[u]
    BY <1>0, <1>2, <2>1 DEF TypeOK, Labels
  <2>4. TypeOK'
    BY <1>0, <1>2, <2>2, <2>3 DEF TypeOK
  <2>5. ASSUME NEW k \in Locks PROVE LockInv(k)'
    <3>1. Unlocking(k)' = Unlocking(k)
      BY <1>0, <2>3 DEF Unlocking, TypeOK
    <3>2. \A u \in Threads : u \in Range(waiters[k]) /\ Sleeper(u, k) => Sleeper(u, k)'
      <4> SUFFICES ASSUME NEW u \in Threads, u \in Range(waiters[k]), Sleeper(u, k)
                   PROVE  Sleeper(u, k)'
        OBVIOUS
      <4>1. u # t
        BY <1>2 DEF Sleeper
      <4> QED
        BY <4>1, <1>0, <2>3 DEF Sleeper
    <3>3. CASE destroyed[k]
      BY <1>0, <1>2, <3>2, <3>3, QueuesHoldThreads DEF LockInv
    <3>4. CASE ~destroyed[k]
      BY <1>0, <1>2, <2>2, <3>1, <3>2, <3>4, LockFrame
    <3> QED
      BY <3>3, <3>4 DEF TypeOK
  <2>6. ASSUME NEW u \in Threads PROVE ThreadInv(u)'
    BY <1>0, <1>2, <2>2, <2>3 DEF ThreadInv, TypeOK, Asking, Switching, Waiting
  <2> QED
    BY <1>0, <2>4, <2>5, <2>6
<1> QED
  BY <1>1, <1>2 DEF TimedDequeue

(* mutex_trylock() takes a free mutex, or panics on a static one           *)
LEMMA DebugTryLock ==
  ASSUME KDEBUG, DebugInv, NEW t \in Threads, NEW l \in Locks, mutex_trylock(t, l)
  PROVE  DebugInv'
<1> USE DEF DebugInv, MayAcquire, OwnAlso, Goto, waitVars
<1>0. /\ pc[t] = "idle" /\ t \notin own[l] /\ ~destroyed[l]
      /\ at' = [at EXCEPT ![t] = l]
      /\ UNCHANGED <<count, released, waiters, waiter_thread, wait, spin, destroyed, from>>
  BY DEF mutex_trylock
<1>1. CASE holder[l] = ZeroThread /\ Goto(t, "panic") /\ UNCHANGED <<holder, own>>
  <2>1. TypeOK'
    BY <1>0, <1>1 DEF TypeOK, Labels
  <2>2. ASSUME NEW k \in Locks PROVE LockInv(k)'
    <3>1. Unlocking(k)' = Unlocking(k)
      BY <1>0, <1>1 DEF Unlocking, TypeOK
    <3>2. \A u \in Threads : Sleeper(u, k) => Sleeper(u, k)'
      BY <1>0, <1>1 DEF TypeOK, Waiting, Sleeper
    <3> QED
      BY <1>0, <1>1, <3>1, <3>2, LockFrame
  <2>3. ASSUME NEW u \in Threads PROVE ThreadInv(u)'
    BY <1>0, <1>1 DEF ThreadInv, LockInv, TypeOK, Asking, Switching, Waiting
  <2> QED
    BY <1>0, <2>1, <2>2, <2>3
<1>2. CASE /\ holder[l] \in {NoThread, DeadThread}
           /\ holder' = [holder EXCEPT ![l] = t] /\ OwnAlso(l, t) /\ UNCHANGED pc
  <2>1. TypeOK'
    BY <1>0, <1>2 DEF TypeOK
  <2>2. \A k \in Locks : Unlocking(k)' = Unlocking(k)
    BY <1>0, <1>2 DEF Unlocking, TypeOK
  <2>3. \A u \in Threads, k \in Locks : Sleeper(u, k) => Sleeper(u, k)'
    BY <1>0, <1>2 DEF TypeOK, Waiting, Sleeper
  <2>4. own[l] = {} /\ Unlocking(l) = {}
    BY <1>0, <1>2, KernelMutexConstants DEF LockInv, TypeOK, Unlocking
  <2>5. LockInv(l)'
    <3>1. t \notin Range(waiters[l])
      BY <1>0 DEF LockInv, Sleeper, Waiting
    <3>2. IsInjective(waiters[l]) /\ \A u \in Range(waiters[l]) : Sleeper(u, l)'
      BY <2>3, QueuesHoldThreads DEF LockInv
    <3>3. own'[l] = {t} /\ holder'[l] = t
      BY <1>2, <2>4 DEF TypeOK
    <3> QED
      BY <1>0, <2>2, <2>4, <3>1, <3>2, <3>3, KernelMutexConstants DEF LockInv
  <2>6. ASSUME NEW k \in Locks, k # l PROVE LockInv(k)'
    BY <1>0, <1>2, <2>2, <2>3, <2>6, LockFrame DEF TypeOK
  <2>7. ASSUME NEW u \in Threads PROVE ThreadInv(u)'
    BY <1>0, <1>2 DEF ThreadInv, TypeOK, Asking, Switching, Waiting
  <2> QED
    BY <1>0, <2>1, <2>5, <2>6, <2>7
<1> QED
  BY <1>1, <1>2, KernelMutexConstants DEF mutex_trylock

(* The owner of mutex a becomes its unlocker.                              *)
LEMMA UnlockBegins ==
  ASSUME DebugInv, NEW t \in Threads, NEW a \in Locks,
         t \in own[a], pc[t] \notin Waiting,
         own' = [own EXCEPT ![a] = @ \ {t}],
         UNCHANGED <<holder, waiters, waiter_thread, wait, destroyed>>,
         \A u \in Threads : u # t => pc'[u] = pc[u] /\ at'[u] = at[u],
         Unlocking(a)' = Unlocking(a) \cup {t},
         \A k \in Locks : k # a => Unlocking(k)' = Unlocking(k)
  PROVE  \A k \in Locks : LockInv(k)'
<1> USE DEF DebugInv
<1>1. \A u \in Threads, k \in Locks : Sleeper(u, k) => Sleeper(u, k)'
  BY DEF Sleeper
<1>2. LockInv(a)'
  <2>1. IsInjective(waiters[a]) /\ \A u \in Range(waiters[a]) : Sleeper(u, a)'
    BY <1>1, QueuesHoldThreads DEF LockInv
  <2>2. own'[a] = own[a] \ {t}
    BY DEF TypeOK
  <2>3. ~destroyed[a] => holder[a] = t /\ own[a] = {t}
    BY DEF LockInv
  <2> QED
    BY <2>1, <2>2, <2>3 DEF LockInv
<1>3. ASSUME NEW k \in Locks, k # a PROVE LockInv(k)'
  BY <1>1, <1>3, LockFrame DEF TypeOK
<1> QED
  BY <1>2, <1>3

(* mutex_unlock() up to the spinlock                                       *)
LEMMA DebugUnlock ==
  ASSUME KDEBUG, DebugInv, NEW t \in Threads, NEW l \in Locks, mutex_unlock(t, l)
  PROVE  DebugInv'
<1> USE DEF DebugInv, mutex_unlock, StartUnlock, waitVars, Goto
<1>1. TypeOK'
  BY DEF TypeOK, Labels, Touching
<1>2. ASSUME NEW k \in Locks PROVE LockInv(k)'
  <2>1. \A u \in Threads : u # t => pc'[u] = pc[u] /\ at'[u] = at[u]
    BY DEF TypeOK
  <2>2. Unlocking(l)' = Unlocking(l) \cup {t}
    BY DEF Unlocking, TypeOK
  <2>3. \A j \in Locks : j # l => Unlocking(j)' = Unlocking(j)
    BY DEF Unlocking, TypeOK
  <2>4. pc[t] \notin Waiting
    BY DEF Waiting
  <2> QED
    BY <2>1, <2>2, <2>3, <2>4, UnlockBegins
<1>3. ASSUME NEW u \in Threads PROVE ThreadInv(u)'
  <2>1. \A k \in Locks : u # t => (u \in own'[k] <=> u \in own[k])
    BY DEF TypeOK
  <2> QED
    BY <2>1 DEF ThreadInv, TypeOK, Asking, Switching, Waiting
<1> QED
  BY <1>1, <1>2, <1>3

(* mutex_switch_lock() starts to unlock "from".                            *)
LEMMA DebugSwitchUnlock ==
  ASSUME KDEBUG, DebugInv, NEW t \in Threads, pc[t] = "switch_unlock",
         StartUnlock(t, from[t], "switch_unlock_slow", "switch_lock"),
         UNCHANGED <<holder, released, waitVars, spin, destroyed, at, from>>
  PROVE  DebugInv'
<1> USE DEF DebugInv, StartUnlock, waitVars, Goto
<1>0. from[t] \in Locks
  BY DEF TypeOK
<1>1. TypeOK'
  BY <1>0 DEF TypeOK, Labels, Touching
<1>2. ASSUME NEW k \in Locks PROVE LockInv(k)'
  <2>1. \A u \in Threads : u # t => pc'[u] = pc[u] /\ at'[u] = at[u]
    BY DEF TypeOK
  <2>2. Unlocking(from[t])' = Unlocking(from[t]) \cup {t}
    BY DEF Unlocking, TypeOK
  <2>3. \A j \in Locks : j # from[t] => Unlocking(j)' = Unlocking(j)
    BY DEF Unlocking, TypeOK
  <2>4. pc[t] \notin Waiting
    BY DEF Waiting
  <2>5. PICK a \in Locks : a = from[t]
    BY <1>0
  <2>6. Unlocking(a)' = Unlocking(a) \cup {t}
    BY <2>2, <2>5
  <2> QED
    BY <2>1, <2>6, <2>3, <2>4, <2>5, UnlockBegins
<1>3. ASSUME NEW u \in Threads PROVE ThreadInv(u)'
  <2>1. \A k \in Locks : u # t \/ k # from[t] => (u \in own'[k] <=> u \in own[k])
    BY <1>0 DEF TypeOK
  <2> QED
    BY <1>0, <2>1 DEF ThreadInv, TypeOK, Asking, Switching, Waiting
<1> QED
  BY <1>1, <1>2, <1>3

(* _mutex_unlock() under the spinlock hands the mutex to the first waiter, *)
(* or leaves it without holder.                                            *)
LEMMA DebugUnlockSection ==
  ASSUME KDEBUG, DebugInv, NEW t \in Threads, NEW l \in Locks,
         NEW next \in {"idle", "switch_lock"},
         \/ pc[t] = "unlock" /\ l = at[t] /\ next = "idle"
         \/ pc[t] = "switch_unlock_slow" /\ l = from[t] /\ next = "switch_lock",
         UnlockSection(t, l, next), UNCHANGED <<count, spin, destroyed, at, from>>
  PROVE  DebugInv'
<1> USE DEF DebugInv, Goto, HolderAfterUnlock
<1>0. /\ t \in Unlocking(l) /\ waiters[l] \in Seq(Threads)
      /\ UNCHANGED waiter_thread
  BY DEF Unlocking, TypeOK, UnlockSection
<1>1. CASE holder[l] # t
  <2>1. UNCHANGED <<holder, released, waiters, wait, own>> /\ Goto(t, "panic")
    BY <1>1 DEF UnlockSection
  <2>2. destroyed[l] /\ pc[t] = "unlock"
    BY <1>0, <1>1 DEF LockInv, ThreadInv, Switching
  <2>3. TypeOK'
    BY <1>0, <2>1 DEF TypeOK, Labels
  <2>4. ASSUME NEW k \in Locks PROVE LockInv(k)'
    <3>1. ~destroyed[k] => Unlocking(k)' = Unlocking(k)
      BY <2>1, <2>2 DEF Unlocking, TypeOK
    <3>2. \A u \in Threads : Sleeper(u, k) => Sleeper(u, k)'
      BY <1>0, <2>1, <2>2 DEF TypeOK, Waiting, Sleeper
    <3> QED
      BY <2>1, <3>1, <3>2, LockFrame
  <2>5. ASSUME NEW u \in Threads PROVE ThreadInv(u)'
    BY <1>0, <2>1, <2>2 DEF ThreadInv, TypeOK, Asking, Switching, Waiting
  <2> QED
    BY <2>3, <2>4, <2>5
<1>2. CASE holder[l] = t /\ waiters[l] # <<>>
  <2> DEFINE h == Head(waiters[l])
  <2>1. /\ Goto(t, next)
        /\ waiters' = [waiters EXCEPT ![l] = Tail(@)]
        /\ holder' = [holder EXCEPT ![l] = h]
        /\ wait' = thread_unblock(wait, {h}, B_OK)
        /\ own' = [own EXCEPT ![l] = (@ \ {t}) \cup {h}]
        /\ UNCHANGED released
    BY <1>2 DEF UnlockSection
  <2>2. /\ waiters'[l] = Tail(waiters[l])
        /\ \A k \in Locks : k # l => waiters'[k] = waiters[k]
    BY <2>1 DEF TypeOK
  <2>3. /\ waiters'[l] \in Seq(Threads)
        /\ h \in Range(waiters[l])
        /\ Range(waiters[l]) = Range(waiters'[l]) \cup {h}
        /\ IsInjective(waiters'[l]) /\ h \notin Range(waiters'[l])
    BY <1>0, <1>2, <2>2, TailMembers DEF LockInv
  <2>4. h \in Threads /\ Sleeper(h, l) /\ h # t
    BY <2>3, QueuesHoldThreads DEF LockInv, Sleeper, Waiting
  <2>5. /\ wait' \in [Threads -> WaitStatus]
        /\ \A u \in Threads : u # h => wait'[u] = wait[u]
        /\ wait'[h] \in {wait[h], B_OK}
    BY <2>1, <2>4 DEF TypeOK, thread_unblock, WaitStatus
  <2> HIDE DEF h
  <2>6. TypeOK'
    BY <1>0, <2>1, <2>3, <2>4, <2>5 DEF TypeOK, Labels, Touching
  <2>7. /\ Unlocking(l)' = Unlocking(l) \ {t}
        /\ \A k \in Locks : k # l => Unlocking(k)' = Unlocking(k)
    BY <2>1 DEF Unlocking, TypeOK
  <2>8. \A u \in Threads, k \in Locks : u # h /\ Sleeper(u, k) => Sleeper(u, k)'
    BY <1>0, <2>1, <2>5 DEF TypeOK, Waiting, Sleeper
  <2>9. LockInv(l)'
    <3>1. \A u \in Range(waiters'[l]) : Sleeper(u, l)'
      BY <2>3, <2>8, QueuesHoldThreads DEF LockInv
    <3>2. holder'[l] = h /\ own'[l] = (own[l] \ {t}) \cup {h}
      BY <2>1 DEF TypeOK
    <3>3. ~destroyed[l] => own'[l] = {h} /\ Unlocking(l)' = {}
      BY <1>2, <2>7, <3>2 DEF LockInv
    <3> QED
      BY <2>3, <2>4, <3>1, <3>2, <3>3, KernelMutexConstants DEF LockInv
  <2>10. ASSUME NEW k \in Locks, k # l PROVE LockInv(k)'
    <3>1. \A u \in Threads : Sleeper(u, k) => u # h
      BY <2>4, <2>10 DEF Sleeper
    <3> QED
      BY <2>1, <2>2, <2>7, <2>8, <2>10, <3>1, LockFrame DEF TypeOK
  <2>11. ASSUME NEW u \in Threads PROVE ThreadInv(u)'
    <3>1. CASE u = h
      BY <1>0, <2>1, <2>4, <2>5, <3>1
      DEF ThreadInv, Sleeper, TypeOK, Asking, Switching, Waiting, B_OK, B_ERROR
    <3>2. CASE u = t
      BY <1>0, <2>1, <2>4, <3>2
      DEF ThreadInv, TypeOK, Asking, Switching, Waiting
    <3>3. CASE u # h /\ u # t
      <4>1. \A k \in Locks : /\ u \in own'[k] <=> u \in own[k]
                            /\ u \in Range(waiters[k]) => u \in Range(waiters'[k])
        BY <2>1, <2>2, <2>3, <3>3 DEF TypeOK
      <4> QED
        BY <1>0, <2>1, <2>5, <3>3, <4>1
        DEF ThreadInv, TypeOK, Asking, Switching, Waiting
    <3> QED
      BY <3>1, <3>2, <3>3
  <2> QED
    BY <2>6, <2>9, <2>10, <2>11
<1>3. CASE holder[l] = t /\ waiters[l] = <<>>
  <2>1. /\ Goto(t, next)
        /\ holder' = [holder EXCEPT ![l] = NoThread]
        /\ own' = [own EXCEPT ![l] = @ \ {t}]
        /\ UNCHANGED <<released, waiters, wait>>
    BY <1>3 DEF UnlockSection
  <2>2. TypeOK'
    BY <1>0, <2>1 DEF TypeOK, Labels, Touching
  <2>3. /\ Unlocking(l)' = Unlocking(l) \ {t}
        /\ \A k \in Locks : k # l => Unlocking(k)' = Unlocking(k)
    BY <2>1 DEF Unlocking, TypeOK
  <2>4. \A u \in Threads, k \in Locks : Sleeper(u, k) => Sleeper(u, k)'
    BY <1>0, <2>1 DEF TypeOK, Waiting, Sleeper
  <2>5. LockInv(l)'
    <3>1. IsInjective(waiters[l]) /\ \A u \in Range(waiters[l]) : Sleeper(u, l)'
      BY <2>4, QueuesHoldThreads DEF LockInv
    <3>2. holder'[l] = NoThread /\ own'[l] = own[l] \ {t}
      BY <2>1 DEF TypeOK
    <3>3. ~destroyed[l] => own'[l] = {} /\ Unlocking(l)' = {}
      BY <1>3, <2>3, <3>2 DEF LockInv
    <3> QED
      BY <1>3, <2>1, <3>1, <3>2, <3>3, KernelMutexConstants DEF LockInv
  <2>6. ASSUME NEW k \in Locks, k # l PROVE LockInv(k)'
    BY <2>1, <2>3, <2>4, <2>6, LockFrame DEF TypeOK
  <2>7. ASSUME NEW u \in Threads PROVE ThreadInv(u)'
    <3>1. \A k \in Locks : u # t => (u \in own'[k] <=> u \in own[k])
      BY <2>1 DEF TypeOK
    <3>2. \A k \in Locks : own'[k] \subseteq own[k]
      BY <2>1 DEF TypeOK
    <3> QED
      BY <1>0, <2>1, <3>1, <3>2 DEF ThreadInv, TypeOK, Asking, Switching, Waiting
  <2> QED
    BY <2>2, <2>5, <2>6, <2>7
<1> QED
  BY <1>1, <1>2, <1>3

(* mutex_transfer_lock() makes another thread the holder                   *)
LEMMA DebugTransfer ==
  ASSUME KDEBUG, DebugInv, NEW t \in Threads, NEW l \in Locks, NEW v \in Threads,
         mutex_transfer_lock(t, l, v)
  PROVE  DebugInv'
<1> USE DEF DebugInv, HolderAfterUnlock, waitVars
<1>1. /\ pc[t] = "idle" /\ pc[v] = "idle" /\ v # t /\ t \in own[l] /\ ~destroyed[l]
      /\ UNCHANGED <<count, released, waiters, waiter_thread, wait, spin, destroyed, at, from>>
  BY DEF mutex_transfer_lock
<1>2. own[l] = {t} /\ holder[l] = t /\ Unlocking(l) = {}
  BY <1>1 DEF LockInv, TypeOK, Unlocking
<1>3. /\ holder' = [holder EXCEPT ![l] = v]
      /\ own' = [own EXCEPT ![l] = (@ \ {t}) \cup {v}]
      /\ UNCHANGED pc
  BY <1>2 DEF mutex_transfer_lock
<1>4. TypeOK'
  BY <1>1, <1>3 DEF TypeOK
<1>5. \A k \in Locks : Unlocking(k)' = Unlocking(k)
  BY <1>1, <1>3 DEF Unlocking
<1>6. \A u \in Threads, k \in Locks : Sleeper(u, k) => Sleeper(u, k)' /\ u # v
  BY <1>1, <1>3 DEF Sleeper, Waiting
<1>7. LockInv(l)'
  <2>1. /\ IsInjective(waiters[l]) /\ v \notin Range(waiters[l])
        /\ \A u \in Range(waiters[l]) : Sleeper(u, l)'
    BY <1>6, QueuesHoldThreads DEF LockInv
  <2>2. holder'[l] = v /\ own'[l] = {v}
    BY <1>2, <1>3 DEF TypeOK
  <2> QED
    BY <1>1, <1>2, <1>5, <2>1, <2>2, KernelMutexConstants DEF LockInv
<1>8. ASSUME NEW k \in Locks, k # l PROVE LockInv(k)'
  BY <1>1, <1>3, <1>5, <1>6, <1>8, LockFrame DEF TypeOK
<1>9. ASSUME NEW u \in Threads PROVE ThreadInv(u)'
  <2>1. CASE u \in {t, v}
    BY <1>1, <1>3, <2>1 DEF ThreadInv, Asking, Switching, Waiting
  <2>2. CASE u \notin {t, v}
    <3>1. \A k \in Locks : u \in own'[k] <=> u \in own[k]
      BY <1>3, <2>2 DEF TypeOK
    <3> QED
      BY <1>1, <1>3, <3>1 DEF ThreadInv, TypeOK
  <2> QED
    BY <2>1, <2>2
<1> QED
  BY <1>1, <1>4, <1>7, <1>8, <1>9

(* mutex_switch_lock() takes the spinlock of "to"                          *)
LEMMA DebugSwitch ==
  ASSUME KDEBUG, DebugInv, NEW t \in Threads, NEW a \in Locks, NEW b \in Locks,
         mutex_switch_lock(t, a, b)
  PROVE  DebugInv'
<1> USE DEF DebugInv, mutex_switch_lock, SpinWhileSwitching, waitVars, mutexVars, Goto
<1>1. TypeOK'
  BY DEF TypeOK, Labels, Touching
<1>2. ASSUME NEW k \in Locks PROVE LockInv(k)'
  <2>1. Unlocking(k)' = Unlocking(k)
    BY DEF Unlocking, TypeOK
  <2>2. \A u \in Threads : Sleeper(u, k) => Sleeper(u, k)'
    BY DEF TypeOK, Waiting, Sleeper
  <2> QED
    BY <2>1, <2>2, LockFrame
<1>3. ASSUME NEW u \in Threads PROVE ThreadInv(u)'
  BY DEF ThreadInv, TypeOK, Asking, Switching, Waiting
<1> QED
  BY <1>1, <1>2, <1>3

(* mutex_destroy() ends the claims of the invariant about the mutex; who   *)
(* waited for it is not in its queue any more.                             *)
LEMMA DebugDestroy ==
  ASSUME KDEBUG, DebugInv, NEW t \in Threads, NEW l \in Locks, mutex_destroy(t, l)
  PROVE  DebugInv'
<1> USE DEF DebugInv
<1>1. /\ pc[t] = "idle" /\ ~destroyed[l] /\ (t \in own[l] \/ Unused(l))
      /\ waiters' = [waiters EXCEPT ![l] = <<>>]
      /\ waiter_thread' = [u \in Threads |-> waiter_thread[u] /\ u \notin Range(waiters[l])]
      /\ wait' = thread_unblock(wait, Range(waiters[l]), B_ERROR)
      /\ holder' = [holder EXCEPT ![l] = DeadThread]
      /\ released' = [released EXCEPT ![l] = FALSE]
      /\ destroyed' = [destroyed EXCEPT ![l] = TRUE]
      /\ own' = [own EXCEPT ![l] = {}]
      /\ UNCHANGED <<count, spin, pc, at, from>>
  BY DEF mutex_destroy
<1>2. /\ waiters'[l] = <<>> /\ \A k \in Locks : k # l => waiters'[k] = waiters[k]
      /\ waiters' \in [Locks -> Seq(Threads)]
  BY <1>1 DEF TypeOK
<1>3. /\ wait' \in [Threads -> WaitStatus]
      /\ \A u \in Threads : u \notin Range(waiters[l]) => wait'[u] = wait[u]
  BY <1>1 DEF TypeOK, thread_unblock, WaitStatus
<1>4. TypeOK'
  BY <1>1, <1>2, <1>3 DEF TypeOK
<1>5. \A k \in Locks : Unlocking(k)' = Unlocking(k)
  BY <1>1 DEF Unlocking
<1>6. \A u \in Range(waiters[l]) : at[u] = l /\ u \in Threads /\ pc[u] \in Waiting
  BY QueuesHoldThreads DEF LockInv, Sleeper
<1>7. \A u \in Threads, k \in Locks : k # l /\ Sleeper(u, k) => Sleeper(u, k)'
  BY <1>1, <1>3, <1>6 DEF Sleeper
<1>8. LockInv(l)'
  <2>1. destroyed'[l]
    BY <1>1 DEF TypeOK
  <2> QED
    BY <1>2, <2>1 DEF LockInv, IsInjective, Range
<1>9. ASSUME NEW k \in Locks, k # l PROVE LockInv(k)'
  BY <1>1, <1>2, <1>5, <1>7, <1>9, LockFrame DEF TypeOK
<1>10. ASSUME NEW u \in Threads PROVE ThreadInv(u)'
  <2>1. \A k \in Locks : k # l => own'[k] = own[k] /\ (destroyed'[k] <=> destroyed[k])
    BY <1>1 DEF TypeOK
  <2>2. destroyed'[l]
    BY <1>1 DEF TypeOK
  <2>3. pc[u] \in Switching => from[u] # l
    <3> SUFFICES ASSUME pc[u] \in Switching, from[u] = l PROVE FALSE
      OBVIOUS
    <3>1. u \in own[l] \cup Unlocking(l) /\ pc[u] # "idle" /\ u # t
      BY <1>1 DEF ThreadInv, Unlocking, Switching
    <3>2. ~Unused(l)
      BY <3>1 DEF Unused
    <3> QED
      BY <1>1, <3>1, <3>2 DEF LockInv
  <2>4. at[u] # l => waiter_thread'[u] = waiter_thread[u] /\ wait'[u] = wait[u]
    BY <1>1, <1>3, <1>6 DEF TypeOK
  <2>5. at[u] \in Locks /\ from[u] \in Locks
    BY DEF TypeOK
  <2>6. CASE at[u] = l
    BY <1>1, <2>1, <2>2, <2>3, <2>5, <2>6 DEF ThreadInv, Switching
  <2>7. CASE at[u] # l
    BY <1>1, <1>2, <2>1, <2>3, <2>4, <2>5, <2>7 DEF ThreadInv, Switching
  <2> QED
    BY <2>6, <2>7
<1> QED
  BY <1>1, <1>4, <1>8, <1>9, <1>10

-----------------------------------------------------------------------------
(* Every step of the KDEBUG build preserves the invariant.                 *)
LEMMA DebugStep ==
  ASSUME KDEBUG, DebugInv, [Next]_vars
  PROVE  DebugInv'
<1>1. CASE UNCHANGED vars
  BY <1>1 DEF vars, DebugInv, TypeOK, LockInv, ThreadInv, Sleeper, Unlocking
<1>2. ASSUME NEW t \in Threads, NEW l \in Locks, Call(t, l)
      PROVE  DebugInv'
  <2>1. CASE mutex_lock(t, l)
    BY <2>1, DebugStartLock DEF mutex_lock
  <2>2. CASE mutex_lock_with_timeout(t, l)
    BY <2>2, DebugStartLock DEF mutex_lock_with_timeout
  <2>3. CASE mutex_trylock(t, l)
    BY <2>3, DebugTryLock
  <2>4. CASE mutex_unlock(t, l)
    BY <2>4, DebugUnlock
  <2>5. CASE \E u \in Threads : mutex_transfer_lock(t, l, u)
    BY <2>5, DebugTransfer
  <2>6. CASE \E k \in Locks : mutex_switch_lock(t, l, k)
    BY <2>6, DebugSwitch
  <2>7. CASE mutex_destroy(t, l)
    BY <2>7, DebugDestroy
  <2> QED
    BY <1>2, <2>1, <2>2, <2>3, <2>4, <2>5, <2>6, <2>7 DEF Call
<1>3. ASSUME NEW t \in Threads, Continue(t)
      PROVE  DebugInv'
  <2>0. /\ at[t] \in Locks /\ from[t] \in Locks
        /\ spin \in [Locks -> Threads \cup {NoThread}]
    BY DEF DebugInv, TypeOK
  <2>1. CASE _mutex_lock(t)
    BY <2>0, <2>1, DebugLockSection DEF _mutex_lock
  <2>2. CASE _mutex_lock_with_timeout(t)
    BY <2>2, DebugTimedLock
  <2>3. CASE WaitReturn(t) \/ TimedReturn(t)
    BY <2>3, DebugWaitReturn
  <2>4. CASE Timeout(t)
    BY <2>4, DebugTimeout
  <2>5. CASE TimedDequeue(t)
    BY <2>5, DebugTimedDequeue
  <2>6. CASE _mutex_unlock(t)
    BY <2>0, <2>6, DebugUnlockSection DEF _mutex_unlock
  <2>7. CASE SwitchUnlock(t)
    <3>1. CASE pc[t] = "switch_unlock"
      BY <2>7, <3>1, DebugSwitchUnlock DEF SwitchUnlock, waitVars
    <3>2. CASE pc[t] = "switch_unlock_slow"
      BY <2>0, <2>7, <3>2, DebugUnlockSection DEF SwitchUnlock
    <3> QED
      BY <2>7, <3>1, <3>2 DEF SwitchUnlock
  <2>8. CASE SwitchLock(t)
    <3>1. /\ spin' \in [Locks -> Threads \cup {NoThread}]
          /\ LockSection(t, at[t]) /\ pc[t] = "switch_lock"
          /\ UNCHANGED <<count, destroyed, at, from>>
      BY <2>0, <2>8 DEF SwitchLock, CountAfterLock
    <3> QED
      BY <3>1, DebugLockSection
  <2> QED
    BY <1>3, <2>1, <2>2, <2>3, <2>4, <2>5, <2>6, <2>7, <2>8 DEF Continue
<1> QED
  BY <1>1, <1>2, <1>3 DEF Next

(* The invariant holds throughout in a KDEBUG build.                       *)
THEOREM DebugInvariant ==
  ASSUME KDEBUG
  PROVE  Spec => []DebugInv
<1>1. Init => DebugInv
  BY DebugInitially
<1>2. DebugInv /\ [Next]_vars => DebugInv'
  BY DebugStep
<1> QED
  BY <1>1, <1>2, PTL DEF Spec

(* The variables of the KDEBUG build stay within their types.              *)
THEOREM DebugTypeOK ==
  ASSUME KDEBUG
  PROVE  Spec => []TypeOK
<1>1. DebugInv => TypeOK
  BY DEF DebugInv
<1> QED
  BY <1>1, DebugInvariant, PTL

(* A mutex of the KDEBUG build never has two owners, whatever timeouts,    *)
(* transfers, switches, trylocks and destructions there are: the handover  *)
(* of lock->holder in _mutex_unlock() and the test of                      *)
(* _mutex_lock_with_timeout() after a timeout agree.                       *)
THEOREM DebugMutualExclusion ==
  ASSUME KDEBUG
  PROVE  Spec => []MutualExclusion
<1>1. DebugInv => MutualExclusion
  BY DEF DebugInv, LockInv, MutualExclusion
<1> QED
  BY <1>1, DebugInvariant, PTL

(* No wakeup is lost in the KDEBUG build: a mutex with a queue has an      *)
(* owner, or an unlocker that will serve the queue.                        *)
THEOREM DebugNoStrandedWaiter ==
  ASSUME KDEBUG
  PROVE  Spec => []NoStrandedWaiter
<1>1. DebugInv => NoStrandedWaiter
  BY DEF DebugInv, LockInv, NoStrandedWaiter
<1> QED
  BY <1>1, DebugInvariant, PTL

(* A thread that gets to a panic does so on a destroyed mutex, or on one   *)
(* whose holder is 0.                                                      *)
LEMMA DebugPanicSteps ==
  ASSUME KDEBUG, DebugInv, [Next]_vars, NEW t \in Threads,
         pc[t] # "panic", pc'[t] = "panic"
  PROVE  destroyed[at'[t]] \/ holder[at'[t]] = ZeroThread
<1> USE DEF DebugInv
<1>0. at[t] \in Locks /\ from[t] \in Locks /\ LockInv(at[t]) /\ ThreadInv(t)
  BY DEF TypeOK
<1>1. \E u \in Threads : Continue(u) \/ \E l \in Locks : Call(u, l)
  BY DEF Next, vars
<1>2. ASSUME NEW u \in Threads, NEW l \in Locks, Call(u, l)
      PROVE  destroyed[at'[t]] \/ holder[at'[t]] = ZeroThread
  <2>1. CASE mutex_lock(u, l) \/ mutex_lock_with_timeout(u, l)
    BY <2>1 DEF mutex_lock, mutex_lock_with_timeout, StartLock, Goto, TypeOK
  <2>2. CASE mutex_trylock(u, l)
    BY <2>2 DEF mutex_trylock, Goto, TypeOK
  <2>3. CASE mutex_unlock(u, l)
    BY <2>3 DEF mutex_unlock, StartUnlock, Goto, TypeOK
  <2>4. CASE \E v \in Threads : mutex_transfer_lock(u, l, v)
    BY <2>4 DEF mutex_transfer_lock, Goto, TypeOK, LockInv
  <2>5. CASE \E k \in Locks : mutex_switch_lock(u, l, k)
    BY <2>5 DEF mutex_switch_lock, Goto, TypeOK
  <2>6. CASE mutex_destroy(u, l)
    BY <2>6 DEF mutex_destroy
  <2> QED
    BY <1>2, <2>1, <2>2, <2>3, <2>4, <2>5, <2>6 DEF Call
<1>3. ASSUME NEW u \in Threads, Continue(u)
      PROVE  destroyed[at'[t]] \/ holder[at'[t]] = ZeroThread
  <2>0. at' = at
    BY <1>3 DEF Continue, _mutex_lock, _mutex_lock_with_timeout, WaitReturn,
                Timeout, TimedReturn, TimedDequeue, _mutex_unlock, SwitchUnlock,
                SwitchLock
  <2>1. CASE /\ pc[u] \in {"lock", "switch_lock"} /\ LockSection(u, at[u])
    <3>1. t = u /\ holder[at[t]] \in {t, DeadThread}
      BY <2>1 DEF LockSection, Take, Enqueue, Goto, TypeOK
    <3> QED
      BY <1>0, <2>0, <2>1, <3>1 DEF LockInv, ThreadInv, Asking, Unlocking
  <2>2. CASE _mutex_lock_with_timeout(u)
    <3>1. t = u /\ pc[t] = "timed_lock" /\ holder[at[t]] \in {t, ZeroThread}
      BY <2>2 DEF _mutex_lock_with_timeout, Take, Enqueue, Goto, TypeOK
    <3> QED
      BY <1>0, <2>0, <3>1 DEF LockInv, ThreadInv, Asking, Unlocking
  <2>3. CASE WaitReturn(u) \/ TimedReturn(u) \/ Timeout(u)
    BY <2>3 DEF WaitReturn, TimedReturn, Timeout, Goto, TypeOK
  <2>4. CASE TimedDequeue(u)
    <3>1. t = u /\ pc[t] = "timed_dequeue" /\ ~waiter_thread[t]
      BY <2>4 DEF TimedDequeue, Goto, TypeOK
    <3> QED
      BY <1>0, <2>0, <3>1 DEF ThreadInv, Waiting
  <2>5. CASE _mutex_unlock(u)
    <3>1. t = u /\ pc[t] = "unlock" /\ holder[at[t]] # t
      BY <2>5 DEF _mutex_unlock, UnlockSection, Goto, TypeOK
    <3> QED
      BY <1>0, <2>0, <3>1 DEF LockInv, Unlocking
  <2>6. CASE SwitchUnlock(u)
    <3>1. t = u /\ pc[t] = "switch_unlock_slow" /\ holder[from[t]] # t
      BY <2>6 DEF SwitchUnlock, StartUnlock, UnlockSection, Goto, TypeOK
    <3> QED
      BY <1>0, <3>1 DEF LockInv, ThreadInv, Unlocking, Switching
  <2> QED
    BY <1>3, <2>1, <2>2, <2>3, <2>4, <2>5, <2>6
    DEF Continue, _mutex_lock, SwitchLock
<1> QED
  BY <1>1, <1>2, <1>3

(* In the KDEBUG build the ASSERTs of lock.cpp hold while the mutex is not *)
(* destroyed, and with any mutexes from MUTEX_INITIALIZER among the others, a panic   *)
(* fires only when a timed or a trying call finds the holder 0 of one that *)
(* was never used.                                                         *)
THEOREM DebugAssertionsHold ==
  ASSUME KDEBUG
  PROVE  Spec => AssertionsHold
<1>1. DebugInv => (KDEBUG => Assertions)
  <2> SUFFICES ASSUME DebugInv, NEW t \in Threads, ~destroyed[at[t]]
               PROVE  /\ pc[t] = "unlock" => holder[at[t]] = t
                      /\ pc[t] \in {"wait", "timed_wait"} /\ wait[t] = B_OK =>
                           holder[at[t]] = t
                      /\ pc[t] = "timed_dequeue" =>
                           holder[at[t]] = t \/ t \in Range(waiters[at[t]])
                      /\ pc[t] = "wait" /\ wait[t] = B_ERROR => ~waiter_thread[t]
    BY DEF Assertions
  <2>1. at[t] \in Locks /\ LockInv(at[t]) /\ ThreadInv(t)
    BY DEF DebugInv, TypeOK
  <2>2. pc[t] = "unlock" => holder[at[t]] = t
    BY <2>1 DEF LockInv, Unlocking
  <2>3. pc[t] \in {"wait", "timed_wait"} /\ wait[t] = B_OK => holder[at[t]] = t
    BY <2>1 DEF LockInv, ThreadInv, Sleeper, Waiting
  <2>4. pc[t] = "timed_dequeue" => holder[at[t]] = t \/ t \in Range(waiters[at[t]])
    BY <2>1 DEF LockInv, ThreadInv, Waiting
  <2>5. pc[t] = "wait" /\ wait[t] = B_ERROR => ~waiter_thread[t]
    BY <2>1 DEF ThreadInv, Waiting
  <2> QED
    BY <2>2, <2>3, <2>4, <2>5
<1>2. DebugInv /\ [Next]_vars => [KDEBUG => PanicStep]_vars
  BY DebugPanicSteps DEF PanicStep
<1> QED
  BY <1>1, <1>2, DebugInvariant, PTL DEF Spec, AssertionsHold

=============================================================================
