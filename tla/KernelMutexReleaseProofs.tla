---------------------- MODULE KernelMutexReleaseProofs ----------------------
(***************************************************************************)
(* Proofs about KernelMutex as a release build compiles it: for any number *)
(* of threads, mutexes and guards, without mutex_lock_with_timeout(),      *)
(* which does not keep mutual exclusion in such a build.                   *)
(***************************************************************************)
EXTENDS KernelMutex, QueueLemmas

ReleaseBuild == ~KDEBUG /\ TimedLockers = {}

(* Inside mutex_switch_lock() *)
SwitchLabels == Switching \cup {"switch_lock"}
TimedLabels == {"timed_lock", "timed_wait", "timed_dequeue"}

(* Everybody whom an atomic_add on count stands for *)
Interested(l) == own[l] \cup Arriving(l) \cup Range(waiters[l])

(* Where the mutex is: with its owner, or with an unlocker *)
Keepers(l) == own[l] \cup Unlocking(l)

(* A mutex that is in use is in at most one place, and in one exactly if   *)
(* count < 0; the queue holds sleeping threads, once each.                 *)
LockInv(l) ==
  /\ IsInjective(waiters[l])
  /\ \A t \in Range(waiters[l]) :
       pc[t] = "wait" /\ at[t] = l /\ wait[t] = Blocked /\ t \notin own[l]
  /\ released[l] => waiters[l] = <<>> /\ Keepers(l) = {}
  /\ \A t, u \in Keepers(l) : t = u
  /\ own[l] \cap Unlocking(l) = {}
  /\ destroyed[l] => Keepers(l) = {} /\ ~released[l]
  /\ ~destroyed[l] => /\ count[l] = -Cardinality(Interested(l))
                      /\ count[l] < 0 <=> released[l] \/ Keepers(l) # {}

(* What a thread may rely on at each label: it does not own what it asks   *)
(* for, holds the guards of what it locks, and keeps the spinlock of what  *)
(* it switches to.                                                         *)
ThreadInv(t) ==
  /\ pc[t] \notin TimedLabels \cup {"panic"}
  /\ pc[t] = "lock" =>
       /\ t \notin own[at[t]]
       /\ \A p \in GuardedBy : p[1] = at[t] => t \in own[p[2]] /\ ~destroyed[p[1]]
  /\ pc[t] \in SwitchLabels =>
       /\ spin[at[t]] = t /\ ~destroyed[at[t]]
       /\ t \notin own[at[t]] /\ from[t] # at[t]
  /\ pc[t] = "switch_unlock" => t \in own[from[t]]

Types ==
  /\ holder \in [Locks -> Threads \cup {NoThread, ZeroThread, DeadThread}]
  /\ count \in [Locks -> Int]
  /\ released \in [Locks -> BOOLEAN]
  /\ waiters \in [Locks -> Seq(Threads)]
  /\ waiter_thread \in [Threads -> BOOLEAN]
  /\ wait \in [Threads -> WaitStatus]
  /\ spin \in [Locks -> Threads \cup {NoThread}]
  /\ destroyed \in [Locks -> BOOLEAN]
  /\ pc \in [Threads -> Labels]
  /\ at \in [Threads -> Locks] /\ from \in [Threads -> Locks]
  /\ own \in [Locks -> SUBSET Threads]

(* The inductive invariant of the release build *)
ReleaseInv ==
  /\ Types
  /\ \A l \in Locks : LockInv(l)
  /\ \A t \in Threads : ThreadInv(t)

-----------------------------------------------------------------------------
(* Queues consist of threads. *)
LEMMA QueuesHoldThreads ==
  ASSUME Types, NEW l \in Locks
  PROVE  waiters[l] \in Seq(Threads) /\ Range(waiters[l]) \subseteq Threads
<1>1. waiters[l] \in Seq(Threads)
  BY DEF Types
<1> QED
  BY <1>1, RangeOfSeq

(* The threads that count stands for are finitely many, so that one more   *)
(* or one less of them is one more or one less in Cardinality.             *)
LEMMA InterestedFinite ==
  ASSUME Types, NEW l \in Locks
  PROVE  /\ Interested(l) \subseteq Threads
         /\ IsFiniteSet(Interested(l))
         /\ Cardinality(Interested(l)) \in 0 .. Cardinality(Threads)
         /\ Cardinality(Threads) \in Nat
         /\ Cardinality(Interested(l)) = 0 <=> Interested(l) = {}
<1>1. Interested(l) \subseteq Threads
  BY QueuesHoldThreads DEF Types, Interested, Arriving
<1>2. /\ IsFiniteSet(Interested(l))
      /\ Cardinality(Interested(l)) <= Cardinality(Threads)
  BY <1>1, KernelMutexCapacity, FS_Subset
<1>3. Cardinality(Threads) \in Nat /\ Cardinality(Interested(l)) \in Nat
  BY <1>2, KernelMutexCapacity, FS_CardinalityType
<1>4. Cardinality(Interested(l)) = 0 <=> Interested(l) = {}
  BY <1>2, FS_EmptySet
<1> QED
  BY <1>1, <1>2, <1>3, <1>4

(* One more thread asks for the mutex, and count goes down by one.         *)
LEMMA OneMoreInterested ==
  ASSUME Types, NEW l \in Locks, NEW t, t \notin Interested(l),
         Interested(l)' = Interested(l) \cup {t},
         count[l] = -Cardinality(Interested(l)), count'[l] = count[l] - 1
  PROVE  count'[l] = -Cardinality(Interested(l)')
<1>1. Cardinality(Interested(l)') = Cardinality(Interested(l)) + 1
  BY InterestedFinite, FS_AddElement
<1> QED
  BY <1>1, InterestedFinite

(* One thread is done with the mutex, and count goes up by one.            *)
LEMMA OneLessInterested ==
  ASSUME Types, NEW l \in Locks, NEW t, t \in Interested(l),
         Interested(l)' = Interested(l) \ {t},
         count[l] = -Cardinality(Interested(l)), count'[l] = count[l] + 1
  PROVE  count'[l] = -Cardinality(Interested(l)')
<1>1. Cardinality(Interested(l)') = Cardinality(Interested(l)) - 1
  BY InterestedFinite, FS_RemoveElement
<1> QED
  BY <1>1, InterestedFinite

(* A mutex keeps its invariant through a step that leaves it alone.        *)
LEMMA LockFrame ==
  ASSUME ReleaseInv, NEW k \in Locks,
         own'[k] = own[k], waiters'[k] = waiters[k], count'[k] = count[k],
         destroyed'[k] = destroyed[k], released'[k] = released[k],
         Arriving(k)' = Arriving(k), Unlocking(k)' = Unlocking(k),
         \A u \in Range(waiters[k]) :
           pc'[u] = "wait" /\ at'[u] = k /\ wait'[u] = Blocked
  PROVE  LockInv(k)'
BY DEF LockInv, ReleaseInv, Interested, Keepers

(* A thread keeps its invariant through a step of another one that does    *)
(* not change what it owns.                                                *)
LEMMA ThreadFrame ==
  ASSUME ReleaseInv, NEW u \in Threads,
         pc'[u] = pc[u], at'[u] = at[u], from'[u] = from[u],
         \A k \in Locks : destroyed'[k] = destroyed[k],
         spin[at[u]] = u => spin'[at[u]] = u,
         pc[u] \in {"idle", "wait"} \/ \A k \in Locks : u \in own'[k] <=> u \in own[k]
  PROVE  ThreadInv(u)'
<1>1. \A p \in GuardedBy : p[1] \in Locks /\ p[2] \in Locks
  BY KernelMutexConstants
<1>2. at[u] \in Locks /\ from[u] \in Locks
  BY DEF ReleaseInv, Types
<1> QED
  BY <1>1, <1>2 DEF ReleaseInv, ThreadInv, SwitchLabels, Switching, TimedLabels

(* mutex_init() establishes the invariant.                                 *)
LEMMA ReleaseInitially ==
  ASSUME ReleaseBuild
  PROVE  Init => ReleaseInv
<1> SUFFICES ASSUME Init PROVE ReleaseInv
  OBVIOUS
<1> USE KernelMutexConstants DEF Init
<1>1. PICK l0 \in Locks : at = [t \in Threads |-> l0]
  <2> DEFINE l0 == CHOOSE l \in Locks : TRUE
  <2>1. l0 \in Locks
    OBVIOUS
  <2>2. at = [t \in Threads |-> l0]
    BY Zenon
  <2> QED
    BY <2>1, <2>2
<1>2. Types
  BY <1>1 DEF Types, WaitStatus, Labels, Touching
<1>3. ASSUME NEW l \in Locks PROVE LockInv(l)
  <2>1. Interested(l) = {} /\ Keepers(l) = {} /\ Unlocking(l) = {}
    BY DEF Interested, Keepers, Arriving, Unlocking, Range
  <2>2. Cardinality(Interested(l)) = 0
    BY <2>1, FS_EmptySet
  <2> QED
    BY <2>1, <2>2 DEF LockInv, IsInjective, Range
<1>4. ASSUME NEW t \in Threads PROVE ThreadInv(t)
  BY DEF ThreadInv, SwitchLabels, Switching, TimedLabels
<1> QED
  BY <1>2, <1>3, <1>4 DEF ReleaseInv

(* A step in which t comes to own l, or not, is typed.                     *)
LEMMA OwnTyped ==
  ASSUME Types, NEW l \in Locks, NEW S \in SUBSET Threads,
         own' = [own EXCEPT ![l] = S]
  PROVE  own' \in [Locks -> SUBSET Threads]
BY DEF Types

(* mutex_lock() or mutex_trylock() with the mutex: count was 0.            *)
LEMMA ReleaseFastLock ==
  ASSUME ReleaseBuild, ReleaseInv, NEW t \in Threads, NEW l \in Locks,
         MayAcquire(t, l), ~(count[l] < 0),
         count' = [count EXCEPT ![l] = count[l] - 1],
         own' = [own EXCEPT ![l] = own[l] \cup {t}],
         at' = [at EXCEPT ![t] = l],
         UNCHANGED <<holder, released, waitVars, spin, destroyed, from, pc>>
  PROVE  ReleaseInv'
<1> USE DEF ReleaseInv
<1>0. pc[t] = "idle" /\ t \notin own[l] /\ ~destroyed[l]
  BY DEF MayAcquire
<1> USE DEF waitVars
<1>1. Types'
  BY OwnTyped DEF Types
<1>2. \A k \in Locks : Unlocking(k)' = Unlocking(k) /\ Arriving(k)' = Arriving(k)
  BY <1>0 DEF Types, Unlocking, Arriving
<1>3. \A k \in Locks : \A u \in Range(waiters[k]) :
        pc'[u] = "wait" /\ at'[u] = k /\ wait'[u] = Blocked
  BY <1>0, QueuesHoldThreads DEF LockInv, Types
<1>4. LockInv(l)'
  <2>1. t \notin Interested(l)
    BY <1>0 DEF LockInv, Interested, Arriving
  <2>2. own'[l] = own[l] \cup {t} /\ count'[l] = count[l] - 1 /\ count[l] \in Int
    BY DEF Types
  <2>3. count'[l] = -Cardinality(Interested(l)')
    <3>1. Interested(l)' = Interested(l) \cup {t}
      BY <1>2, <2>2 DEF Interested
    <3>2. count[l] = -Cardinality(Interested(l))
      BY <1>0 DEF LockInv
    <3> QED
      BY <2>1, <2>2, <3>1, <3>2, OneMoreInterested
  <2>4. count'[l] < 0
    BY <1>0, <2>2, InterestedFinite DEF LockInv
  <2>5. own[l] = {} /\ Unlocking(l) = {} /\ ~released[l]
    BY <1>0 DEF LockInv, Keepers
  <2>6. t \notin Range(waiters[l])
    BY <2>1 DEF Interested
  <2>7. own'[l] = {t} /\ Keepers(l)' = {t} /\ ~released'[l]
    BY <1>2, <2>2, <2>5 DEF Keepers
  <2> QED
    BY <1>0, <1>2, <1>3, <2>3, <2>4, <2>5, <2>6, <2>7 DEF LockInv
<1>5. ASSUME NEW k \in Locks, k # l PROVE LockInv(k)'
  BY <1>2, <1>3, <1>5, LockFrame DEF Types
<1>6. ASSUME NEW u \in Threads PROVE ThreadInv(u)'
  <2>1. CASE u = t
    BY <1>0, <2>1 DEF ThreadInv, SwitchLabels, Switching, TimedLabels
  <2>2. CASE u # t
    <3>1. \A k \in Locks : u \in own'[k] <=> u \in own[k]
      BY <2>2 DEF Types
    <3> QED
      BY <2>2, <3>1, ThreadFrame DEF Types
  <2> QED
    BY <2>1, <2>2
<1> QED
  BY <1>1, <1>4, <1>5, <1>6

(* mutex_lock() that finds the mutex taken, and goes for the spinlock      *)
LEMMA ReleaseSlowLock ==
  ASSUME ReleaseBuild, ReleaseInv, NEW t \in Threads, NEW l \in Locks,
         MayAcquire(t, l), count[l] < 0,
         count' = [count EXCEPT ![l] = count[l] - 1],
         pc' = [pc EXCEPT ![t] = "lock"],
         at' = [at EXCEPT ![t] = l],
         UNCHANGED <<holder, released, waitVars, spin, destroyed, from, own>>
  PROVE  ReleaseInv'
<1> USE DEF ReleaseInv
<1>0. /\ pc[t] = "idle" /\ t \notin own[l] /\ ~destroyed[l]
      /\ \A p \in GuardedBy : p[1] = l => t \in own[p[2]]
  BY DEF MayAcquire
<1> USE DEF waitVars
<1>1. Types'
  BY DEF Types, Labels, Touching
<1>2. \A k \in Locks : Unlocking(k)' = Unlocking(k) /\ (k # l => Arriving(k)' = Arriving(k))
  BY <1>0 DEF Types, Unlocking, Arriving
<1>3. \A k \in Locks : \A u \in Range(waiters[k]) :
        pc'[u] = "wait" /\ at'[u] = k /\ wait'[u] = Blocked
  BY <1>0, QueuesHoldThreads DEF LockInv, Types
<1>4. LockInv(l)'
  <2>1. t \notin Interested(l)
    BY <1>0 DEF LockInv, Interested, Arriving
  <2>2. count'[l] = count[l] - 1 /\ count[l] \in Int
    BY DEF Types
  <2>3. Arriving(l)' = Arriving(l) \cup {t}
    BY DEF Types, Arriving
  <2>4. count'[l] = -Cardinality(Interested(l)')
    <3>1. Interested(l)' = Interested(l) \cup {t}
      BY <2>3 DEF Interested
    <3>2. count[l] = -Cardinality(Interested(l))
      BY <1>0 DEF LockInv
    <3> QED
      BY <2>1, <2>2, <3>1, <3>2, OneMoreInterested
  <2> QED
    BY <1>0, <1>2, <1>3, <2>2, <2>4 DEF LockInv, Keepers
<1>5. ASSUME NEW k \in Locks, k # l PROVE LockInv(k)'
  BY <1>2, <1>3, <1>5, LockFrame DEF Types
<1>6. ASSUME NEW u \in Threads PROVE ThreadInv(u)'
  <2>1. CASE u = t
    BY <1>0, <2>1 DEF ThreadInv, Types, SwitchLabels, Switching, TimedLabels
  <2>2. CASE u # t
    BY <2>2, ThreadFrame DEF Types
  <2> QED
    BY <2>1, <2>2
<1> QED
  BY <1>1, <1>4, <1>5, <1>6

(* mutex_lock() up to the spinlock: the atomic_add                         *)
LEMMA ReleaseStartLock ==
  ASSUME ReleaseBuild, ReleaseInv, NEW t \in Threads, NEW l \in Locks,
         mutex_lock(t, l)
  PROVE  ReleaseInv'
<1>1. CASE count[l] < 0
  BY <1>1, ReleaseSlowLock
     DEF ReleaseBuild, mutex_lock, StartLock, CountAfterLock, Goto
<1>2. CASE ~(count[l] < 0)
  BY <1>2, ReleaseFastLock
     DEF ReleaseBuild, mutex_lock, StartLock, CountAfterLock, OwnAlso
<1> QED
  BY <1>1, <1>2

(* mutex_trylock() is the fast path of mutex_lock().                       *)
LEMMA ReleaseTryLock ==
  ASSUME ReleaseBuild, ReleaseInv, NEW t \in Threads, NEW l \in Locks,
         mutex_trylock(t, l)
  PROVE  ReleaseInv'
<1>1. ~(count[l] < 0) /\ count' = [count EXCEPT ![l] = count[l] - 1]
  BY DEF ReleaseBuild, mutex_trylock
<1>2. /\ MayAcquire(t, l)
      /\ own' = [own EXCEPT ![l] = own[l] \cup {t}] /\ at' = [at EXCEPT ![t] = l]
      /\ UNCHANGED <<holder, released, waitVars, spin, destroyed, from, pc>>
  BY DEF ReleaseBuild, mutex_trylock, OwnAlso
<1> QED
  BY <1>1, <1>2, ReleaseFastLock

-----------------------------------------------------------------------------
(* Thread t runs the section under the spinlock of at[t], on behalf of     *)
(* _mutex_lock() or, with the spinlock of its own, mutex_switch_lock().    *)
Asks(t) ==
  \/ pc[t] = "lock" /\ UNCHANGED <<count, spin>>
  \/ /\ pc[t] = "switch_lock"
     /\ count' = [count EXCEPT ![at[t]] = count[at[t]] - 1]
     /\ spin' = [spin EXCEPT ![at[t]] = NoThread]

(* Either way, count stands for t when the section is left.                *)
LEMMA AskedFor ==
  ASSUME ReleaseInv, NEW t \in Threads, NEW l \in Locks, l = at[t],
         Asks(t), ~destroyed[l],
         Interested(l)' = Interested(l) \cup {t}
  PROVE  count'[l] = -Cardinality(Interested(l)') /\ count'[l] < 0
<1>0. /\ Types /\ count[l] = -Cardinality(Interested(l))
  BY DEF ReleaseInv, Types, LockInv
<1>1. CASE pc[t] = "lock" /\ UNCHANGED <<count, spin>>
  <2>1. t \in Interested(l)
    BY <1>1 DEF Interested, Arriving
  <2>2. Interested(l)' = Interested(l)
    BY <2>1
  <2> QED
    BY <1>0, <1>1, <2>1, <2>2, InterestedFinite
<1>2. CASE /\ pc[t] = "switch_lock"
           /\ count' = [count EXCEPT ![at[t]] = count[at[t]] - 1]
  <2>1. t \notin Interested(l)
    BY <1>0, <1>2 DEF Interested, Arriving, ReleaseInv, LockInv, ThreadInv, SwitchLabels
  <2>2. count'[l] = count[l] - 1
    BY <1>0, <1>2 DEF Types
  <2>3. count'[l] < 0
    BY <1>0, <2>2, InterestedFinite
  <2> QED
    BY <1>0, <2>1, <2>2, <2>3, OneMoreInterested
<1> QED
  BY <1>1, <1>2 DEF Asks

(* What the section leaves alone                                           *)
LEMMA AskingFrame ==
  ASSUME ReleaseInv, NEW t \in Threads, Asks(t)
  PROVE  /\ count' \in [Locks -> Int] /\ spin' \in [Locks -> Threads \cup {NoThread}]
         /\ \A k \in Locks : k # at[t] => count'[k] = count[k]
         /\ \A u \in Threads : u # t /\ spin[at[u]] = u => spin'[at[u]] = u
         /\ count'[at[t]] <= count[at[t]]
<1>0. Types /\ at[t] \in Locks /\ count[at[t]] \in Int
  BY DEF ReleaseInv, Types
<1>1. CASE pc[t] = "lock" /\ UNCHANGED <<count, spin>>
  BY <1>0, <1>1 DEF Types
<1>2. CASE /\ pc[t] = "switch_lock"
           /\ count' = [count EXCEPT ![at[t]] = count[at[t]] - 1]
           /\ spin' = [spin EXCEPT ![at[t]] = NoThread]
  <2>1. spin[at[t]] = t
    BY <1>2 DEF ReleaseInv, ThreadInv, SwitchLabels
  <2>2. count' \in [Locks -> Int] /\ spin' \in [Locks -> Threads \cup {NoThread}]
    BY <1>0, <1>2 DEF Types
  <2>3. /\ \A k \in Locks : k # at[t] => count'[k] = count[k]
        /\ count'[at[t]] = count[at[t]] - 1
    BY <1>0, <1>2 DEF Types
  <2>4. \A u \in Threads : u # t /\ spin[at[u]] = u => spin'[at[u]] = u
    BY <1>0, <1>2, <2>1 DEF Types
  <2> QED
    BY <1>0, <2>2, <2>3, <2>4
<1> QED
  BY <1>1, <1>2 DEF Asks

(* A thread that is done, or sleeps, relies on nothing.                    *)
LEMMA ThreadRests ==
  ASSUME NEW t, pc'[t] \in {"idle", "wait", "unlock"}
  PROVE  ThreadInv(t)'
BY DEF ThreadInv, SwitchLabels, Switching, TimedLabels

(* The mutex was released, or, on the fast path of mutex_switch_lock(),    *)
(* never taken: t has it.                                                  *)
LEMMA ReleaseTake ==
  ASSUME ReleaseBuild, ReleaseInv, NEW t \in Threads,
         NEW l \in Locks, l = at[t], Asks(t),
         \/ released[l] /\ released' = [released EXCEPT ![l] = FALSE]
         \/ /\ pc[t] = "switch_lock" /\ ~(count[l] < 0)
            /\ released' = released,
         own' = [own EXCEPT ![l] = own[l] \cup {t}],
         pc' = [pc EXCEPT ![t] = "idle"],
         UNCHANGED <<waitVars, holder, destroyed, at, from>>
  PROVE  ReleaseInv'
<1>0. /\ Types /\ own[l] \in SUBSET Threads
      /\ pc[t] \in {"lock", "switch_lock"}
  BY DEF ReleaseInv, Types, Asks
<1> USE DEF waitVars
<1>1. Types'
  <2>1. released' \in [Locks -> BOOLEAN]
    BY <1>0, Zenon DEF Types
  <2>2. own' \in [Locks -> SUBSET Threads] /\ pc' \in [Threads -> Labels]
    BY <1>0, OwnTyped DEF Types, Labels, Touching
  <2> QED
    BY <1>0, <2>1, <2>2, AskingFrame DEF Types
<1>2. /\ \A k \in Locks : Unlocking(k)' = Unlocking(k) /\ (k # l => Arriving(k)' = Arriving(k))
      /\ Arriving(l)' = Arriving(l) \ {t}
  BY <1>0 DEF Types, Unlocking, Arriving
<1>3. \A k \in Locks : \A u \in Range(waiters[k]) :
        pc'[u] = "wait" /\ at'[u] = k /\ wait'[u] = Blocked
  BY <1>0, QueuesHoldThreads DEF LockInv, Types, ReleaseInv
<1>4. LockInv(l)'
  <2>1. ~destroyed[l] /\ Keepers(l) = {} /\ ~released'[l]
    <3>1. CASE released[l] /\ released' = [released EXCEPT ![l] = FALSE]
      BY <1>0, <3>1 DEF ReleaseInv, LockInv, Types
    <3>2. CASE pc[t] = "switch_lock" /\ ~(count[l] < 0) /\ released' = released
      BY <1>0, <3>2 DEF ReleaseInv, LockInv, ThreadInv, SwitchLabels
    <3> QED
      BY <3>1, <3>2
  <2>2. own'[l] = {t} /\ Keepers(l)' = {t} /\ Unlocking(l)' = {} /\ own[l] = {}
    BY <1>0, <1>2, <2>1 DEF Keepers, Types
  <2>3. Interested(l)' = Interested(l) \cup {t}
    BY <1>2, <2>2 DEF Interested
  <2>4. count'[l] = -Cardinality(Interested(l)') /\ count'[l] < 0
    BY <1>0, <2>1, <2>3, AskedFor
  <2>6. t \notin Range(waiters[l])
    BY <1>0 DEF ReleaseInv, LockInv
  <2>7. /\ IsInjective(waiters[l])
        /\ \A u \in Range(waiters[l]) : pc'[u] = "wait" /\ at'[u] = l /\ wait'[u] = Blocked
    BY <1>0, <1>3 DEF ReleaseInv, LockInv
  <2> QED
    BY <2>1, <2>2, <2>4, <2>6, <2>7 DEF LockInv
<1>5. ASSUME NEW k \in Locks, k # l PROVE LockInv(k)'
  <2>1. own'[k] = own[k] /\ released'[k] = released[k]
    BY <1>0, <1>5 DEF Types
  <2> QED
    BY <1>0, <1>2, <1>3, <1>5, <2>1, AskingFrame, LockFrame
<1>6. ASSUME NEW u \in Threads PROVE ThreadInv(u)'
  <2>1. CASE u = t
    BY <1>0, <2>1, ThreadRests DEF Types
  <2>2. CASE u # t
    <3>1. \A k \in Locks : u \in own'[k] <=> u \in own[k]
      BY <1>0, <2>2 DEF Types
    <3> QED
      BY <1>0, <2>2, <3>1, AskingFrame, ThreadFrame DEF Types
  <2> QED
    BY <2>1, <2>2
<1> QED
  BY <1>0, <1>1, <1>4, <1>5, <1>6 DEF ReleaseInv

(* Somebody has the mutex: t goes to sleep in its queue.  The mutex may be *)
(* destroyed, and t sleep forever, if nothing guards it.                   *)
LEMMA ReleaseEnqueue ==
  ASSUME ReleaseBuild, ReleaseInv, NEW t \in Threads,
         NEW l \in Locks, l = at[t], Asks(t), ~released[l],
         pc[t] = "switch_lock" => count[l] < 0,
         Enqueue(t, l, "wait"), UNCHANGED <<destroyed, at, from>>
  PROVE  ReleaseInv'
<1>0. /\ Types /\ own[l] \in SUBSET Threads /\ waiters[l] \in Seq(Threads)
      /\ pc[t] \in {"lock", "switch_lock"}
  BY DEF ReleaseInv, Types, Asks
<1>1. /\ waiters' = [waiters EXCEPT ![l] = Append(waiters[l], t)]
      /\ waiter_thread' = [waiter_thread EXCEPT ![t] = TRUE]
      /\ wait' = [wait EXCEPT ![t] = Blocked]
      /\ pc' = [pc EXCEPT ![t] = "wait"]
      /\ UNCHANGED <<holder, released, own>>
  BY DEF Enqueue, Goto, thread_prepare_to_block
<1>2. /\ waiters'[l] = Append(waiters[l], t)
      /\ waiters'[l] \in Seq(Threads)
      /\ Range(waiters'[l]) = Range(waiters[l]) \cup {t}
      /\ IsInjective(waiters[l]) /\ t \notin Range(waiters[l]) => IsInjective(waiters'[l])
  <2>1. waiters'[l] = Append(waiters[l], t)
    BY <1>0, <1>1 DEF Types
  <2> QED
    BY <1>0, <2>1, AppendMembers
<1>3. Types'
  <2>1. waiters' \in [Locks -> Seq(Threads)]
    BY <1>0, <1>1, <1>2 DEF Types
  <2>2. wait' \in [Threads -> WaitStatus] /\ pc' \in [Threads -> Labels]
    BY <1>0, <1>1 DEF Types, WaitStatus, Labels, Touching
  <2>3. waiter_thread' \in [Threads -> BOOLEAN]
    BY <1>0, <1>1 DEF Types
  <2> QED
    BY <1>0, <1>1, <2>1, <2>2, <2>3, AskingFrame DEF Types
<1>4. /\ \A k \in Locks : Unlocking(k)' = Unlocking(k) /\ (k # l => Arriving(k)' = Arriving(k))
      /\ Arriving(l)' = Arriving(l) \ {t}
  BY <1>0, <1>1 DEF Types, Unlocking, Arriving
<1>5. \A k \in Locks : \A u \in Range(waiters[k]) :
        u # t /\ pc'[u] = "wait" /\ at'[u] = k /\ wait'[u] = Blocked
  BY <1>0, <1>1, QueuesHoldThreads DEF LockInv, Types, ReleaseInv
<1>6. LockInv(l)'
  <2>1. t \notin own[l] /\ pc'[t] = "wait" /\ at'[t] = l /\ wait'[t] = Blocked
    BY <1>0, <1>1 DEF ReleaseInv, ThreadInv, SwitchLabels, Types
  <2>2. Keepers(l)' = Keepers(l) /\ own'[l] = own[l] /\ Unlocking(l)' = Unlocking(l)
    BY <1>1, <1>4 DEF Keepers
  <2>3. Interested(l)' = Interested(l) \cup {t}
    BY <1>1, <1>2, <1>4 DEF Interested
  <2>4. ~destroyed[l] => /\ count'[l] = -Cardinality(Interested(l)')
                         /\ count'[l] < 0 <=> Keepers(l) # {}
    <3>1. ~destroyed[l] => count[l] < 0
      <4>1. CASE pc[t] = "lock"
        <5>1. t \in Interested(l)
          BY <4>1 DEF Interested, Arriving
        <5> QED
          BY <5>1, <1>0, InterestedFinite DEF ReleaseInv, LockInv
      <4> QED
        BY <1>0, <4>1
    <3>2. ~destroyed[l] => Keepers(l) # {}
      BY <3>1 DEF ReleaseInv, LockInv
    <3> QED
      BY <2>3, <3>2, AskedFor
  <2>5. IsInjective(waiters'[l])
    BY <1>2, <1>5 DEF ReleaseInv, LockInv
  <2>6. \A u \in Range(waiters'[l]) :
          pc'[u] = "wait" /\ at'[u] = l /\ wait'[u] = Blocked /\ u \notin own[l]
    BY <1>2, <1>5, <2>1 DEF ReleaseInv, LockInv
  <2> QED
    BY <1>1, <2>2, <2>4, <2>5, <2>6 DEF ReleaseInv, LockInv
<1>7. ASSUME NEW k \in Locks, k # l PROVE LockInv(k)'
  <2>1. waiters'[k] = waiters[k]
    BY <1>0, <1>1, <1>7 DEF Types
  <2> QED
    BY <1>0, <1>1, <1>4, <1>5, <1>7, <2>1, AskingFrame, LockFrame
<1>8. ASSUME NEW u \in Threads PROVE ThreadInv(u)'
  <2>1. CASE u = t
    BY <1>0, <1>1, <2>1, ThreadRests DEF Types
  <2>2. CASE u # t
    BY <1>0, <1>1, <2>2, AskingFrame, ThreadFrame DEF Types
  <2> QED
    BY <2>1, <2>2
<1> QED
  BY <1>0, <1>3, <1>6, <1>7, <1>8 DEF ReleaseInv

(* The section of _mutex_lock() under the spinlock                         *)
LEMMA ReleaseLock ==
  ASSUME ReleaseBuild, ReleaseInv, NEW t \in Threads, _mutex_lock(t)
  PROVE  ReleaseInv'
<1>0. PICK l \in Locks : l = at[t]
  BY DEF ReleaseInv, Types
<1>1. /\ Asks(t) /\ LockSection(t, l) /\ pc[t] = "lock"
      /\ UNCHANGED <<destroyed, at, from>>
  BY <1>0 DEF _mutex_lock, Asks
<1>2. CASE released[l] /\ Take(t, l)
  BY <1>0, <1>1, <1>2, ReleaseTake DEF Take, ReleaseBuild, OwnAlso, Goto
<1>3. CASE ~released[l] /\ Enqueue(t, l, "wait")
  BY <1>0, <1>1, <1>3, ReleaseEnqueue
<1> QED
  BY <1>1, <1>2, <1>3 DEF LockSection, IsReleased, ReleaseBuild

(* The second half of mutex_switch_lock(), the spinlock of `to' being held *)
LEMMA ReleaseSwitchLock ==
  ASSUME ReleaseBuild, ReleaseInv, NEW t \in Threads, SwitchLock(t)
  PROVE  ReleaseInv'
<1>0. PICK l \in Locks : l = at[t]
  BY DEF ReleaseInv, Types
<1>1. /\ Asks(t) /\ pc[t] = "switch_lock"
      /\ UNCHANGED <<destroyed, at, from>>
  BY <1>0 DEF SwitchLock, Asks, CountAfterLock, ReleaseBuild
<1>2. CASE released[l] /\ Take(t, l)
  BY <1>0, <1>1, <1>2, ReleaseTake DEF Take, ReleaseBuild, OwnAlso, Goto
<1>3. CASE count[l] < 0 /\ ~released[l] /\ Enqueue(t, l, "wait")
  BY <1>0, <1>1, <1>3, ReleaseEnqueue
<1>4. CASE ~(count[l] < 0)
  BY <1>0, <1>1, <1>4, ReleaseTake DEF SwitchLock, ReleaseBuild, OwnAlso, Goto
<1> QED
  BY <1>0, <1>1, <1>2, <1>3, <1>4 DEF SwitchLock, LockSection, IsReleased, ReleaseBuild

(* thread_block() returned; the queue does not hold t any more.            *)
LEMMA ReleaseWaitReturn ==
  ASSUME ReleaseBuild, ReleaseInv, NEW t \in Threads, WaitReturn(t)
  PROVE  ReleaseInv'
<1>0. /\ Types /\ pc[t] = "wait" /\ wait[t] # Blocked
      /\ pc' = [pc EXCEPT ![t] = "idle"]
      /\ UNCHANGED <<holder, count, released, waiters, waiter_thread, wait, spin,
                     destroyed, at, from, own>>
  BY DEF WaitReturn, thread_is_blocked, Goto, mutexVars, waitVars, ReleaseInv
<1>1. Types'
  BY <1>0 DEF Types, Labels, Touching
<1>2. \A k \in Locks : Unlocking(k)' = Unlocking(k) /\ Arriving(k)' = Arriving(k)
  BY <1>0 DEF Types, Unlocking, Arriving
<1>3. \A k \in Locks : \A u \in Range(waiters[k]) :
        pc'[u] = "wait" /\ at'[u] = k /\ wait'[u] = Blocked
  BY <1>0, QueuesHoldThreads DEF LockInv, Types, ReleaseInv
<1>4. ASSUME NEW k \in Locks PROVE LockInv(k)'
  BY <1>0, <1>2, <1>3, LockFrame
<1>5. ASSUME NEW u \in Threads PROVE ThreadInv(u)'
  <2>1. CASE u = t
    BY <1>0, <2>1, ThreadRests DEF Types
  <2>2. CASE u # t
    BY <1>0, <2>2, ThreadFrame DEF Types
  <2> QED
    BY <2>1, <2>2
<1> QED
  BY <1>1, <1>4, <1>5 DEF ReleaseInv

-----------------------------------------------------------------------------
(* The atomic_add of an unlocker: the mutex is free if count comes to 0,   *)
(* and in the hands of the unlocker otherwise.                             *)
LEMMA ReleaseStartUnlock ==
  ASSUME ReleaseBuild, ReleaseInv, NEW t \in Threads, NEW l \in Locks,
         t \in own[l], pc[t] \in {"idle", "switch_unlock"},
         count' = [count EXCEPT ![l] = count[l] + 1],
         own' = [own EXCEPT ![l] = own[l] \ {t}],
         Unlocking(l)' = Unlocking(l) \cup (IF count[l] < -1 THEN {t} ELSE {}),
         \A k \in Locks : /\ Arriving(k)' = Arriving(k)
                          /\ k # l => Unlocking(k)' = Unlocking(k),
         \A u \in Threads \ {t} : pc'[u] = pc[u] /\ at'[u] = at[u],
         UNCHANGED <<released, waiters, wait, destroyed>>
  PROVE  \A k \in Locks : LockInv(k)'
<1>0. /\ Types /\ LockInv(l)
      /\ count[l] \in Int /\ count'[l] = count[l] + 1 /\ own'[l] = own[l] \ {t}
  BY DEF ReleaseInv, Types
<1>1. \A k \in Locks : \A u \in Range(waiters[k]) :
        pc'[u] = "wait" /\ at'[u] = k /\ wait'[u] = Blocked
  BY <1>0, QueuesHoldThreads DEF LockInv, ReleaseInv
<1>2. LockInv(l)'
  <2>1. /\ t \in Interested(l) /\ t \notin Arriving(l) /\ t \notin Range(waiters[l])
        /\ ~destroyed[l] /\ ~released[l] /\ own[l] = {t} /\ Unlocking(l) = {}
    BY <1>0 DEF LockInv, Interested, Arriving, Keepers
  <2>2. Interested(l)' = Interested(l) \ {t}
    BY <1>0, <2>1 DEF Interested
  <2>3. count'[l] = -Cardinality(Interested(l)')
    BY <1>0, <2>1, <2>2, OneLessInterested DEF LockInv
  <2>4. own'[l] = {}
    BY <1>0, <2>1
  <2>5. count[l] < 0
    BY <1>0, <2>1 DEF LockInv, Keepers
  <2>6. CASE count[l] < -1
    <3>1. Keepers(l)' = {t} /\ Unlocking(l)' = {t}
      BY <2>1, <2>4, <2>6 DEF Keepers
    <3> QED
      BY <1>0, <1>1, <2>1, <2>3, <2>4, <2>6, <3>1 DEF LockInv
  <2>7. CASE ~(count[l] < -1)
    <3>1. Keepers(l)' = {} /\ Unlocking(l)' = {}
      BY <2>1, <2>4, <2>7 DEF Keepers
    <3> QED
      BY <1>0, <1>1, <2>1, <2>3, <2>4, <2>5, <2>7, <3>1 DEF LockInv
  <2> QED
    BY <2>6, <2>7
<1>3. ASSUME NEW k \in Locks, k # l PROVE LockInv(k)'
  <2>1. own'[k] = own[k] /\ count'[k] = count[k]
    BY <1>0, <1>3 DEF Types
  <2> QED
    BY <1>1, <1>3, <2>1, LockFrame
<1> QED
  BY <1>2, <1>3

(* mutex_unlock()                                                          *)
LEMMA ReleaseUnlock ==
  ASSUME ReleaseBuild, ReleaseInv, NEW t \in Threads, NEW l \in Locks,
         mutex_unlock(t, l)
  PROVE  ReleaseInv'
<1>0. /\ Types /\ pc[t] = "idle" /\ t \in own[l] /\ count[l] \in Int
      /\ count' = [count EXCEPT ![l] = count[l] + 1]
      /\ own' = [own EXCEPT ![l] = own[l] \ {t}] /\ own[l] \in SUBSET Threads
      /\ at' = [at EXCEPT ![t] = l]
      /\ UNCHANGED <<holder, released, waiters, waiter_thread, wait, spin, destroyed, from>>
  BY DEF mutex_unlock, StartUnlock, ReleaseBuild, ReleaseInv, Types, waitVars
<1>1. pc' = [pc EXCEPT ![t] = IF count[l] < -1 THEN "unlock" ELSE "idle"]
  BY DEF mutex_unlock, StartUnlock, ReleaseBuild, MustUnlock, Goto
<1>2. Types'
  <2>1. count' \in [Locks -> Int] /\ own' \in [Locks -> SUBSET Threads]
    BY <1>0, OwnTyped DEF Types
  <2>2. pc' \in [Threads -> Labels] /\ at' \in [Threads -> Locks]
    BY <1>0, <1>1 DEF Types, Labels, Touching
  <2> QED
    BY <1>0, <2>1, <2>2 DEF Types
<1>3. \A k \in Locks : Arriving(k)' = Arriving(k)
  BY <1>0, <1>1 DEF Types, Arriving
<1>4. \A k \in Locks : k # l => Unlocking(k)' = Unlocking(k)
  BY <1>0, <1>1 DEF Types, Unlocking
<1>5. Unlocking(l)' = Unlocking(l) \cup (IF count[l] < -1 THEN {t} ELSE {})
  BY <1>0, <1>1 DEF Types, Unlocking
<1>6. \A k \in Locks : LockInv(k)'
  BY <1>0, <1>1, <1>3, <1>4, <1>5, ReleaseStartUnlock DEF Types
<1>7. ASSUME NEW u \in Threads PROVE ThreadInv(u)'
  <2>1. CASE u = t
    BY <1>0, <1>1, <2>1, ThreadRests DEF Types
  <2>2. CASE u # t
    <3>1. \A k \in Locks : u \in own'[k] <=> u \in own[k]
      BY <1>0, <2>2 DEF Types
    <3> QED
      BY <1>0, <1>1, <2>2, <3>1, ThreadFrame DEF Types
  <2> QED
    BY <2>1, <2>2
<1> QED
  BY <1>2, <1>6, <1>7 DEF ReleaseInv

(* mutex_switch_lock() unlocking `from', up to its spinlock                *)
LEMMA ReleaseSwitchStart ==
  ASSUME ReleaseBuild, ReleaseInv, NEW t \in Threads, NEW l \in Locks,
         l = from[t], pc[t] = "switch_unlock",
         StartUnlock(t, l, "switch_unlock_slow", "switch_lock"),
         UNCHANGED <<holder, released, waitVars, spin, destroyed, at, from>>
  PROVE  ReleaseInv'
<1>0. /\ Types /\ t \in own[l] /\ count[l] \in Int
      /\ count' = [count EXCEPT ![l] = count[l] + 1]
      /\ own' = [own EXCEPT ![l] = own[l] \ {t}] /\ own[l] \in SUBSET Threads
      /\ UNCHANGED <<holder, released, waiters, waiter_thread, wait, spin, destroyed,
                     at, from>>
  BY DEF StartUnlock, ReleaseBuild, ReleaseInv, Types, waitVars
<1>1. pc' = [pc EXCEPT ![t] = IF count[l] < -1 THEN "switch_unlock_slow" ELSE "switch_lock"]
  BY DEF StartUnlock, ReleaseBuild, MustUnlock, Goto
<1>2. Types'
  <2>1. count' \in [Locks -> Int] /\ own' \in [Locks -> SUBSET Threads]
    BY <1>0, OwnTyped DEF Types
  <2>2. pc' \in [Threads -> Labels]
    BY <1>0, <1>1 DEF Types, Labels, Touching
  <2> QED
    BY <1>0, <2>1, <2>2 DEF Types
<1>3. \A k \in Locks : Arriving(k)' = Arriving(k)
  BY <1>0, <1>1 DEF Types, Arriving
<1>4. \A k \in Locks : k # l => Unlocking(k)' = Unlocking(k)
  BY <1>0, <1>1 DEF Types, Unlocking
<1>5. Unlocking(l)' = Unlocking(l) \cup (IF count[l] < -1 THEN {t} ELSE {})
  BY <1>0, <1>1 DEF Types, Unlocking
<1>6. \A k \in Locks : LockInv(k)'
  BY <1>0, <1>1, <1>3, <1>4, <1>5, ReleaseStartUnlock DEF Types
<1>7. ASSUME NEW u \in Threads PROVE ThreadInv(u)'
  <2>1. CASE u = t
    <3>1. \A k \in Locks : own'[k] \subseteq own[k]
      BY <1>0 DEF Types
    <3>2. pc'[t] \in {"switch_unlock_slow", "switch_lock"} /\ ThreadInv(t) /\ at[t] \in Locks
      BY <1>0, <1>1 DEF Types, ReleaseInv
    <3> QED
      BY <1>0, <2>1, <3>1, <3>2 DEF ThreadInv, SwitchLabels, Switching, TimedLabels
  <2>2. CASE u # t
    <3>1. \A k \in Locks : u \in own'[k] <=> u \in own[k]
      BY <1>0, <2>2 DEF Types
    <3> QED
      BY <1>0, <1>1, <2>2, <3>1, ThreadFrame DEF Types
  <2> QED
    BY <2>1, <2>2
<1> QED
  BY <1>2, <1>6, <1>7 DEF ReleaseInv

(* _mutex_unlock() under the spinlock: the mutex goes to the first waiter, *)
(* or is marked as released.                                               *)
LEMMA ReleaseUnlockSection ==
  ASSUME ReleaseBuild, ReleaseInv, NEW t \in Threads, NEW l \in Locks,
         t \in Unlocking(l), NEW next \in {"idle", "switch_lock"},
         pc[t] = "unlock" => next = "idle",
         UnlockSection(t, l, next),
         UNCHANGED <<count, spin, destroyed, at, from>>
  PROVE  ReleaseInv'
<1>0. /\ Types /\ LockInv(l) /\ waiters[l] \in Seq(Threads) /\ pc' = [pc EXCEPT ![t] = next]
      /\ pc[t] \in {"unlock", "switch_unlock_slow"}
      /\ UNCHANGED <<holder, waiter_thread>>
  BY DEF ReleaseInv, Types, UnlockSection, ReleaseBuild, Goto, Unlocking, HolderAfterUnlock
<1>1. /\ own[l] = {} /\ Unlocking(l) = {t} /\ ~released[l] /\ ~destroyed[l]
      /\ count[l] < 0
  BY <1>0 DEF LockInv, Keepers
<1>2. Unlocking(l)' = {} /\ \A k \in Locks : k # l => Unlocking(k)' = Unlocking(k)
  BY <1>0, <1>1 DEF Types, Unlocking
<1>3. \A k \in Locks : Arriving(k)' = Arriving(k)
  BY <1>0 DEF Types, Arriving
<1>4. pc' \in [Threads -> Labels]
  BY <1>0 DEF Types, Labels, Touching
<1>5. ASSUME \A k \in Locks : k # l => own'[k] = own[k], t \notin own'[l]
      PROVE  ThreadInv(t)'
  <2>1. CASE pc'[t] = "idle"
    BY <2>1, ThreadRests
  <2>2. CASE pc'[t] = "switch_lock"
    <3>1. pc[t] = "switch_unlock_slow"
      BY <1>0, <2>2 DEF Types
    <3>2. at[t] \in Locks /\ l = from[t]
      BY <1>0, <3>1 DEF Types, Unlocking
    <3> QED
      BY <1>5, <2>2, <3>1, <3>2 DEF ThreadInv, ReleaseInv, SwitchLabels, Switching, TimedLabels
  <2> QED
    BY <1>0, <2>1, <2>2 DEF Types
<1>6. CASE waiters[l] # <<>>
  <2> DEFINE h == Head(waiters[l])
  <2>1. /\ waiters' = [waiters EXCEPT ![l] = Tail(waiters[l])]
        /\ wait' = thread_unblock(wait, {h}, B_OK)
        /\ own' = [own EXCEPT ![l] = {h}]
        /\ UNCHANGED released
    BY <1>0, <1>1, <1>6 DEF UnlockSection, ReleaseBuild
  <2>2. /\ Tail(waiters[l]) \in Seq(Threads)
        /\ h \in Range(waiters[l]) /\ h \notin Range(Tail(waiters[l]))
        /\ Range(waiters[l]) = Range(Tail(waiters[l])) \cup {h}
        /\ IsInjective(Tail(waiters[l]))
    BY <1>0, <1>6, TailMembers DEF LockInv
  <2>3. h \in Threads /\ pc[h] = "wait" /\ at[h] = l /\ h # t
    BY <1>0, <2>2, QueuesHoldThreads DEF LockInv
  <2> HIDE DEF h
  <2>4. Types'
    <3>1. waiters' \in [Locks -> Seq(Threads)]
      BY <1>0, <2>1, <2>2 DEF Types
    <3>2. wait' \in [Threads -> WaitStatus]
      BY <1>0, <2>1 DEF Types, WaitStatus, thread_unblock
    <3>3. own' \in [Locks -> SUBSET Threads]
      <4>1. {h} \in SUBSET Threads
        BY <2>3
      <4> QED
        BY <1>0, <2>1, <4>1, OwnTyped
    <3> QED
      BY <1>0, <1>4, <2>1, <3>1, <3>2, <3>3 DEF Types
  <2>5. \A k \in Locks : \A u \in Range(waiters[k]) \ {h} :
          pc'[u] = "wait" /\ at'[u] = k /\ wait'[u] = Blocked
    BY <1>0, <2>1, QueuesHoldThreads DEF LockInv, Types, ReleaseInv, thread_unblock
  <2>6. LockInv(l)'
    <3>1. own'[l] = {h} /\ waiters'[l] = Tail(waiters[l]) /\ Keepers(l)' = {h}
      BY <1>0, <1>2, <2>1 DEF Types, Keepers
    <3>2. Interested(l)' = Interested(l)
      BY <1>1, <1>3, <2>2, <3>1 DEF Interested
    <3>3. \A u \in Range(waiters'[l]) :
            pc'[u] = "wait" /\ at'[u] = l /\ wait'[u] = Blocked /\ u \notin own'[l]
      BY <2>2, <2>5, <3>1
    <3> QED
      BY <1>0, <1>1, <1>2, <2>1, <2>2, <3>1, <3>2, <3>3 DEF LockInv
  <2>7. ASSUME NEW k \in Locks, k # l PROVE LockInv(k)'
    <3>1. waiters'[k] = waiters[k] /\ own'[k] = own[k]
      BY <1>0, <2>1, <2>7 DEF Types
    <3>2. h \notin Range(waiters[k])
      BY <2>3, <2>7 DEF LockInv, ReleaseInv
    <3> QED
      BY <1>2, <1>3, <2>1, <2>5, <2>7, <3>1, <3>2, LockFrame
  <2>8. ASSUME NEW u \in Threads PROVE ThreadInv(u)'
    <3>1. CASE u = t
      BY <1>0, <1>5, <2>1, <2>3, <3>1 DEF Types
    <3>2. CASE u # t
      <4>1. pc[u] = "wait" \/ \A k \in Locks : u \in own'[k] <=> u \in own[k]
        BY <1>0, <1>1, <2>1, <2>3 DEF Types
      <4> QED
        BY <1>0, <3>2, <4>1, ThreadFrame DEF Types
    <3> QED
      BY <3>1, <3>2
  <2> QED
    BY <2>4, <2>6, <2>7, <2>8 DEF ReleaseInv
<1>7. CASE waiters[l] = <<>>
  <2>1. /\ released' = [released EXCEPT ![l] = TRUE]
        /\ own' = [own EXCEPT ![l] = {}]
        /\ UNCHANGED <<waiters, wait>>
    BY <1>0, <1>1, <1>7 DEF UnlockSection, ReleaseBuild
  <2>2. own' = own
    BY <1>0, <1>1, <2>1 DEF Types
  <2>3. Types'
    BY <1>0, <1>4, <2>1, <2>2 DEF Types
  <2>4. \A k \in Locks : \A u \in Range(waiters[k]) :
          pc'[u] = "wait" /\ at'[u] = k /\ wait'[u] = Blocked
    BY <1>0, <2>1, QueuesHoldThreads DEF LockInv, Types, ReleaseInv
  <2>5. LockInv(l)'
    <3>1. Keepers(l)' = {} /\ released'[l]
      BY <1>0, <1>1, <1>2, <2>1, <2>2 DEF Types, Keepers
    <3>2. Interested(l)' = Interested(l)
      BY <1>3, <2>1, <2>2 DEF Interested
    <3> QED
      BY <1>0, <1>1, <1>2, <1>7, <2>1, <2>2, <2>4, <3>1, <3>2 DEF LockInv
  <2>6. ASSUME NEW k \in Locks, k # l PROVE LockInv(k)'
    <3>1. released'[k] = released[k]
      BY <1>0, <2>1, <2>6 DEF Types
    <3> QED
      BY <1>2, <1>3, <2>1, <2>2, <2>4, <2>6, <3>1, LockFrame
  <2>7. ASSUME NEW u \in Threads PROVE ThreadInv(u)'
    <3>1. CASE u = t
      BY <1>1, <1>5, <2>2, <3>1
    <3>2. CASE u # t
      BY <1>0, <2>2, <3>2, ThreadFrame DEF Types
    <3> QED
      BY <3>1, <3>2
  <2> QED
    BY <2>3, <2>5, <2>6, <2>7 DEF ReleaseInv
<1> QED
  BY <1>6, <1>7

(* _mutex_unlock() called by mutex_unlock()                                *)
LEMMA ReleaseUnlockSlow ==
  ASSUME ReleaseBuild, ReleaseInv, NEW t \in Threads, _mutex_unlock(t)
  PROVE  ReleaseInv'
<1>0. PICK l \in Locks : l = at[t]
  BY DEF ReleaseInv, Types
<1>1. /\ pc[t] = "unlock" /\ t \in Unlocking(l) /\ UnlockSection(t, l, "idle")
      /\ UNCHANGED <<count, spin, destroyed, at, from>>
  BY <1>0 DEF _mutex_unlock, Unlocking
<1> QED
  BY <1>1, ReleaseUnlockSection

(* mutex_switch_lock() unlocking `from'                                    *)
LEMMA ReleaseSwitchUnlock ==
  ASSUME ReleaseBuild, ReleaseInv, NEW t \in Threads, SwitchUnlock(t)
  PROVE  ReleaseInv'
<1>0. PICK l \in Locks : l = from[t]
  BY DEF ReleaseInv, Types
<1>1. CASE pc[t] = "switch_unlock"
  BY <1>0, <1>1, ReleaseSwitchStart DEF SwitchUnlock
<1>2. CASE pc[t] = "switch_unlock_slow"
  <2>1. /\ t \in Unlocking(l) /\ UnlockSection(t, l, "switch_lock")
        /\ UNCHANGED <<count, spin, destroyed, at, from>>
    BY <1>0, <1>2 DEF SwitchUnlock, Unlocking
  <2> QED
    BY <1>2, <2>1, ReleaseUnlockSection
<1> QED
  BY <1>1, <1>2 DEF SwitchUnlock

-----------------------------------------------------------------------------
(* mutex_transfer_lock() replaces the owner by a thread that did not ask.  *)
LEMMA ReleaseTransfer ==
  ASSUME ReleaseBuild, ReleaseInv, NEW t \in Threads, NEW l \in Locks,
         NEW u \in Threads, mutex_transfer_lock(t, l, u)
  PROVE  ReleaseInv'
<1>0. /\ Types /\ LockInv(l) /\ u # t /\ pc[t] = "idle" /\ pc[u] = "idle"
      /\ t \in own[l] /\ ~destroyed[l]
      /\ own' = [own EXCEPT ![l] = (own[l] \ {t}) \cup {u}]
      /\ UNCHANGED <<holder, count, released, waiters, waiter_thread, wait, spin,
                     destroyed, pc, at, from>>
  BY DEF mutex_transfer_lock, HolderAfterUnlock, ReleaseBuild, ReleaseInv, waitVars
<1>1. own[l] = {t} /\ Unlocking(l) = {} /\ ~released[l]
  BY <1>0 DEF LockInv, Keepers
<1>2. own' = [own EXCEPT ![l] = {u}] /\ {u} \in SUBSET Threads
  BY <1>0, <1>1
<1>3. Types'
  BY <1>0, <1>2, OwnTyped DEF Types
<1>4. \A k \in Locks : Unlocking(k)' = Unlocking(k) /\ Arriving(k)' = Arriving(k)
  BY <1>0 DEF Unlocking, Arriving
<1>5. \A k \in Locks : \A v \in Range(waiters[k]) :
        pc'[v] = "wait" /\ at'[v] = k /\ wait'[v] = Blocked
  BY <1>0 DEF LockInv, ReleaseInv
<1>6. LockInv(l)'
  <2>1. own'[l] = {u} /\ Keepers(l)' = {u} /\ u \notin Range(waiters[l])
    BY <1>0, <1>1, <1>2, <1>4 DEF Types, Keepers, LockInv
  <2> DEFINE S == Arriving(l) \cup Range(waiters[l])
  <2>2. t \notin S /\ u \notin S
    BY <1>0 DEF Arriving, LockInv
  <2>3. Interested(l) = S \cup {t} /\ Interested(l)' = S \cup {u}
    BY <1>0, <1>1, <1>4, <2>1 DEF Interested
  <2>4. IsFiniteSet(S)
    BY <1>0, <2>3, InterestedFinite, FS_Subset
  <2> HIDE DEF S
  <2>5. Cardinality(Interested(l)') = Cardinality(Interested(l))
    <3>1. Cardinality(S \cup {t}) = Cardinality(S) + 1
      BY <2>2, <2>4, FS_AddElement
    <3>2. Cardinality(S \cup {u}) = Cardinality(S) + 1
      BY <2>2, <2>4, FS_AddElement
    <3> QED
      BY <2>3, <3>1, <3>2
  <2> QED
    BY <1>0, <1>1, <1>4, <1>5, <2>1, <2>5 DEF LockInv, Keepers
<1>7. ASSUME NEW k \in Locks, k # l PROVE LockInv(k)'
  <2>1. own'[k] = own[k]
    BY <1>0, <1>2, <1>7 DEF Types
  <2> QED
    BY <1>0, <1>4, <1>5, <1>7, <2>1, LockFrame
<1>8. ASSUME NEW v \in Threads PROVE ThreadInv(v)'
  <2>1. pc[v] = "idle" \/ \A k \in Locks : v \in own'[k] <=> v \in own[k]
    BY <1>0, <1>1, <1>2 DEF Types
  <2> QED
    BY <1>0, <2>1, ThreadFrame
<1> QED
  BY <1>3, <1>6, <1>7, <1>8 DEF ReleaseInv

(* mutex_switch_lock() takes the spinlock of `to'.                         *)
LEMMA ReleaseSwitch ==
  ASSUME ReleaseBuild, ReleaseInv, NEW t \in Threads, NEW a \in Locks,
         NEW b \in Locks, mutex_switch_lock(t, a, b)
  PROVE  ReleaseInv'
<1>0. /\ Types /\ pc[t] = "idle" /\ t \in own[a] /\ t \notin own[b] /\ ~destroyed[b]
      /\ spin[b] = NoThread
      /\ spin' = [spin EXCEPT ![b] = t]
      /\ at' = [at EXCEPT ![t] = b] /\ from' = [from EXCEPT ![t] = a]
      /\ pc' = [pc EXCEPT ![t] = "switch_unlock"]
      /\ UNCHANGED <<holder, count, released, waiters, waiter_thread, wait,
                     destroyed, own>>
  BY DEF mutex_switch_lock, SpinFree, SpinWhileSwitching, Goto, ReleaseInv, mutexVars, waitVars
<1>1. Types'
  BY <1>0 DEF Types, Labels, Touching
<1>2. \A k \in Locks : Unlocking(k)' = Unlocking(k) /\ Arriving(k)' = Arriving(k)
  BY <1>0 DEF Types, Unlocking, Arriving
<1>3. \A k \in Locks : \A u \in Range(waiters[k]) :
        pc'[u] = "wait" /\ at'[u] = k /\ wait'[u] = Blocked
  BY <1>0, QueuesHoldThreads DEF LockInv, Types, ReleaseInv
<1>4. ASSUME NEW k \in Locks PROVE LockInv(k)'
  BY <1>0, <1>2, <1>3, LockFrame
<1>5. ASSUME NEW u \in Threads PROVE ThreadInv(u)'
  <2>1. CASE u = t
    <3>1. /\ pc'[t] = "switch_unlock" /\ at'[t] = b /\ from'[t] = a /\ spin'[b] = t
          /\ a # b
      BY <1>0 DEF Types
    <3> QED
      BY <1>0, <2>1, <3>1 DEF ThreadInv, SwitchLabels, Switching, TimedLabels
  <2>2. CASE u # t
    <3>1. spin[at[u]] = u => spin'[at[u]] = u
      BY <1>0, KernelMutexConstants DEF Types
    <3> QED
      BY <1>0, <2>2, <3>1, ThreadFrame DEF Types
  <2> QED
    BY <2>1, <2>2
<1> QED
  BY <1>1, <1>4, <1>5 DEF ReleaseInv

(* mutex_destroy(): the guards keep lockers away from the mutex, and its   *)
(* spinlock those who switch to it.                                        *)
LEMMA ReleaseDestroy ==
  ASSUME ReleaseBuild, ReleaseInv, NEW t \in Threads, NEW l \in Locks,
         mutex_destroy(t, l)
  PROVE  ReleaseInv'
<1>0. /\ Types /\ LockInv(l) /\ pc[t] = "idle" /\ ~destroyed[l]
      /\ t \in own[l] \/ Unused(l)
      /\ \A p \in GuardedBy : p[1] = l => t \in own[p[2]]
      /\ \A p \in GuardedBy : p[2] = l => destroyed[p[1]]
      /\ spin[l] = NoThread
      /\ waiters' = [waiters EXCEPT ![l] = <<>>]
      /\ waiter_thread' = [u \in Threads |-> waiter_thread[u] /\ u \notin Range(waiters[l])]
      /\ wait' = thread_unblock(wait, Range(waiters[l]), B_ERROR)
      /\ count' = [count EXCEPT ![l] = INT16_MIN]
      /\ released' = [released EXCEPT ![l] = FALSE]
      /\ destroyed' = [destroyed EXCEPT ![l] = TRUE]
      /\ own' = [own EXCEPT ![l] = {}]
      /\ UNCHANGED <<holder, spin, pc, at, from>>
  BY DEF mutex_destroy, SpinFree, ReleaseBuild, ReleaseInv
<1>1. Types'
  <2>1. waiters' \in [Locks -> Seq(Threads)]
    BY <1>0 DEF Types
  <2>2. wait' \in [Threads -> WaitStatus] /\ count' \in [Locks -> Int]
    BY <1>0 DEF Types, WaitStatus, thread_unblock, INT16_MIN
  <2>3. waiter_thread' \in [Threads -> BOOLEAN]
    BY <1>0 DEF Types
  <2>4. released' \in [Locks -> BOOLEAN] /\ destroyed' \in [Locks -> BOOLEAN]
    BY <1>0 DEF Types
  <2>5. own' \in [Locks -> SUBSET Threads]
    BY <1>0 DEF Types
  <2> QED
    BY <1>0, <2>1, <2>2, <2>3, <2>4, <2>5 DEF Types
<1>2. \A k \in Locks : Unlocking(k)' = Unlocking(k) /\ Arriving(k)' = Arriving(k)
  BY <1>0 DEF Unlocking, Arriving
<1>3. own[l] \subseteq {t} /\ Unlocking(l) = {}
  BY <1>0 DEF LockInv, Keepers, Unused, Unlocking
<1>4. /\ own'[l] = {} /\ waiters'[l] = <<>> /\ ~released'[l] /\ destroyed'[l]
      /\ \A k \in Locks : k # l =>
           /\ own'[k] = own[k] /\ waiters'[k] = waiters[k] /\ count'[k] = count[k]
           /\ released'[k] = released[k] /\ destroyed'[k] = destroyed[k]
  BY <1>0 DEF Types
<1>5. LockInv(l)'
  <2>1. Keepers(l)' = {}
    BY <1>2, <1>3, <1>4 DEF Keepers
  <2> QED
    BY <1>2, <1>3, <1>4, <2>1 DEF LockInv, IsInjective, Range
<1>6. ASSUME NEW k \in Locks, k # l PROVE LockInv(k)'
  <2>1. \A u \in Range(waiters[k]) :
          u \in Threads /\ pc'[u] = "wait" /\ at'[u] = k /\ wait[u] = Blocked
            /\ u \notin Range(waiters[l])
    BY <1>0, <1>6, QueuesHoldThreads DEF LockInv, ReleaseInv
  <2>2. \A u \in Range(waiters[k]) : wait'[u] = Blocked
    BY <1>0, <2>1 DEF Types, thread_unblock
  <2> QED
    BY <1>2, <1>4, <1>6, <2>1, <2>2, LockFrame
<1>7. ASSUME NEW u \in Threads PROVE ThreadInv(u)'
  <2>0. at[u] \in Locks /\ from[u] \in Locks /\ ThreadInv(u)
    BY <1>0 DEF Types, ReleaseInv
  <2>1. CASE pc[u] \in {"idle", "wait", "unlock"}
    BY <1>0, <2>1, ThreadRests
  <2>2. CASE pc[u] = "lock"
    <3>1. t # u
      BY <1>0, <2>2
    <3>2. ASSUME NEW p \in GuardedBy, p[1] = at[u]
          PROVE  u \in own'[p[2]] /\ ~destroyed'[p[1]]
      <4>1. p[1] \in Locks /\ p[2] \in Locks
        BY KernelMutexConstants
      <4>2. u \in own[p[2]] /\ ~destroyed[p[1]]
        BY <2>0, <2>2, <3>2 DEF ThreadInv
      <4>3. p[2] # l
        BY <1>0, <4>2
      <4>4. p[1] # l
        <5>1. p[1] = l => t \in own[p[2]] /\ u \in own[p[2]]
          BY <1>0, <4>2
        <5> QED
          BY <3>1, <4>1, <5>1 DEF ReleaseInv, LockInv, Keepers
      <4> QED
        BY <1>4, <4>1, <4>2, <4>3, <4>4
    <3>3. u \notin own'[at[u]]
      BY <1>4, <2>0, <2>2 DEF ThreadInv
    <3> QED
      BY <1>0, <2>2, <3>2, <3>3 DEF ThreadInv, SwitchLabels, Switching, TimedLabels
  <2>3. CASE pc[u] \in SwitchLabels
    <3>1. at[u] # l /\ u # t
      BY <1>0, <2>0, <2>3, KernelMutexConstants DEF ThreadInv, SwitchLabels, Switching
    <3>2. pc[u] = "switch_unlock" => from[u] # l
      BY <1>3, <2>0, <3>1 DEF ThreadInv
    <3> QED
      BY <1>0, <1>4, <2>0, <2>3, <3>1, <3>2
         DEF ThreadInv, SwitchLabels, Switching, TimedLabels
  <2> QED
    BY <1>0, <2>0, <2>1, <2>2, <2>3
       DEF Types, Labels, Touching, ThreadInv, SwitchLabels, Switching, TimedLabels
<1> QED
  BY <1>1, <1>5, <1>6, <1>7 DEF ReleaseInv

-----------------------------------------------------------------------------
(* Every step keeps the invariant; the timed calls are not taken.          *)
LEMMA ReleaseStep ==
  ASSUME ReleaseBuild, ReleaseInv, [Next]_vars
  PROVE  ReleaseInv'
<1>1. ASSUME NEW t \in Threads, Continue(t)
      PROVE  ReleaseInv'
  <2>1. pc[t] \notin TimedLabels
    BY DEF ReleaseInv, ThreadInv
  <2>2. CASE _mutex_lock(t)
    BY <2>2, ReleaseLock
  <2>3. CASE WaitReturn(t)
    BY <2>3, ReleaseWaitReturn
  <2>4. CASE _mutex_unlock(t)
    BY <2>4, ReleaseUnlockSlow
  <2>5. CASE SwitchUnlock(t)
    BY <2>5, ReleaseSwitchUnlock
  <2>6. CASE SwitchLock(t)
    BY <2>6, ReleaseSwitchLock
  <2>7. ~(\/ _mutex_lock_with_timeout(t) \/ Timeout(t) \/ TimedReturn(t) \/ TimedDequeue(t))
    BY <2>1 DEF TimedLabels, _mutex_lock_with_timeout, Timeout, TimedReturn, TimedDequeue
  <2> QED
    BY <1>1, <2>2, <2>3, <2>4, <2>5, <2>6, <2>7 DEF Continue
<1>2. ASSUME NEW t \in Threads, NEW l \in Locks, Call(t, l)
      PROVE  ReleaseInv'
  <2>1. CASE mutex_lock(t, l)
    BY <2>1, ReleaseStartLock
  <2>2. CASE mutex_trylock(t, l)
    BY <2>2, ReleaseTryLock
  <2>3. CASE mutex_unlock(t, l)
    BY <2>3, ReleaseUnlock
  <2>4. ASSUME NEW u \in Threads, mutex_transfer_lock(t, l, u)
        PROVE  ReleaseInv'
    BY <2>4, ReleaseTransfer
  <2>5. ASSUME NEW k \in Locks, mutex_switch_lock(t, l, k)
        PROVE  ReleaseInv'
    BY <2>5, ReleaseSwitch
  <2>6. CASE mutex_destroy(t, l)
    BY <2>6, ReleaseDestroy
  <2>7. ~mutex_lock_with_timeout(t, l)
    BY DEF ReleaseBuild, mutex_lock_with_timeout
  <2> QED
    BY <1>2, <2>1, <2>2, <2>3, <2>4, <2>5, <2>6, <2>7 DEF Call
<1>3. CASE UNCHANGED vars
  <2>1. UNCHANGED <<holder, count, released, waiters, waiter_thread, wait, spin,
                    destroyed, pc, at, from, own>>
    BY <1>3 DEF vars
  <2>2. Types'
    BY <2>1 DEF ReleaseInv, Types
  <2>3. \A l \in Locks : LockInv(l)'
    <3>1. \A l \in Locks : Arriving(l)' = Arriving(l) /\ Unlocking(l)' = Unlocking(l)
      BY <2>1 DEF Arriving, Unlocking
    <3> QED
      BY <2>1, <3>1, LockFrame DEF ReleaseInv, LockInv
  <2>4. \A t \in Threads : ThreadInv(t)'
    BY <2>1 DEF ReleaseInv, ThreadInv
  <2> QED
    BY <2>2, <2>3, <2>4 DEF ReleaseInv
<1> QED
  BY <1>1, <1>2, <1>3 DEF Next

(* The release build keeps the invariant.                                  *)
THEOREM ReleaseInvariant ==
  ASSUME ReleaseBuild
  PROVE  Spec => []ReleaseInv
<1>1. ReleaseBuild
  OBVIOUS
<1>2. Init => ReleaseInv
  BY ReleaseInitially
<1>3. ReleaseInv /\ [Next]_vars => ReleaseInv'
  BY ReleaseStep
<1> QED
  BY <1>2, <1>3, PTL DEF Spec

(* count stays between 0 and minus the number of threads, far from the     *)
(* INT16_MIN that mutex_destroy() writes, and everything else in its type. *)
THEOREM ReleaseTypeOK ==
  ASSUME ReleaseBuild
  PROVE  Spec => []TypeOK
<1>1. ReleaseInv => TypeOK
  <2> SUFFICES ASSUME ReleaseInv, NEW l \in Locks, ~destroyed[l]
               PROVE  count[l] \in -Cardinality(Threads) .. 0
    BY DEF ReleaseInv, Types, TypeOK
  <2> QED
    BY InterestedFinite DEF ReleaseInv, LockInv
<1> QED
  BY <1>1, ReleaseInvariant, PTL

(* One owner at a time, with nothing but atomic_adds on the fast paths:    *)
(* the RELEASED flag under the spinlock and the handover to the first      *)
(* waiter never both give the mutex away.                                  *)
THEOREM ReleaseMutualExclusion ==
  ASSUME ReleaseBuild
  PROVE  Spec => []MutualExclusion
<1>1. ReleaseInv => MutualExclusion
  BY DEF ReleaseInv, LockInv, Keepers, MutualExclusion
<1> QED
  BY <1>1, ReleaseInvariant, PTL

(* No wakeup is lost between the atomic_add of an unlocker and the section *)
(* under the spinlock in which a locker goes to sleep.                     *)
THEOREM ReleaseNoStrandedWaiter ==
  ASSUME ReleaseBuild
  PROVE  Spec => []NoStrandedWaiter
<1>1. ReleaseInv => NoStrandedWaiter
  <2> SUFFICES ASSUME ReleaseInv, NEW l \in Locks, ~destroyed[l], waiters[l] # <<>>
               PROVE  own[l] \cup Unlocking(l) # {}
    BY DEF NoStrandedWaiter
  <2>1. LockInv(l) /\ Types /\ waiters[l] \in Seq(Threads)
    BY DEF ReleaseInv, Types
  <2>2. Head(waiters[l]) \in Interested(l)
    BY <2>1, TailMembers DEF Interested
  <2>3. count[l] < 0
    BY <2>1, <2>2, InterestedFinite DEF LockInv
  <2> QED
    BY <2>1, <2>3 DEF LockInv, Keepers
<1> QED
  BY <1>1, ReleaseInvariant, PTL

(* The count of the release build is exact in every reachable state, and   *)
(* says when the mutex is in nobody's hands.                               *)
THEOREM ReleaseCountAccounting ==
  ASSUME ReleaseBuild
  PROVE  Spec => []CountAccounting
<1>1. ReleaseInv => CountAccounting
  <2> SUFFICES ASSUME ReleaseInv, NEW l \in Locks, ~destroyed[l]
               PROVE  /\ count[l] = -(Cardinality(own[l]) + Cardinality(Arriving(l))
                                        + Len(waiters[l]))
                      /\ Cardinality(own[l]) + Cardinality(Unlocking(l))
                           + (IF released[l] THEN 1 ELSE 0) = (IF count[l] < 0 THEN 1 ELSE 0)
    BY DEF CountAccounting
  <2> DEFINE A == Arriving(l)
             W == Range(waiters[l])
  <2>1. LockInv(l) /\ Types /\ waiters[l] \in Seq(Threads)
    BY DEF ReleaseInv, Types
  <2>2. own[l] \cap (A \cup W) = {} /\ A \cap W = {}
    <3>1. \A t \in A : pc[t] = "lock" /\ t \notin own[l]
      BY DEF Arriving, ReleaseInv, ThreadInv, TimedLabels
    <3> QED
      BY <2>1, <3>1 DEF LockInv
  <2>3. /\ IsFiniteSet(own[l]) /\ IsFiniteSet(A)
        /\ Interested(l) = own[l] \cup (A \cup W)
    <3>1. Interested(l) = own[l] \cup (A \cup W)
      BY DEF Interested
    <3>2. IsFiniteSet(Interested(l)) /\ own[l] \subseteq Interested(l) /\ A \subseteq Interested(l)
      BY <2>1, <3>1, InterestedFinite
    <3> HIDE DEF A, W
    <3> QED
      BY <3>1, <3>2, FS_Subset
  <2>4. IsFiniteSet(W) /\ Cardinality(W) = Len(waiters[l])
    BY <2>1, QueueLength DEF LockInv
  <2>5. Unlocking(l) \subseteq Threads
    BY DEF Unlocking
  <2>6. IsFiniteSet(Unlocking(l))
    BY <2>5, KernelMutexCapacity, FS_Subset
  <2> HIDE DEF A, W
  <2>7. Cardinality(Interested(l)) = Cardinality(own[l]) + Cardinality(A) + Len(waiters[l])
    <3>1. /\ Cardinality(A \cup W) = Cardinality(A) + Cardinality(W) - Cardinality(A \cap W)
          /\ IsFiniteSet(A \cup W)
      BY <2>3, <2>4, FS_Union
    <3>2. Cardinality(own[l] \cup (A \cup W))
            = Cardinality(own[l]) + Cardinality(A \cup W) - Cardinality(own[l] \cap (A \cup W))
      BY <2>3, <3>1, FS_Union
    <3>3. Cardinality({}) = 0
      BY FS_EmptySet
    <3>4. /\ Cardinality(own[l]) \in Nat /\ Cardinality(A) \in Nat /\ Cardinality(W) \in Nat
      BY <2>3, <2>4, FS_CardinalityType
    <3>5. Cardinality(A \cap W) = 0 /\ Cardinality(own[l] \cap (A \cup W)) = 0
      BY <2>2, <3>3
    <3>6. Cardinality(own[l] \cup (A \cup W))
            = Cardinality(own[l]) + Cardinality(A) + Cardinality(W)
      BY <3>1, <3>2, <3>4, <3>5
    <3> QED
      BY <2>3, <2>4, <3>6
  <2>8. Cardinality(own[l]) + Cardinality(Unlocking(l)) + (IF released[l] THEN 1 ELSE 0)
          = (IF count[l] < 0 THEN 1 ELSE 0)
    <3>1. /\ own[l] = {} => Cardinality(own[l]) = 0
          /\ Unlocking(l) = {} => Cardinality(Unlocking(l)) = 0
          /\ \A t : own[l] = {t} => Cardinality(own[l]) = 1
          /\ \A t : Unlocking(l) = {t} => Cardinality(Unlocking(l)) = 1
      BY FS_EmptySet, FS_Singleton
    <3>2. CASE own[l] # {}
      <4>1. PICK t \in own[l] : TRUE
        BY <3>2
      <4>2. Unlocking(l) = {} /\ ~released[l] /\ count[l] < 0
        BY <2>1, <4>1 DEF LockInv, Keepers
      <4>3. \A u \in own[l] : u = t
        BY <2>1, <4>1 DEF LockInv, Keepers
      <4>4. own[l] = {t}
        BY <4>1, <4>3
      <4> QED
        BY <3>1, <4>2, <4>4
    <3>3. CASE Unlocking(l) # {}
      <4>1. PICK t \in Unlocking(l) : TRUE
        BY <3>3
      <4>2. own[l] = {} /\ ~released[l] /\ count[l] < 0
        BY <2>1, <4>1 DEF LockInv, Keepers
      <4>3. \A u \in Unlocking(l) : u = t
        BY <2>1, <4>1 DEF LockInv, Keepers
      <4>4. Unlocking(l) = {t}
        BY <4>1, <4>3
      <4> QED
        BY <3>1, <4>2, <4>4
    <3>4. CASE own[l] = {} /\ Unlocking(l) = {}
      <4>1. count[l] < 0 <=> released[l]
        BY <2>1, <3>4 DEF LockInv, Keepers
      <4> QED
        BY <3>1, <3>4, <4>1
    <3> QED
      BY <3>2, <3>3, <3>4
  <2> QED
    BY <2>1, <2>7, <2>8 DEF LockInv, A
<1> QED
  BY <1>1, ReleaseInvariant, PTL

(* What lock.h promises of mutex_switch_lock(): nobody is about to touch a *)
(* guarded mutex that was destroyed under its guard.                       *)
THEOREM ReleaseNoUseAfterDestroy ==
  ASSUME ReleaseBuild
  PROVE  Spec => []NoUseAfterDestroy
<1>1. ReleaseInv => NoUseAfterDestroy
  <2> SUFFICES ASSUME ReleaseInv, NEW p \in GuardedBy, NEW t \in Threads,
                      destroyed[p[1]], pc[t] \in Touching, at[t] = p[1]
               PROVE  FALSE
    BY DEF NoUseAfterDestroy
  <2>1. at[t] \in Locks /\ ThreadInv(t) /\ LockInv(at[t])
    BY DEF ReleaseInv, Types
  <2>2. CASE pc[t] = "lock"
    BY <2>1, <2>2 DEF ThreadInv
  <2>3. CASE pc[t] = "unlock"
    BY <2>1, <2>3 DEF LockInv, Keepers, Unlocking
  <2>4. CASE pc[t] \in SwitchLabels
    BY <2>1, <2>4 DEF ThreadInv
  <2> QED
    BY <2>1, <2>2, <2>3, <2>4 DEF Touching, SwitchLabels, Switching, ThreadInv, TimedLabels
<1> QED
  BY <1>1, ReleaseInvariant, PTL

=============================================================================
