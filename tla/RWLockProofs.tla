---------------------------- MODULE RWLockProofs ----------------------------
(***************************************************************************)
(* Proofs about RWLock, for any number of threads within RWLockCapacity.   *)
(***************************************************************************)
EXTENDS RWLock, QueueLemmas

BASE == RW_LOCK_WRITER_COUNT_BASE

(* Where the variables range, but for the width of the int16 counters,     *)
(* which follows from the accounting.                                      *)
Types ==
  /\ count \in Int /\ owner_count \in Int
  /\ active_readers \in Int /\ pending_readers \in Int
  /\ holder \in Threads \cup {NoThread}
  /\ waiters \in Seq(Threads)
  /\ waiter_thread \in [Threads -> BOOLEAN]
  /\ wait \in [Threads -> WaitStatus]
  /\ pc \in [Threads -> Labels]
  /\ destroyed \in BOOLEAN
  /\ rd \in [Threads -> Nat] /\ wr \in [Threads -> Nat]

(* Thread t sleeps in the queue, and nobody has woken it but its timer.    *)
Sleeper(t) ==
  /\ pc[t] \in ReadWaiting \cup {"write_wait"}
  /\ rd[t] = 0
  /\ waiter_thread[t]
  /\ wait[t] # B_OK
  /\ pc[t] \in {"read_wait", "write_wait"} => wait[t] = Blocked

QueueInv == IsInjective(waiters) /\ \A t \in Queued : Sleeper(t) /\ holder # t

(* What a thread owns goes with where it is in the code.                   *)
ThreadInv(t) ==
  /\ rd[t] <= MaxNest
  /\ wr[t] > 0 <=> holder = t
  /\ t \in Arriving => rd[t] < MaxNest /\ (holder = t \/ rd[t] = 0)
  /\ pc[t] \in ReadWaiting \cup {"panic"} => holder # t
  /\ pc[t] = "write_wait" /\ t \notin Queued =>
       holder = t /\ wr[t] = 1 /\ rd[t] = 0 /\ wait[t] = B_OK
  /\ pc[t] \in {"read_wait", "write_wait"} /\ t \notin Queued => ~waiter_thread[t]

(* The writer is alone, and owner_count counts its locks, a read lock it   *)
(* is about to give up included.                                           *)
HolderInv ==
  holder # NoThread =>
    /\ \A u \in Threads : u # holder => rd[u] = 0 /\ u \notin Leaving
    /\ pc[holder] # "write_wait" =>
         owner_count = BASE * wr[holder] + rd[holder]
                         + (IF holder \in Leaving THEN 1 ELSE 0)

NC == Cardinality(Claiming)
NR == Cardinality(ReadLocks)
NA == Cardinality(Arriving)
NQ == Cardinality(QueuedReaders)
NL == Cardinality(Leaving)

(* ReaderAccounting, and that a reader which is about to be counted out is *)
(* waited for by a writer.                                                 *)
Accounting ==
  /\ count = BASE * NC + NR + NA + NQ
  /\ holder # NoThread => active_readers = 0 /\ pending_readers = 0
  /\ holder = NoThread /\ Claiming # {} =>
       active_readers = NR + NL /\ pending_readers \in 0 .. NA
  /\ Claiming = {} =>
       active_readers = 0 /\ pending_readers = NA /\ Leaving = {}

Served ==
  waiters # <<>> /\ holder = NoThread =>
    IsWriter(Head(waiters)) /\ (active_readers > 0 \/ pending_readers > 0)

AliveInv ==
  /\ QueueInv
  /\ \A t \in Threads : ThreadInv(t)
  /\ HolderInv
  /\ Accounting
  /\ Served

(* After rw_lock_destroy() nobody owns anything, and nobody gets it.       *)
DeadInv ==
  /\ active_readers = 0 /\ pending_readers = 0
  /\ \A t \in Threads :
       /\ rd[t] = 0 /\ wr[t] = 0
       /\ t \notin Leaving
       /\ t \in Arriving => holder # t
       /\ pc[t] = "write_wait" => wait[t] # B_OK

Inv ==
  /\ Types
  /\ ~destroyed => AliveInv
  /\ destroyed => DeadInv

-----------------------------------------------------------------------------
(* Counting read locks                                                     *)

(* Everything that is counted is finite, and the lock's capacity bounds    *)
(* what a counter can reach.                                               *)
LEMMA FiniteParts ==
  ASSUME Types
  PROVE  /\ IsFiniteSet(Claiming) /\ IsFiniteSet(ReadLocks) /\ IsFiniteSet(Arriving)
         /\ IsFiniteSet(QueuedReaders) /\ IsFiniteSet(Leaving)
         /\ NC \in Nat /\ NR \in Nat /\ NA \in Nat /\ NQ \in Nat /\ NL \in Nat
         /\ Queued \subseteq Threads
<1> USE RWLockConstants, RWLockCapacity
<1>1. Queued \subseteq Threads
  BY RangeOfSeq DEF Types, Queued
<1>2. Claiming \subseteq Threads /\ Arriving \subseteq Threads /\ Leaving \subseteq Threads
  BY DEF Claiming, Arriving, Leaving
<1>3. QueuedReaders \subseteq Threads
  BY <1>1 DEF QueuedReaders
<1>4. IsFiniteSet(Threads \X (1 .. MaxNest))
  <2>1. IsFiniteSet(1 .. MaxNest)
    <3>1. 1 \in Int /\ MaxNest \in Int
      OBVIOUS
    <3> QED
      BY <3>1, FS_Interval
  <2> QED
    BY <2>1, FS_Product
<1>5. ReadLocks \subseteq Threads \X (1 .. MaxNest)
  BY DEF ReadLocks
<1>6. /\ IsFiniteSet(Claiming) /\ IsFiniteSet(ReadLocks) /\ IsFiniteSet(Arriving)
      /\ IsFiniteSet(QueuedReaders) /\ IsFiniteSet(Leaving)
  BY <1>2, <1>3, <1>4, <1>5, FS_Subset
<1> QED
  BY <1>1, <1>6, FS_CardinalityType DEF NC, NR, NA, NQ, NL

(* A thread gets one more read lock. *)
LEMMA ReadLocksAdd ==
  ASSUME Types, NEW t \in Threads, rd[t] < MaxNest, rd' = [rd EXCEPT ![t] = @ + 1]
  PROVE  NR' = NR + 1
<1> USE RWLockConstants
<1> DEFINE p == <<t, rd[t] + 1>>
<1>1. rd[t] + 1 \in 1 .. MaxNest
  BY DEF Types
<1>2. ReadLocks' = ReadLocks \cup {p}
  <2>1. ASSUME NEW u \in Threads, NEW i \in 1 .. MaxNest
        PROVE  i <= rd'[u] <=> i <= rd[u] \/ (u = t /\ i = rd[t] + 1)
    <3>1. rd[u] \in Nat /\ rd[t] \in Nat /\ rd'[u] = IF u = t THEN rd[t] + 1 ELSE rd[u]
      BY DEF Types
    <3> QED
      BY <3>1
  <2> QED
    BY <1>1, <2>1 DEF ReadLocks
<1>3. p \notin ReadLocks
  BY DEF ReadLocks, Types
<1> QED
  BY <1>2, <1>3, FiniteParts, FS_AddElement DEF NR

(* A thread gives up one read lock. *)
LEMMA ReadLocksRemove ==
  ASSUME Types, NEW t \in Threads, rd[t] > 0, rd[t] <= MaxNest,
         rd' = [rd EXCEPT ![t] = @ - 1]
  PROVE  NR' = NR - 1
<1> USE RWLockConstants
<1> DEFINE p == <<t, rd[t]>>
<1>1. rd[t] \in 1 .. MaxNest
  BY DEF Types
<1>2. ReadLocks' = ReadLocks \ {p}
  <2>1. ASSUME NEW u \in Threads, NEW i \in 1 .. MaxNest
        PROVE  i <= rd'[u] <=> i <= rd[u] /\ ~(u = t /\ i = rd[t])
    <3>1. rd[u] \in Nat /\ rd[t] \in Nat /\ rd'[u] = IF u = t THEN rd[t] - 1 ELSE rd[u]
      BY DEF Types
    <3> QED
      BY <3>1
  <2> QED
    BY <1>1, <2>1 DEF ReadLocks
<1>3. p \in ReadLocks
  BY <1>1 DEF ReadLocks, Types
<1> QED
  BY <1>2, <1>3, FiniteParts, FS_RemoveElement DEF NR

(* Readers that own nothing get a read lock each. *)
LEMMA ReadLocksWoken ==
  ASSUME Types, NEW W \in SUBSET Threads, \A u \in W : rd[u] = 0,
         rd' = [u \in Threads |-> IF u \in W THEN rd[u] + 1 ELSE rd[u]]
  PROVE  NR' = NR + Cardinality(W)
<1> USE RWLockConstants, RWLockCapacity
<1> DEFINE P == {<<u, 1>> : u \in W}
<1>1. ReadLocks' = ReadLocks \cup P
  <2>1. ASSUME NEW u \in Threads, NEW i \in 1 .. MaxNest
        PROVE  i <= rd'[u] <=> i <= rd[u] \/ (u \in W /\ i = 1)
    <3>1. rd[u] \in Nat /\ rd'[u] = IF u \in W THEN 1 ELSE rd[u]
      BY DEF Types
    <3> QED
      BY <3>1
  <2>2. 1 \in 1 .. MaxNest
    OBVIOUS
  <2> QED
    BY <2>1, <2>2 DEF ReadLocks
<1>2. ReadLocks \cap P = {}
  BY DEF ReadLocks
<1>3. IsFiniteSet(W)
  BY FS_Subset
<1>4. IsFiniteSet(P) /\ Cardinality(P) = Cardinality(W)
  <2> DEFINE f == [u \in W |-> <<u, 1>>]
  <2>1. f \in Surjection(W, P)
    BY DEF Surjection
  <2>2. f \in Injection(W, P)
    BY DEF Injection, IsInjective
  <2> QED
    BY <1>3, <2>1, <2>2, FS_Surjection
<1>5. Cardinality(ReadLocks \cup P) = Cardinality(ReadLocks) + Cardinality(P)
                                        - Cardinality(ReadLocks \cap P)
  BY <1>4, FiniteParts, FS_Union
<1>6. Cardinality(ReadLocks \cap P) = 0
  BY <1>2, FS_EmptySet
<1>7. Cardinality(W) \in Nat /\ NR \in Nat
  BY <1>3, FS_CardinalityType, FiniteParts
<1> QED
  BY <1>1, <1>4, <1>5, <1>6, <1>7 DEF NR

(* When at most one thread reads, its read locks are all there are.        *)
LEMMA ReadLocksOf ==
  ASSUME Types, NEW t \in Threads, rd[t] <= MaxNest,
         \A u \in Threads : u # t => rd[u] = 0
  PROVE  NR = rd[t]
<1> USE RWLockConstants
<1>0. rd[t] \in 0 .. MaxNest
  BY DEF Types
<1>1. ReadLocks = {<<t, i>> : i \in 1 .. rd[t]}
  <2>1. ASSUME NEW u \in Threads, NEW i \in 1 .. MaxNest, i <= rd[u]
        PROVE  u = t /\ i \in 1 .. rd[t]
    BY <1>0, <2>1
  <2>2. \A i \in 1 .. rd[t] : i \in 1 .. MaxNest /\ i <= rd[t]
    BY <1>0
  <2>3. ReadLocks \subseteq {<<t, i>> : i \in 1 .. rd[t]}
    BY <2>1 DEF ReadLocks
  <2>4. {<<t, i>> : i \in 1 .. rd[t]} \subseteq ReadLocks
    BY <2>2 DEF ReadLocks
  <2> QED
    BY <2>3, <2>4
<1> DEFINE P == {<<t, i>> : i \in 1 .. rd[t]}
           f == [i \in 1 .. rd[t] |-> <<t, i>>]
<1>2. f \in Surjection(1 .. rd[t], P)
  BY DEF Surjection
<1>3. f \in Injection(1 .. rd[t], P)
  BY DEF Injection, IsInjective
<1>4. IsFiniteSet(1 .. rd[t]) /\ Cardinality(1 .. rd[t]) = rd[t]
  <2>1. 1 \in Int /\ rd[t] \in Int
    BY <1>0
  <2>2. /\ IsFiniteSet(1 .. rd[t])
        /\ Cardinality(1 .. rd[t]) = IF 1 > rd[t] THEN 0 ELSE rd[t] - 1 + 1
    BY <2>1, FS_Interval
  <2> QED
    BY <1>0, <2>2
<1>5. Cardinality(P) = rd[t]
  BY <1>2, <1>3, <1>4, FS_Surjection
<1> QED
  BY <1>1, <1>5 DEF NR

(* Nothing is counted that RWLockCapacity leaves no room for: the readers  *)
(* never add up to RW_LOCK_WRITER_COUNT_BASE.                              *)
LEMMA Bounds ==
  ASSUME Types, QueueInv
  PROVE  NR + NA + NQ <= B_INT16_MAX /\ NR + NL <= B_INT16_MAX
<1> USE RWLockConstants, RWLockCapacity
<1> DEFINE N == Cardinality(Threads)
<1>1. N \in Nat
  BY FS_CardinalityType
<1>2. NR <= N * MaxNest
  <2>1. IsFiniteSet(1 .. MaxNest) /\ Cardinality(1 .. MaxNest) = MaxNest
    <3>1. 1 \in Int /\ MaxNest \in Int
      OBVIOUS
    <3>2. /\ IsFiniteSet(1 .. MaxNest)
          /\ Cardinality(1 .. MaxNest) = IF 1 > MaxNest THEN 0 ELSE MaxNest - 1 + 1
      BY <3>1, FS_Interval
    <3> QED
      BY <3>2
  <2>2. /\ IsFiniteSet(Threads \X (1 .. MaxNest))
        /\ Cardinality(Threads \X (1 .. MaxNest)) = N * Cardinality(1 .. MaxNest)
    BY <2>1, FS_Product
  <2>3. ReadLocks \subseteq Threads \X (1 .. MaxNest)
    BY DEF ReadLocks
  <2>4. Cardinality(ReadLocks) <= Cardinality(Threads \X (1 .. MaxNest))
    BY <2>2, <2>3, FS_Subset
  <2> QED
    BY <2>1, <2>2, <2>4 DEF NR
<1>3. NA + NQ <= N
  <2>1. Arriving \cap QueuedReaders = {}
    BY DEF Arriving, QueuedReaders, QueueInv, Sleeper, ReadWaiting
  <2>2. Arriving \cup QueuedReaders \subseteq Threads
    BY FiniteParts DEF Arriving, QueuedReaders
  <2>3. Cardinality(Arriving \cup QueuedReaders) <= N
    BY <2>2, FS_Subset
  <2>4. Cardinality(Arriving \cup QueuedReaders) =
          NA + NQ - Cardinality(Arriving \cap QueuedReaders)
    BY FiniteParts, FS_Union DEF NA, NQ
  <2>5. Cardinality(Arriving \cap QueuedReaders) = 0
    BY <2>1, FS_EmptySet
  <2> QED
    BY <2>3, <2>4, <2>5, FiniteParts
<1>4. NL <= N
  <2>1. Leaving \subseteq Threads
    BY DEF Leaving
  <2> QED
    BY <2>1, FS_Subset DEF NL
<1>5. N * (MaxNest + 1) = N * MaxNest + N /\ N * MaxNest \in Nat
  BY <1>1
<1> QED
  BY <1>1, <1>2, <1>3, <1>4, <1>5, FiniteParts DEF B_INT16_MAX

(* count tells whether a writer has claimed the lock, and an unclaimed     *)
(* lock has no queue.                                                      *)
LEMMA Claims ==
  ASSUME Types, AliveInv
  PROVE  /\ count < BASE <=> Claiming = {}
         /\ Claiming = {} => holder = NoThread /\ waiters = <<>> /\ NC = 0 /\ NQ = 0
         /\ Claiming # {} => NC >= 1
         /\ waiters # <<>> => Head(waiters) \in Queued
         /\ NR + NA + NQ < BASE /\ NR + NL < BASE
<1> USE DEF AliveInv
<1>0. NR + NA + NQ < BASE /\ NR + NL < BASE
  BY Bounds, FiniteParts DEF B_INT16_MAX, BASE, RW_LOCK_WRITER_COUNT_BASE
<1>1. Claiming = {} <=> NC = 0
  BY FiniteParts, FS_EmptySet DEF NC
<1>2. count < BASE <=> Claiming = {}
  BY <1>0, <1>1, FiniteParts DEF Accounting, BASE, RW_LOCK_WRITER_COUNT_BASE
<1>3. waiters # <<>> => Head(waiters) \in Queued /\ Head(waiters) \in Threads
  BY TailMembers, FiniteParts DEF Types, Queued
<1>4. Claiming = {} => holder = NoThread
  BY DEF Claiming, Types
<1>5. Claiming = {} => waiters = <<>>
  BY <1>3, <1>4 DEF Served, Claiming
<1>6. waiters = <<>> => QueuedReaders = {}
  BY DEF QueuedReaders, Queued, Range
<1>7. Claiming = {} => NQ = 0
  BY <1>5, <1>6, FS_EmptySet DEF NQ
<1> QED
  BY <1>0, <1>1, <1>2, <1>3, <1>4, <1>5, <1>7, FiniteParts

(* rw_lock_init() establishes the invariant.                               *)
LEMMA Initially == Init => Inv
<1> SUFFICES ASSUME Init PROVE Inv
  OBVIOUS
<1> USE RWLockConstants DEF Init
<1>1. Types
  <2>1. waiters \in Seq(Threads)
    BY EmptySeq
  <2>2. wait \in [Threads -> WaitStatus] /\ pc \in [Threads -> Labels]
    BY DEF WaitStatus, Labels
  <2>3. /\ waiter_thread \in [Threads -> BOOLEAN] /\ destroyed \in BOOLEAN
        /\ rd \in [Threads -> Nat] /\ wr \in [Threads -> Nat]
    OBVIOUS
  <2> QED
    BY <2>1, <2>2, <2>3 DEF Types
<1>2. Queued = {} /\ QueuedReaders = {} /\ IsInjective(waiters)
  BY DEF Queued, QueuedReaders, Range, IsInjective
<1>3. Claiming = {} /\ Arriving = {} /\ Leaving = {} /\ ReadLocks = {}
  BY <1>2 DEF Claiming, Arriving, Leaving, ReadLocks
<1>4. NC = 0 /\ NR = 0 /\ NA = 0 /\ NQ = 0
  BY <1>2, <1>3, FS_EmptySet DEF NC, NR, NA, NQ
<1>5. Accounting
  BY <1>3, <1>4 DEF Accounting, BASE, RW_LOCK_WRITER_COUNT_BASE
<1>6. QueueInv /\ HolderInv /\ Served
  BY <1>2 DEF QueueInv, HolderInv, Served
<1>7. ASSUME NEW t \in Threads PROVE ThreadInv(t)
  BY <1>2, <1>3 DEF ThreadInv, ReadWaiting
<1> QED
  BY <1>1, <1>5, <1>6, <1>7 DEF Inv, AliveInv

-----------------------------------------------------------------------------
(* How a step changes what is counted                                      *)

Slow == {"read_slow", "timed_slow"}

(* A thread that goes to another label enters or leaves Arriving and       *)
(* Leaving.                                                                *)
LEMMA GotoCounts ==
  ASSUME Types, NEW t \in Threads, NEW label, Goto(t, label)
  PROVE  /\ Arriving' = IF label \in Slow THEN Arriving \cup {t} ELSE Arriving \ {t}
         /\ Leaving' = IF label = "unread_slow" THEN Leaving \cup {t} ELSE Leaving \ {t}
         /\ label \in Slow => NA' = IF t \in Arriving THEN NA ELSE NA + 1
         /\ label \notin Slow => NA' = IF t \in Arriving THEN NA - 1 ELSE NA
         /\ label = "unread_slow" => NL' = IF t \in Leaving THEN NL ELSE NL + 1
         /\ label # "unread_slow" => NL' = IF t \in Leaving THEN NL - 1 ELSE NL
<1>1. \A u \in Threads : pc'[u] = IF u = t THEN label ELSE pc[u]
  BY DEF Goto, Types
<1>2. Arriving' = IF label \in Slow THEN Arriving \cup {t} ELSE Arriving \ {t}
  BY <1>1 DEF Arriving, Slow
<1>3. Leaving' = IF label = "unread_slow" THEN Leaving \cup {t} ELSE Leaving \ {t}
  BY <1>1 DEF Leaving
<1>4. /\ Cardinality(Arriving \cup {t}) = IF t \in Arriving THEN NA ELSE NA + 1
      /\ Cardinality(Arriving \ {t}) = IF t \in Arriving THEN NA - 1 ELSE NA
  BY FiniteParts, FS_AddElement, FS_RemoveElement DEF NA
<1>5. /\ Cardinality(Leaving \cup {t}) = IF t \in Leaving THEN NL ELSE NL + 1
      /\ Cardinality(Leaving \ {t}) = IF t \in Leaving THEN NL - 1 ELSE NL
  BY FiniteParts, FS_AddElement, FS_RemoveElement DEF NL
<1>6. NA' = Cardinality(Arriving') /\ NL' = Cardinality(Leaving')
  BY DEF NA, NL
<1> QED
  BY <1>2, <1>3, <1>4, <1>5, <1>6

(* Queue and holder stay what they are. *)
LEMMA SameQueue ==
  ASSUME Types, waiters' = waiters, holder' = holder,
         \A u \in Queued : pc'[u] = "write_wait" <=> pc[u] = "write_wait"
  PROVE  /\ Queued' = Queued /\ QueuedReaders' = QueuedReaders /\ Claiming' = Claiming
         /\ NQ' = NQ /\ NC' = NC
<1>1. Queued' = Queued
  BY DEF Queued
<1>2. QueuedReaders' = QueuedReaders
  BY <1>1 DEF QueuedReaders, IsWriter
<1>3. Claiming' = Claiming
  BY <1>1 DEF Claiming, IsWriter
<1> QED
  BY <1>1, <1>2, <1>3 DEF NQ, NC

(* rd stays what it is. *)
LEMMA SameReads ==
  ASSUME rd' = rd
  PROVE  NR' = NR
BY DEF NR, ReadLocks

-----------------------------------------------------------------------------
(* The inline rw_lock_read_lock[_with_timeout]()                           *)
LEMMA StepReadLock ==
  ASSUME Inv, NEW t \in Threads, NEW slow \in Slow, ReadLock(t, slow)
  PROVE  Inv'
<1> USE DEF ReadLock, MayRead
<1>0. Types /\ AliveInv /\ ~destroyed /\ ~destroyed' /\ pc[t] = "idle"
  BY DEF Inv
<1>1. t \notin Queued /\ t \notin Arriving /\ t \notin Leaving
  BY <1>0 DEF AliveInv, QueueInv, Sleeper, ReadWaiting, Arriving, Leaving
<1>2. CASE count < BASE
  <2>1. /\ rd' = [rd EXCEPT ![t] = @ + 1] /\ count' = count + 1
        /\ UNCHANGED <<holder, owner_count, active_readers, pending_readers, waiters,
                       waiter_thread, wait, destroyed, wr, pc>>
    BY <1>0, <1>2 DEF BASE, Types, RW_LOCK_WRITER_COUNT_BASE
  <2>2. Claiming = {} /\ holder = NoThread /\ waiters = <<>>
    BY <1>0, <1>2, Claims
  <2>3. Types'
    BY <1>0, <2>1 DEF Types
  <2>4. /\ Queued' = Queued /\ Claiming' = Claiming /\ NQ' = NQ /\ NC' = NC
    BY <1>0, <2>1, SameQueue
  <2>5. Arriving' = Arriving /\ Leaving' = Leaving /\ NA' = NA
    BY <2>1 DEF Arriving, Leaving, NA
  <2>6. NR' = NR + 1
    BY <1>0, <2>1, ReadLocksAdd
  <2>7. Accounting'
    BY <1>0, <2>1, <2>2, <2>4, <2>5, <2>6, FiniteParts
    DEF AliveInv, Accounting, BASE, RW_LOCK_WRITER_COUNT_BASE
  <2>8. QueueInv' /\ HolderInv' /\ Served'
    BY <1>0, <2>1, <2>2, <2>4
    DEF AliveInv, QueueInv, HolderInv, Served, Queued, Range
  <2>9. ASSUME NEW u \in Threads PROVE ThreadInv(u)'
    <3>1. u # t => rd'[u] = rd[u]
      BY <1>0, <2>1 DEF Types
    <3>2. rd'[t] <= MaxNest
      BY <1>0, <2>1, RWLockConstants DEF Types
    <3>3. CASE u = t
      BY <1>0, <1>1, <2>1, <2>4, <2>5, <3>2, <3>3 DEF AliveInv, ThreadInv, ReadWaiting
    <3>4. CASE u # t
      BY <1>0, <2>1, <2>4, <2>5, <3>1, <3>4 DEF AliveInv, ThreadInv
    <3> QED
      BY <3>3, <3>4
  <2> QED
    BY <1>0, <2>3, <2>7, <2>8, <2>9 DEF Inv, AliveInv
<1>3. CASE ~(count < BASE)
  <2>1. /\ Goto(t, slow) /\ count' = count + 1
        /\ UNCHANGED <<holder, owner_count, active_readers, pending_readers, waiters,
                       waiter_thread, wait, destroyed, rd, wr>>
    BY <1>0, <1>3 DEF BASE, Types, RW_LOCK_WRITER_COUNT_BASE
  <2>2. Claiming # {}
    BY <1>0, <1>3, Claims
  <2>3. Types'
    BY <1>0, <2>1 DEF Types, Goto, Labels, Slow
  <2>4. \A u \in Threads : pc'[u] = IF u = t THEN slow ELSE pc[u]
    BY <1>0, <2>1 DEF Types, Goto
  <2>5. /\ Queued' = Queued /\ Claiming' = Claiming /\ NQ' = NQ /\ NC' = NC
    BY <1>0, <1>1, <2>1, <2>4, SameQueue, FiniteParts
  <2>6. /\ Arriving' = Arriving \cup {t} /\ Leaving' = Leaving
        /\ NA' = NA + 1 /\ NL' = NL
    BY <1>0, <1>1, <2>1, GotoCounts DEF Slow
  <2>7. NR' = NR
    BY <2>1, SameReads
  <2>8. Accounting'
    BY <1>0, <2>1, <2>2, <2>5, <2>6, <2>7, FiniteParts
    DEF AliveInv, Accounting, BASE, RW_LOCK_WRITER_COUNT_BASE
  <2>9. QueueInv'
    BY <1>0, <1>1, <2>1, <2>4, <2>5, FiniteParts DEF AliveInv, QueueInv, Sleeper
  <2>10. HolderInv'
    BY <1>0, <2>1, <2>4, <2>6, RWLockConstants DEF AliveInv, HolderInv, Types, Slow
  <2>11. Served'
    BY <1>0, <1>1, <2>1, <2>4, Claims, FiniteParts DEF AliveInv, Served, IsWriter
  <2>12. ASSUME NEW u \in Threads PROVE ThreadInv(u)'
    <3>1. CASE u = t
      BY <1>0, <2>1, <2>4, <3>1 DEF AliveInv, ThreadInv, ReadWaiting, Slow, Types
    <3>2. CASE u # t
      BY <1>0, <2>1, <2>4, <2>5, <2>6, <3>2 DEF AliveInv, ThreadInv
    <3> QED
      BY <3>1, <3>2
  <2> QED
    BY <1>0, <2>3, <2>8, <2>9, <2>10, <2>11, <2>12 DEF Inv, AliveInv
<1> QED
  BY <1>2, <1>3

(* A reader in the slow path of the lock it writes                         *)
LEMMA StepSlowHolder ==
  ASSUME Types, AliveInv, ~destroyed, NEW t \in Threads, t \in Arriving, holder = t,
         owner_count' = owner_count + 1, rd' = [rd EXCEPT ![t] = @ + 1],
         Goto(t, "idle"),
         UNCHANGED <<count, holder, active_readers, pending_readers, waiters,
                     waiter_thread, wait, destroyed, wr>>
  PROVE  Types' /\ AliveInv'
<1> USE RWLockConstants
<1>0. pc[t] \in Slow /\ rd[t] < MaxNest /\ holder # NoThread
  BY DEF Arriving, Slow, AliveInv, ThreadInv
<1>1. t \notin Queued /\ t \notin Leaving
  BY <1>0 DEF AliveInv, QueueInv, Leaving, Slow
<1>2. Types'
  BY DEF Types, Goto, Labels
<1>3. \A u \in Threads : /\ pc'[u] = IF u = t THEN "idle" ELSE pc[u]
                         /\ rd'[u] = IF u = t THEN rd[t] + 1 ELSE rd[u]
  BY DEF Types, Goto
<1>4. Queued' = Queued /\ Claiming' = Claiming /\ NQ' = NQ /\ NC' = NC
  BY <1>1, <1>3, SameQueue, FiniteParts
<1>5. Arriving' = Arriving \ {t} /\ Leaving' = Leaving /\ NA' = NA - 1
  <2>1. "idle" \notin Slow /\ "idle" # "unread_slow"
    BY DEF Slow
  <2>2. Arriving' = Arriving \ {t} /\ Leaving' = Leaving \ {t} /\ NA' = NA - 1
    BY <2>1, GotoCounts
  <2> QED
    BY <1>1, <2>2
<1>6. NR' = NR + 1
  BY <1>0, ReadLocksAdd
<1>7. Accounting'
  BY <1>0, <1>4, <1>5, <1>6, FiniteParts
  DEF AliveInv, Accounting, Claiming, BASE, RW_LOCK_WRITER_COUNT_BASE
<1>8. QueueInv'
  BY <1>1, <1>3, <1>4, FiniteParts DEF AliveInv, QueueInv, Sleeper
<1>9. HolderInv'
  BY <1>0, <1>1, <1>3, <1>5
  DEF AliveInv, HolderInv, Types, Slow, BASE, RW_LOCK_WRITER_COUNT_BASE
<1>10. Served'
  BY <1>0 DEF Served
<1>11. ASSUME NEW u \in Threads PROVE ThreadInv(u)'
  <2>1. CASE u = t
    BY <1>0, <1>2, <1>3, <1>5, <2>1 DEF AliveInv, ThreadInv, ReadWaiting, Types
  <2>2. CASE u # t
    BY <1>3, <1>4, <1>5, <2>2 DEF AliveInv, ThreadInv
  <2> QED
    BY <2>1, <2>2
<1> QED
  BY <1>2, <1>7, <1>8, <1>9, <1>10, <1>11 DEF AliveInv

(* A reader takes one of the places pending_readers holds for it.          *)
LEMMA StepSlowPending ==
  ASSUME Types, AliveInv, ~destroyed, NEW t \in Threads, t \in Arriving, holder # t,
         pending_readers > 0, pending_readers' = pending_readers - 1,
         active_readers' = ActiveAfterPending, rd' = [rd EXCEPT ![t] = @ + 1],
         Goto(t, "idle"),
         UNCHANGED <<count, holder, owner_count, waiters, waiter_thread, wait,
                     destroyed, wr>>
  PROVE  Types' /\ AliveInv'
<1> USE RWLockConstants
<1>0. pc[t] \in Slow /\ rd[t] < MaxNest /\ rd[t] = 0 /\ holder = NoThread
  BY DEF Arriving, Slow, AliveInv, ThreadInv, Accounting
<1>1. t \notin Queued /\ t \notin Leaving
  BY <1>0 DEF AliveInv, QueueInv, Sleeper, ReadWaiting, Leaving, Slow
<1>2. Types'
  BY DEF Types, Goto, Labels, ActiveAfterPending
<1>3. \A u \in Threads : /\ pc'[u] = IF u = t THEN "idle" ELSE pc[u]
                         /\ rd'[u] = IF u = t THEN rd[t] + 1 ELSE rd[u]
  BY DEF Types, Goto
<1>4. Queued' = Queued /\ Claiming' = Claiming /\ NQ' = NQ /\ NC' = NC
  BY <1>1, <1>3, SameQueue, FiniteParts
<1>5. Arriving' = Arriving \ {t} /\ Leaving' = Leaving /\ NA' = NA - 1 /\ NL' = NL
  BY <1>1, GotoCounts DEF Slow
<1>6. NR' = NR + 1
  BY <1>0, ReadLocksAdd
<1>7. active_readers' = IF Claiming = {} THEN active_readers ELSE active_readers + 1
  BY Claims DEF ActiveAfterPending, BASE, Types, RW_LOCK_WRITER_COUNT_BASE
<1>8. Accounting'
  <2>1. count' = BASE * NC' + NR' + NA' + NQ'
    BY <1>4, <1>5, <1>6, FiniteParts
    DEF AliveInv, Accounting, BASE, RW_LOCK_WRITER_COUNT_BASE
  <2>2. CASE Claiming = {}
    BY <1>0, <1>4, <1>5, <1>7, <2>1, <2>2, FiniteParts DEF AliveInv, Accounting
  <2>3. CASE Claiming # {}
    <3>1. active_readers = NR + NL /\ pending_readers \in 0 .. NA
      BY <1>0, <2>3 DEF AliveInv, Accounting
    <3>2. active_readers' = NR' + NL' /\ pending_readers' \in 0 .. NA'
      BY <1>5, <1>6, <1>7, <2>3, <3>1, FiniteParts
    <3> QED
      BY <1>0, <1>4, <2>1, <2>3, <3>2 DEF Accounting
  <2> QED
    BY <2>2, <2>3
<1>9. QueueInv'
  BY <1>1, <1>3, <1>4, FiniteParts DEF AliveInv, QueueInv, Sleeper
<1>10. HolderInv'
  BY <1>0 DEF HolderInv
<1>11. Served'
  <2> SUFFICES ASSUME waiters # <<>>
               PROVE  IsWriter(Head(waiters))' /\ active_readers' > 0
    BY DEF Served
  <2>1. IsWriter(Head(waiters)) /\ Head(waiters) \in Queued
    BY <1>0, Claims DEF AliveInv, Served
  <2>2. Claiming # {}
    BY Claims
  <2>3. active_readers' = active_readers + 1 /\ active_readers = NR + NL
    BY <1>0, <1>7, <2>2 DEF AliveInv, Accounting
  <2> QED
    BY <1>1, <1>3, <2>1, <2>3, FiniteParts DEF IsWriter
<1>12. ASSUME NEW u \in Threads PROVE ThreadInv(u)'
  <2>1. CASE u = t
    BY <1>0, <1>1, <1>2, <1>3, <1>4, <1>5, <2>1 DEF AliveInv, ThreadInv, ReadWaiting, Types
  <2>2. CASE u # t
    BY <1>3, <1>4, <1>5, <2>2 DEF AliveInv, ThreadInv
  <2> QED
    BY <2>1, <2>2
<1> QED
  BY <1>2, <1>8, <1>9, <1>10, <1>11, <1>12 DEF AliveInv

(* A thread goes to sleep at the end of the queue.                         *)
LEMMA QueueGrows ==
  ASSUME Types, QueueInv, NEW t \in Threads, t \notin Queued,
         NEW label \in {"read_wait", "timed_wait", "write_wait"},
         rw_lock_wait(t, label), holder' = holder
  PROVE  /\ waiters' \in Seq(Threads) /\ waiters' # <<>>
         /\ Queued' = Queued \cup {t} /\ IsInjective(waiters')
         /\ waiters # <<>> => Head(waiters') = Head(waiters)
         /\ waiters = <<>> => Head(waiters') = t
         /\ \A u \in Threads : pc'[u] = IF u = t THEN label ELSE pc[u]
         /\ \A u \in Threads : u # t => wait'[u] = wait[u] /\ waiter_thread'[u] = waiter_thread[u]
         /\ wait'[t] = Blocked /\ waiter_thread'[t]
         /\ wait' \in [Threads -> WaitStatus] /\ waiter_thread' \in [Threads -> BOOLEAN]
         /\ pc' \in [Threads -> Labels]
         /\ label = "write_wait" =>
              /\ QueuedReaders' = QueuedReaders /\ NQ' = NQ
              /\ Claiming' = Claiming \cup {t}
              /\ holder # t => NC' = NC + 1
         /\ label # "write_wait" =>
              /\ NQ' = NQ + 1
              /\ holder # t /\ pc[t] # "write_wait" => Claiming' = Claiming /\ NC' = NC
<1> USE DEF rw_lock_wait
<1>1. /\ waiters' \in Seq(Threads) /\ waiters' # <<>>
      /\ Queued' = Queued \cup {t} /\ IsInjective(waiters')
      /\ waiters # <<>> => Head(waiters') = Head(waiters)
  BY AppendMembers DEF Types, Queued, QueueInv
<1>2. waiters = <<>> => Head(waiters') = t
  BY HeadTailAppend DEF Types
<1>3. /\ \A u \in Threads : pc'[u] = IF u = t THEN label ELSE pc[u]
      /\ pc' \in [Threads -> Labels]
  BY DEF Types, Goto, Labels, ReadWaiting
<1>4. /\ \A u \in Threads : u # t => wait'[u] = wait[u] /\ waiter_thread'[u] = waiter_thread[u]
      /\ wait'[t] = Blocked /\ waiter_thread'[t]
      /\ wait' \in [Threads -> WaitStatus] /\ waiter_thread' \in [Threads -> BOOLEAN]
  BY DEF Types, thread_prepare_to_block, WaitStatus
<1>5. ASSUME label = "write_wait"
      PROVE  /\ QueuedReaders' = QueuedReaders /\ NQ' = NQ
             /\ Claiming' = Claiming \cup {t}
             /\ holder # t => NC' = NC + 1
  <2>1. QueuedReaders' = QueuedReaders
    BY <1>1, <1>3, <1>5, FiniteParts DEF QueuedReaders, IsWriter
  <2>2. Claiming' = Claiming \cup {t}
    BY <1>1, <1>3, <1>5 DEF Claiming, IsWriter
  <2>3. holder # t => t \notin Claiming
    BY DEF Claiming
  <2> QED
    BY <2>1, <2>2, <2>3, FiniteParts, FS_AddElement DEF NQ, NC
<1>6. ASSUME label # "write_wait"
      PROVE  /\ NQ' = NQ + 1
             /\ holder # t /\ pc[t] # "write_wait" => Claiming' = Claiming /\ NC' = NC
  <2>1. QueuedReaders' = QueuedReaders \cup {t} /\ t \notin QueuedReaders
    BY <1>1, <1>3, <1>6, FiniteParts DEF QueuedReaders, IsWriter
  <2>2. holder # t /\ pc[t] # "write_wait" => Claiming' = Claiming
    BY <1>1, <1>3, <1>6 DEF Claiming, IsWriter
  <2> QED
    BY <2>1, <2>2, FiniteParts, FS_AddElement DEF NQ, NC
<1> QED
  BY <1>1, <1>2, <1>3, <1>4, <1>5, <1>6

(* A reader starts to wait: a writer is in the way.                        *)
LEMMA StepSlowWait ==
  ASSUME Types, AliveInv, ~destroyed, NEW t \in Threads, t \in Arriving, holder # t,
         pending_readers = 0, NEW label \in {"read_wait", "timed_wait"},
         rw_lock_wait(t, label),
         UNCHANGED <<count, holder, owner_count, active_readers, pending_readers, rd,
                     destroyed, wr>>
  PROVE  Types' /\ AliveInv'
<1> USE RWLockConstants
<1>0. pc[t] \in Slow /\ rd[t] = 0
  BY DEF Arriving, Slow, AliveInv, ThreadInv
<1>1. t \notin Queued /\ t \notin Leaving /\ QueueInv
  BY <1>0 DEF AliveInv, QueueInv, Sleeper, ReadWaiting, Leaving, Slow
<1>2. /\ waiters' \in Seq(Threads) /\ waiters' # <<>>
      /\ Queued' = Queued \cup {t} /\ IsInjective(waiters')
      /\ waiters # <<>> => Head(waiters') = Head(waiters)
      /\ \A u \in Threads : pc'[u] = IF u = t THEN label ELSE pc[u]
      /\ \A u \in Threads : u # t => wait'[u] = wait[u] /\ waiter_thread'[u] = waiter_thread[u]
      /\ wait'[t] = Blocked /\ waiter_thread'[t]
      /\ wait' \in [Threads -> WaitStatus] /\ waiter_thread' \in [Threads -> BOOLEAN]
      /\ pc' \in [Threads -> Labels]
  BY <1>1, QueueGrows
<1>3. NQ' = NQ + 1 /\ Claiming' = Claiming /\ NC' = NC
  <2>1. pc[t] # "write_wait"
    BY <1>0 DEF Slow
  <2>2. label # "write_wait"
    OBVIOUS
  <2> QED
    BY <1>1, <2>1, <2>2, QueueGrows
<1>4. Types'
  BY <1>2 DEF Types
<1>5. Arriving' = Arriving \ {t} /\ Leaving' = Leaving /\ NA' = NA - 1 /\ NL' = NL
  <2>1. label \notin Slow /\ label # "unread_slow" /\ Goto(t, label)
    BY DEF Slow, rw_lock_wait
  <2>2. /\ Arriving' = Arriving \ {t} /\ Leaving' = Leaving \ {t}
        /\ NA' = NA - 1 /\ NL' = NL
    BY <1>1, <2>1, GotoCounts
  <2> QED
    BY <1>1, <2>2
<1>6. NR' = NR
  BY SameReads
<1>7. Claiming # {}
  <2>1. NA >= 1
    BY FiniteParts, FS_EmptySet DEF NA
  <2> QED
    BY <2>1 DEF AliveInv, Accounting
<1>8. Accounting'
  <2>1. count' = BASE * NC' + NR' + NA' + NQ'
    BY <1>3, <1>5, <1>6, FiniteParts
    DEF AliveInv, Accounting, BASE, RW_LOCK_WRITER_COUNT_BASE
  <2>2. NA' \in Nat
    BY <1>5, FiniteParts, FS_EmptySet DEF NA
  <2>3. holder' = NoThread => active_readers' = NR' + NL' /\ pending_readers' \in 0 .. NA'
    BY <1>5, <1>6, <1>7, <2>2 DEF AliveInv, Accounting
  <2>4. holder' # NoThread => active_readers' = 0 /\ pending_readers' = 0
    BY DEF AliveInv, Accounting
  <2> QED
    BY <1>3, <1>7, <2>1, <2>3, <2>4 DEF Accounting
<1>9. QueueInv'
  <2>1. Sleeper(t)' /\ holder' # t
    BY <1>0, <1>2 DEF Sleeper, ReadWaiting, Blocked, B_OK
  <2>2. ASSUME NEW u \in Queued PROVE Sleeper(u)' /\ holder' # u
    <3>1. u \in Threads /\ u # t /\ Sleeper(u) /\ holder # u
      BY <1>1, FiniteParts DEF QueueInv
    <3> QED
      BY <1>2, <3>1 DEF Sleeper
  <2> QED
    BY <1>2, <2>1, <2>2 DEF QueueInv
<1>10. HolderInv'
  BY <1>2, <1>5 DEF AliveInv, HolderInv, Types
<1>11. Served'
  <2> SUFFICES ASSUME holder = NoThread
               PROVE  IsWriter(Head(waiters))' /\ active_readers' > 0
    BY DEF Served
  <2>1. waiters # <<>>
    <3>1. PICK c \in Claiming : c \in Queued
      BY <1>7 DEF Claiming
    <3> QED
      BY <3>1 DEF Queued, Range
  <2>2. IsWriter(Head(waiters)) /\ Head(waiters) \in Queued /\ active_readers > 0
    BY <2>1, Claims DEF AliveInv, Served
  <2> QED
    BY <1>1, <1>2, <2>1, <2>2, FiniteParts DEF IsWriter
<1>12. ASSUME NEW u \in Threads PROVE ThreadInv(u)'
  <2>1. CASE u = t
    BY <1>0, <1>2, <1>5, <2>1 DEF AliveInv, ThreadInv, ReadWaiting
  <2>2. CASE u # t
    BY <1>2, <1>5, <2>2 DEF AliveInv, ThreadInv
  <2> QED
    BY <2>1, <2>2
<1> QED
  BY <1>4, <1>8, <1>9, <1>10, <1>11, <1>12 DEF AliveInv

(* A thread that is not in the queue, not arriving and not leaving moves   *)
(* on in the code: nothing that is counted changes.                        *)
LEMMA StepMove ==
  ASSUME Types, AliveInv, NEW t \in Threads, NEW label \in Labels,
         t \notin Arriving, t \notin Leaving, Goto(t, label),
         label \notin Slow, label \notin {"unread_slow", "write_wait", "read_wait"},
         pc[t] \in ReadWaiting, t \in Queued => label \in ReadWaiting,
         label \in ReadWaiting \cup {"idle", "panic"},
         UNCHANGED <<count, holder, owner_count, active_readers, pending_readers,
                     waiters, waiter_thread, wait, destroyed, rd, wr>>
  PROVE  Types' /\ AliveInv'
<1> USE RWLockConstants
<1>1. Types'
  BY DEF Types, Goto
<1>2. \A u \in Threads : pc'[u] = IF u = t THEN label ELSE pc[u]
  BY DEF Types, Goto
<1>3. pc[t] # "write_wait"
  BY DEF ReadWaiting
<1>4. Queued' = Queued /\ Claiming' = Claiming /\ NQ' = NQ /\ NC' = NC
  BY <1>2, <1>3, SameQueue, FiniteParts
<1>5. Arriving' = Arriving /\ Leaving' = Leaving /\ NA' = NA /\ NL' = NL
  <2>1. /\ Arriving' = Arriving \ {t} /\ Leaving' = Leaving \ {t}
        /\ NA' = NA /\ NL' = NL
    BY GotoCounts
  <2> QED
    BY <2>1
<1>6. NR' = NR
  BY SameReads
<1>7. Accounting'
  BY <1>4, <1>5, <1>6 DEF AliveInv, Accounting
<1>8. QueueInv'
  <2> SUFFICES ASSUME NEW u \in Queued PROVE Sleeper(u)' /\ holder' # u
    BY <1>4 DEF AliveInv, QueueInv
  <2>1. u \in Threads /\ Sleeper(u) /\ holder # u
    BY FiniteParts DEF AliveInv, QueueInv
  <2> QED
    BY <1>2, <2>1 DEF Sleeper
<1>9. HolderInv'
  BY <1>2, <1>3, <1>5 DEF AliveInv, HolderInv, ThreadInv, Types
<1>10. Served'
  BY <1>2, <1>3, Claims, FiniteParts DEF AliveInv, Served, IsWriter
<1>11. ASSUME NEW u \in Threads PROVE ThreadInv(u)'
  <2>1. CASE u = t
    BY <1>2, <1>3, <1>4, <1>5, <2>1 DEF AliveInv, ThreadInv, ReadWaiting
  <2>2. CASE u # t
    BY <1>2, <1>4, <1>5, <2>2 DEF AliveInv, ThreadInv
  <2> QED
    BY <2>1, <2>2
<1> QED
  BY <1>1, <1>7, <1>8, <1>9, <1>10, <1>11 DEF AliveInv

(* The timer of a waiting reader fires.                                    *)
LEMMA StepTimeout ==
  ASSUME Types, AliveInv, NEW t \in Threads, Timeout(t)
  PROVE  Types' /\ AliveInv'
<1> USE DEF Timeout, lockVars
<1>1. /\ wait' \in [Threads -> WaitStatus] /\ wait'[t] = B_TIMED_OUT
      /\ \A u \in Threads : u # t => wait'[u] = wait[u]
  BY DEF Types, thread_block_timeout, thread_unblock, thread_is_blocked, WaitStatus
<1>2. Types'
  BY <1>1 DEF Types
<1>3. /\ Queued' = Queued /\ Claiming' = Claiming /\ Arriving' = Arriving
      /\ Leaving' = Leaving /\ NC' = NC /\ NQ' = NQ /\ NA' = NA /\ NL' = NL /\ NR' = NR
  BY DEF Queued, Claiming, Arriving, Leaving, QueuedReaders, ReadLocks, IsWriter,
         NC, NQ, NA, NL, NR
<1>4. Accounting'
  BY <1>3 DEF AliveInv, Accounting
<1>5. QueueInv'
  BY <1>1, <1>3, FiniteParts DEF AliveInv, QueueInv, Sleeper, B_TIMED_OUT, B_OK
<1>6. HolderInv' /\ Served'
  BY <1>3 DEF AliveInv, HolderInv, Served, IsWriter
<1>7. ASSUME NEW u \in Threads PROVE ThreadInv(u)'
  BY <1>1, <1>3 DEF AliveInv, ThreadInv
<1> QED
  BY <1>2, <1>4, <1>5, <1>6, <1>7 DEF AliveInv

(* A reader that timed out takes itself off the queue.                     *)
LEMMA StepTimedDequeue ==
  ASSUME Types, AliveInv, ~destroyed, NEW t \in Threads, pc[t] = "timed_dequeue",
         NEW i \in DOMAIN waiters, waiters[i] = t, waiters' = RemoveAt(waiters, i),
         count' = count - 1, Goto(t, "idle"),
         UNCHANGED <<holder, owner_count, active_readers, pending_readers,
                     waiter_thread, wait, destroyed, rd, wr>>
  PROVE  Types' /\ AliveInv'
<1> USE RWLockConstants
<1>0. t \in Queued /\ t \notin Arriving /\ t \notin Leaving /\ IsInjective(waiters)
  BY DEF Queued, Range, Arriving, Leaving, AliveInv, QueueInv
<1>1. /\ waiters' \in Seq(Threads) /\ IsInjective(waiters')
      /\ Queued = Queued' \cup {t} /\ t \notin Queued'
      /\ Len(waiters') = Len(waiters) - 1
      /\ \A j \in 1 .. Len(waiters) - 1 :
           waiters'[j] = waiters[IF j < i THEN j ELSE j + 1]
  <2>1. waiters \in Seq(Threads)
    BY DEF Types
  <2>2. /\ RemoveAt(waiters, i) \in Seq(Threads)
        /\ Len(RemoveAt(waiters, i)) = Len(waiters) - 1
        /\ \A j \in 1 .. Len(waiters) - 1 :
             RemoveAt(waiters, i)[j] = waiters[IF j < i THEN j ELSE j + 1]
        /\ Range(waiters) = Range(RemoveAt(waiters, i)) \cup {t}
        /\ IsInjective(RemoveAt(waiters, i)) /\ t \notin Range(RemoveAt(waiters, i))
    BY <1>0, <2>1, RemoveAtMembers, Zenon
  <2>3. Queued = Range(waiters) /\ Queued' = Range(RemoveAt(waiters, i))
    BY DEF Queued
  <2> QED
    BY <2>2, <2>3
<1>2. Types'
  <2>1. pc' \in [Threads -> Labels] /\ count' \in Int
    BY DEF Types, Goto, Labels
  <2> QED
    BY <1>1, <2>1 DEF Types
<1>3. \A u \in Threads : pc'[u] = IF u = t THEN "idle" ELSE pc[u]
  BY DEF Types, Goto
<1>4. QueuedReaders' = QueuedReaders \ {t} /\ t \in QueuedReaders
  BY <1>0, <1>1, <1>3, FiniteParts DEF QueuedReaders, IsWriter
<1>5. Claiming' = Claiming
  BY <1>0, <1>1, <1>3 DEF Claiming, IsWriter
<1>6. NQ' = NQ - 1 /\ NC' = NC
  BY <1>4, <1>5, FiniteParts, FS_RemoveElement DEF NQ, NC
<1>7. Arriving' = Arriving /\ Leaving' = Leaving /\ NA' = NA /\ NL' = NL
  <2>1. "idle" \notin Slow /\ "idle" # "unread_slow"
    BY DEF Slow
  <2>2. /\ Arriving' = Arriving \ {t} /\ Leaving' = Leaving \ {t}
        /\ NA' = NA /\ NL' = NL
    BY <1>0, <2>1, GotoCounts
  <2> QED
    BY <1>0, <2>2
<1>8. NR' = NR
  BY SameReads
<1>9. Accounting'
  BY <1>5, <1>6, <1>7, <1>8, FiniteParts
  DEF AliveInv, Accounting, BASE, RW_LOCK_WRITER_COUNT_BASE
<1>10. QueueInv'
  <2> SUFFICES ASSUME NEW u \in Queued' PROVE Sleeper(u)' /\ holder' # u
    BY <1>1 DEF QueueInv
  <2>1. u \in Threads /\ u # t /\ Sleeper(u) /\ holder # u
    BY <1>1, FiniteParts DEF AliveInv, QueueInv
  <2> QED
    BY <1>3, <2>1 DEF Sleeper
<1>11. HolderInv'
  BY <1>3, <1>7 DEF AliveInv, HolderInv, ThreadInv, Types
<1>12. Served'
  <2> SUFFICES ASSUME holder = NoThread, waiters' # <<>>
               PROVE  IsWriter(Head(waiters))'
                        /\ (active_readers' > 0 \/ pending_readers' > 0)
    BY DEF Served
  <2>1. waiters # <<>> /\ Len(waiters) \in Nat /\ DOMAIN waiters = 1 .. Len(waiters)
    BY LenProperties, EmptySeq DEF Types
  <2>2. IsWriter(Head(waiters)) /\ (active_readers > 0 \/ pending_readers > 0)
    BY <2>1 DEF AliveInv, Served
  <2>3. i # 1
    BY <2>1, <2>2 DEF IsWriter
  <2>4. Len(waiters') \in Nat \ {0}
    BY <1>1, EmptySeq
  <2>5. Head(waiters') = waiters'[1] /\ Head(waiters) = waiters[1]
    OBVIOUS
  <2>6. Head(waiters') = Head(waiters)
    BY <1>1, <2>1, <2>3, <2>4, <2>5
  <2>7. Head(waiters) \in Threads /\ Head(waiters) # t
    BY <2>1, <2>2, Claims, FiniteParts DEF IsWriter
  <2> QED
    BY <1>3, <2>2, <2>6, <2>7 DEF IsWriter
<1>13. ASSUME NEW u \in Threads PROVE ThreadInv(u)'
  <2>1. CASE u = t
    BY <1>3, <1>7, <2>1 DEF AliveInv, ThreadInv, ReadWaiting, Arriving
  <2>2. CASE u # t
    BY <1>1, <1>3, <1>7, <2>2 DEF AliveInv, ThreadInv
  <2> QED
    BY <2>1, <2>2
<1> QED
  BY <1>2, <1>9, <1>10, <1>11, <1>12, <1>13 DEF AliveInv

(* A thread gives back a read lock with one atomic_add: at once, or, with  *)
(* a writer about, on the way to _rw_lock_read_unlock().                   *)
LEMMA StepReadUnlock ==
  ASSUME Types, AliveInv, NEW t \in Threads, rw_lock_read_unlock(t)
  PROVE  Types' /\ AliveInv'
<1> USE RWLockConstants DEF rw_lock_read_unlock
<1>0. pc[t] = "idle" /\ rd[t] > 0 /\ rd[t] <= MaxNest
  BY DEF AliveInv, ThreadInv
<1>1. t \notin Queued /\ t \notin Arriving /\ t \notin Leaving
  BY <1>0 DEF AliveInv, QueueInv, Sleeper, ReadWaiting, Arriving, Leaving
<1>2. /\ \A u \in Threads : rd'[u] = IF u = t THEN rd[t] - 1 ELSE rd[u]
      /\ rd' \in [Threads -> Nat]
  BY <1>0 DEF Types
<1>3. NR' = NR - 1
  BY <1>0, ReadLocksRemove
<1>4. CASE count < BASE
  <2>1. UNCHANGED pc
    BY <1>4 DEF BASE, Types, RW_LOCK_WRITER_COUNT_BASE
  <2>2. Claiming = {} /\ holder = NoThread /\ waiters = <<>>
    BY <1>4, Claims
  <2>3. Types'
    BY <1>2, <2>1 DEF Types
  <2>4. Queued' = Queued /\ Claiming' = Claiming /\ NQ' = NQ /\ NC' = NC
    BY <2>1, SameQueue
  <2>5. Arriving' = Arriving /\ Leaving' = Leaving /\ NA' = NA
    BY <2>1 DEF Arriving, Leaving, NA
  <2>6. Accounting'
    BY <1>3, <2>2, <2>4, <2>5, FiniteParts
    DEF AliveInv, Accounting, BASE, RW_LOCK_WRITER_COUNT_BASE
  <2>7. QueueInv' /\ HolderInv' /\ Served'
    BY <2>2, <2>4 DEF AliveInv, QueueInv, HolderInv, Served, Queued, Range
  <2>8. ASSUME NEW u \in Threads PROVE ThreadInv(u)'
    <3>1. CASE u = t
      BY <1>0, <1>1, <1>2, <2>1, <2>4, <2>5, <3>1 DEF AliveInv, ThreadInv, ReadWaiting, Types
    <3>2. CASE u # t
      BY <1>2, <2>1, <2>4, <2>5, <3>2 DEF AliveInv, ThreadInv
    <3> QED
      BY <3>1, <3>2
  <2> QED
    BY <2>3, <2>6, <2>7, <2>8 DEF AliveInv
<1>5. CASE ~(count < BASE)
  <2>1. Goto(t, "unread_slow")
    BY <1>5 DEF BASE, Types, RW_LOCK_WRITER_COUNT_BASE
  <2>2. Claiming # {}
    BY <1>5, Claims
  <2>3. \A u \in Threads : pc'[u] = IF u = t THEN "unread_slow" ELSE pc[u]
    BY <2>1 DEF Types, Goto
  <2>4. Types'
    BY <1>2, <2>1 DEF Types, Goto, Labels
  <2>5. Queued' = Queued /\ Claiming' = Claiming /\ NQ' = NQ /\ NC' = NC
    BY <1>1, <2>3, SameQueue, FiniteParts
  <2>6. Arriving' = Arriving /\ Leaving' = Leaving \cup {t} /\ NA' = NA /\ NL' = NL + 1
    <3>1. "unread_slow" \notin Slow
      BY DEF Slow
    <3>2. /\ Arriving' = Arriving \ {t} /\ Leaving' = Leaving \cup {t}
          /\ NA' = NA /\ NL' = NL + 1
      BY <1>1, <2>1, <3>1, GotoCounts
    <3> QED
      BY <1>1, <3>2
  <2>7. Accounting'
    <3>1. count' = BASE * NC' + NR' + NA' + NQ'
      BY <1>3, <2>5, <2>6, FiniteParts
      DEF AliveInv, Accounting, BASE, RW_LOCK_WRITER_COUNT_BASE
    <3>2. holder' = NoThread => active_readers' = NR' + NL' /\ pending_readers' \in 0 .. NA'
      BY <1>3, <2>2, <2>6, FiniteParts DEF AliveInv, Accounting
    <3>3. holder' # NoThread => active_readers' = 0 /\ pending_readers' = 0
      BY DEF AliveInv, Accounting
    <3> QED
      BY <2>2, <2>5, <3>1, <3>2, <3>3 DEF Accounting
  <2>8. QueueInv'
    <3> SUFFICES ASSUME NEW u \in Queued PROVE Sleeper(u)' /\ holder' # u
      BY <2>5 DEF AliveInv, QueueInv
    <3>1. u \in Threads /\ u # t /\ Sleeper(u) /\ holder # u
      BY <1>1, FiniteParts DEF AliveInv, QueueInv
    <3> QED
      BY <1>2, <2>3, <3>1 DEF Sleeper
  <2>9. HolderInv'
    <3> SUFFICES ASSUME holder # NoThread
                 PROVE  /\ \A u \in Threads : u # holder => rd'[u] = 0 /\ u \notin Leaving'
                        /\ owner_count = BASE * wr[holder] + rd'[holder]
                                           + (IF holder \in Leaving' THEN 1 ELSE 0)
      BY DEF HolderInv
    <3>1. holder = t
      BY <1>0 DEF AliveInv, HolderInv
    <3>2. owner_count = BASE * wr[t] + rd[t]
      BY <1>0, <1>1, <3>1 DEF AliveInv, HolderInv, Types, BASE, RW_LOCK_WRITER_COUNT_BASE
    <3>3. \A u \in Threads : u # holder => rd'[u] = 0 /\ u \notin Leaving'
      BY <1>2, <2>6, <3>1 DEF AliveInv, HolderInv
    <3> QED
      BY <1>0, <1>2, <2>6, <3>1, <3>2, <3>3 DEF Types, BASE, RW_LOCK_WRITER_COUNT_BASE
  <2>10. Served'
    BY <1>1, <2>3, Claims, FiniteParts DEF AliveInv, Served, IsWriter
  <2>11. ASSUME NEW u \in Threads PROVE ThreadInv(u)'
    <3>1. CASE u = t
      BY <1>0, <1>1, <1>2, <2>3, <2>5, <2>6, <3>1 DEF AliveInv, ThreadInv, ReadWaiting, Types
    <3>2. CASE u # t
      BY <1>2, <2>3, <2>5, <2>6, <3>2 DEF AliveInv, ThreadInv
    <3> QED
      BY <3>1, <3>2
  <2> QED
    BY <2>4, <2>7, <2>8, <2>9, <2>10, <2>11 DEF AliveInv
<1> QED
  BY <1>4, <1>5

(* What rw_lock_unblock() does when nobody writes: it hands the lock to    *)
(* the writer at the head of the queue, or to the readers there, if any.   *)
LEMMA Unblocking ==
  ASSUME Types, QueueInv, NEW t \in Threads, NEW n \in 0 .. Len(waiters),
         NEW ar \in Int, NEW pr \in Int, NEW c \in Int,
         rw_lock_unblock(t, n, NoThread, ar, pr, c)
  PROVE  LET W == FirstWaiters(n) IN
         /\ waiters' \in Seq(Threads) /\ IsInjective(waiters')
         /\ W \subseteq Threads
         /\ Queued = W \cup Queued' /\ W \cap Queued' = {}
         /\ IsFiniteSet(W) /\ Cardinality(W) = n
         /\ wait' \in [Threads -> WaitStatus] /\ waiter_thread' \in [Threads -> BOOLEAN]
         /\ \A u \in Threads :
              /\ wait'[u] = IF u \in W /\ wait[u] = Blocked THEN B_OK ELSE wait[u]
              /\ waiter_thread'[u] = (u \notin W /\ waiter_thread[u])
         /\ \/ \E w \in W :
                 /\ W = {w} /\ IsWriter(w) /\ ~WriterMustWait(ar, pr)
                 /\ holder' = w /\ active_readers' = ar /\ rd' = rd
                 /\ wr' = [wr EXCEPT ![t] = 0, ![w] = 1]
            \/ /\ \A u \in W : ~IsWriter(u)
               /\ holder' = NoThread
               /\ active_readers' = ActiveWith(ar, n, c)
               /\ wr' = [wr EXCEPT ![t] = 0]
               /\ rd' = [u \in Threads |-> IF u \in W THEN rd[u] + 1 ELSE rd[u]]
               /\ waiters' # <<>> =>
                    /\ IsWriter(Head(waiters'))
                    /\ n = 0 => WriterMustWait(ar, pr)
<1> DEFINE W == FirstWaiters(n)
<1>0. /\ waiters \in Seq(Threads) /\ Len(waiters) \in Nat
      /\ waiters = <<>> <=> Len(waiters) = 0
  BY LenProperties, EmptySeq DEF Types
<1>1. /\ waiters' \in Seq(Threads) /\ IsInjective(waiters')
      /\ Len(waiters') = Len(waiters) - n
      /\ n < Len(waiters) => waiters' # <<>> /\ Head(waiters') = waiters[n + 1]
      /\ n = Len(waiters) => waiters' = <<>>
      /\ Range(waiters) = W \cup Range(waiters') /\ W \cap Range(waiters') = {}
      /\ IsFiniteSet(W) /\ Cardinality(W) = n
  <2>1. W = FirstOf(waiters, n) /\ waiters' = RestOf(waiters, n)
    BY DEF FirstWaiters, FirstOf, RestOf, rw_lock_unblock
  <2>2. IsInjective(waiters)
    BY DEF QueueInv
  <2>3. /\ RestOf(waiters, n) \in Seq(Threads)
        /\ Len(RestOf(waiters, n)) = Len(waiters) - n
        /\ n = Len(waiters) => RestOf(waiters, n) = <<>>
        /\ n < Len(waiters) =>
             RestOf(waiters, n) # <<>> /\ Head(RestOf(waiters, n)) = waiters[n + 1]
        /\ Range(waiters) = FirstOf(waiters, n) \cup Range(RestOf(waiters, n))
        /\ FirstOf(waiters, n) \cap Range(RestOf(waiters, n)) = {}
        /\ IsInjective(RestOf(waiters, n))
        /\ IsFiniteSet(FirstOf(waiters, n)) /\ Cardinality(FirstOf(waiters, n)) = n
    BY <1>0, <2>2, SplitMembers, Zenon
  <2> HIDE DEF W
  <2> QED
    BY <2>1, <2>3, Zenon
<1>2. Queued = W \cup Queued' /\ W \cap Queued' = {} /\ W \subseteq Threads
  BY <1>1, FiniteParts DEF Queued
<1>3. /\ wait' \in [Threads -> WaitStatus] /\ waiter_thread' \in [Threads -> BOOLEAN]
      /\ \A u \in Threads :
           /\ wait'[u] = IF u \in W /\ wait[u] = Blocked THEN B_OK ELSE wait[u]
           /\ waiter_thread'[u] = (u \notin W /\ waiter_thread[u])
  BY DEF Types, rw_lock_unblock, thread_unblock, WaitStatus
<1>4. CASE \E w \in W : IsWriter(w)
  <2>1. PICK w \in W : IsWriter(w)
    BY <1>4
  <2>2. PICK i \in 1 .. n : w = waiters[i]
    BY DEF FirstWaiters
  <2>3. waiters # <<>> /\ Head(waiters) = waiters[1]
    BY <1>0, <2>2
  <2>4. IsWriter(Head(waiters)) /\ n = 1 /\ ~WriterMustWait(ar, pr)
    BY <2>1, <2>2, <2>3 DEF rw_lock_unblock, Unblocks
  <2>5. W = {w}
    BY <2>2, <2>4 DEF FirstWaiters
  <2>6. /\ holder' = w /\ active_readers' = ar /\ rd' = rd
        /\ wr' = [wr EXCEPT ![t] = 0, ![w] = 1]
    BY <2>1, <2>5 DEF rw_lock_unblock
  <2> QED
    BY <1>1, <1>2, <1>3, <2>1, <2>4, <2>5, <2>6
<1>5. CASE \A w \in W : ~IsWriter(w)
  <2>1. /\ holder' = NoThread
        /\ active_readers' = ActiveWith(ar, n, c)
        /\ wr' = [wr EXCEPT ![t] = 0]
        /\ rd' = [u \in Threads |-> IF u \in W THEN rd[u] + 1 ELSE rd[u]]
    BY <1>5 DEF rw_lock_unblock
  <2>2. ASSUME waiters' # <<>>
        PROVE  IsWriter(Head(waiters')) /\ (n = 0 => WriterMustWait(ar, pr))
    <3>1. n < Len(waiters) /\ Head(waiters') = waiters[n + 1] /\ waiters # <<>>
      BY <1>0, <1>1, <2>2
    <3>2. Head(waiters) = waiters[1]
      BY <1>0, <3>1
    <3>3. CASE IsWriter(Head(waiters))
      <4>1. n = IF WriterMustWait(ar, pr) THEN 0 ELSE 1
        BY <3>1, <3>3 DEF rw_lock_unblock, Unblocks
      <4>2. n # 1
        BY <1>5, <3>2, <3>3 DEF FirstWaiters
      <4> QED
        BY <3>1, <3>2, <3>3, <4>1, <4>2
    <3>4. CASE ~IsWriter(Head(waiters))
      <4>1. IsWriter(waiters[n + 1])
        BY <3>1, <3>4 DEF rw_lock_unblock, Unblocks
      <4> QED
        BY <3>1, <3>2, <3>4, <4>1
    <3> QED
      BY <3>3, <3>4
  <2> QED
    BY <1>1, <1>2, <1>3, <1>5, <2>1, <2>2
<1> QED
  BY <1>4, <1>5

(* Thread t is through with the lock, which nobody else writes, and calls  *)
(* rw_lock_unblock() with what it finds: _rw_lock_read_unlock() by the     *)
(* last reader and _rw_lock_write_unlock() by the writer.                  *)
HandsOver(t, n, ar, pr, c) ==
  /\ rw_lock_unblock(t, n, NoThread, ar, pr, c)
  /\ Goto(t, "idle") /\ count' = c
  /\ owner_count' \in Int /\ destroyed' = destroyed
  /\ holder \in {t, NoThread} /\ pc[t] \in {"idle", "unread_slow"}
  /\ c = BASE * Cardinality(Claiming \ {t}) + NR + NA + NQ
  /\ Claiming \ {t} # {} => /\ ar = NR + Cardinality(Leaving \ {t})
                            /\ pr \in 0 .. NA /\ pending_readers' = pr
  /\ Claiming \ {t} = {} => /\ ar = 0 /\ Leaving \ {t} = {}
                            /\ pending_readers' = c - NR - n

(* What is the same whoever gets the lock: t is idle, and the threads that *)
(* stay in the queue go on sleeping.                                       *)
LEMMA HandingOver ==
  ASSUME Types, AliveInv, NEW t \in Threads, NEW n \in 0 .. Len(waiters),
         NEW ar \in Int, NEW pr \in Int, NEW c \in Int, HandsOver(t, n, ar, pr, c)
  PROVE  /\ t \notin Queued /\ t \notin Arriving
         /\ \A u \in Threads : pc'[u] = IF u = t THEN "idle" ELSE pc[u]
         /\ pc' \in [Threads -> Labels]
         /\ Arriving' = Arriving /\ NA' = NA
         /\ Leaving' = Leaving \ {t} /\ NL' = Cardinality(Leaving \ {t})
         /\ \A u \in Threads : u # t => wr[u] = 0
         /\ \A u \in Threads : u # t => ~(pc[u] = "write_wait" /\ u \notin Queued)
<1> USE DEF HandsOver
<1>1. t \notin Queued /\ t \notin Arriving
  BY DEF AliveInv, QueueInv, Sleeper, ReadWaiting, Arriving
<1>2. /\ \A u \in Threads : pc'[u] = IF u = t THEN "idle" ELSE pc[u]
      /\ pc' \in [Threads -> Labels]
  BY DEF Types, Goto, Labels
<1>3. /\ Arriving' = Arriving \ {t} /\ NA' = NA /\ Leaving' = Leaving \ {t}
  <2>1. "idle" \notin Slow /\ "idle" # "unread_slow"
    BY DEF Slow
  <2> QED
    BY <1>1, <2>1, GotoCounts
<1>4. NL' = Cardinality(Leaving \ {t})
  BY <1>3 DEF NL
<1>5. \A u \in Threads : u # t => holder # u
  BY RWLockConstants
<1>6. \A u \in Threads : u # t => wr[u] = 0
  BY <1>5 DEF AliveInv, ThreadInv, Types
<1>7. \A u \in Threads : u # t => ~(pc[u] = "write_wait" /\ u \notin Queued)
  BY <1>5 DEF AliveInv, ThreadInv
<1> QED
  BY <1>1, <1>2, <1>3, <1>4, <1>6, <1>7

(* The lock goes to the writer at the head of the queue.                   *)
LEMMA HandToWriter ==
  ASSUME Types, AliveInv, NEW t \in Threads, NEW n \in 0 .. Len(waiters),
         NEW ar \in Int, NEW pr \in Int, NEW c \in Int, HandsOver(t, n, ar, pr, c),
         NEW w \in FirstWaiters(n), IsWriter(w)
  PROVE  Types' /\ AliveInv'
<1> USE RWLockConstants
<1>0. QueueInv /\ rw_lock_unblock(t, n, NoThread, ar, pr, c)
  BY DEF AliveInv, HandsOver
<1>1. /\ waiters' \in Seq(Threads) /\ IsInjective(waiters')
      /\ FirstWaiters(n) \subseteq Threads
      /\ Queued = FirstWaiters(n) \cup Queued' /\ FirstWaiters(n) \cap Queued' = {}
      /\ wait' \in [Threads -> WaitStatus] /\ waiter_thread' \in [Threads -> BOOLEAN]
      /\ \A u \in Threads :
           /\ wait'[u] = IF u \in FirstWaiters(n) /\ wait[u] = Blocked
                         THEN B_OK ELSE wait[u]
           /\ waiter_thread'[u] = (u \notin FirstWaiters(n) /\ waiter_thread[u])
  BY <1>0, Unblocking
<1>2. /\ FirstWaiters(n) = {w} /\ ~WriterMustWait(ar, pr)
      /\ holder' = w /\ active_readers' = ar /\ rd' = rd
      /\ wr' = [wr EXCEPT ![t] = 0, ![w] = 1]
  BY <1>0, Unblocking
<1>3. /\ w \in Threads /\ w \in Queued /\ w # NoThread
      /\ Queued = Queued' \cup {w} /\ w \notin Queued'
  BY <1>1, <1>2
<1>4. /\ t \notin Queued /\ t \notin Arriving /\ w # t
      /\ \A u \in Threads : pc'[u] = IF u = t THEN "idle" ELSE pc[u]
      /\ pc' \in [Threads -> Labels]
      /\ Arriving' = Arriving /\ NA' = NA
      /\ Leaving' = Leaving \ {t} /\ NL' = Cardinality(Leaving \ {t})
      /\ \A u \in Threads : u # t => wr[u] = 0
      /\ \A u \in Threads : u # t => ~(pc[u] = "write_wait" /\ u \notin Queued)
  BY <1>3, HandingOver
<1>5. w \in Claiming \ {t}
  BY <1>3, <1>4 DEF Claiming
<1>6. NR \in Nat /\ NA \in Nat /\ NQ \in Nat /\ NL' \in Nat /\ IsFiniteSet(Leaving \ {t})
  <2>1. IsFiniteSet(Leaving \ {t})
    BY FiniteParts, FS_RemoveElement
  <2> QED
    BY <1>4, <2>1, FiniteParts, FS_CardinalityType
<1>7. ar = 0 /\ pr = 0 /\ NR = 0 /\ NL' = 0 /\ pending_readers' = 0
  BY <1>2, <1>4, <1>5, <1>6 DEF HandsOver, WriterMustWait
<1>8. \A u \in Threads : rd[u] = 0
  <2>1. ReadLocks = {}
    BY <1>7, FiniteParts, FS_EmptySet DEF NR
  <2> SUFFICES ASSUME NEW u \in Threads, rd[u] # 0 PROVE FALSE
    OBVIOUS
  <2>2. <<u, 1>> \in ReadLocks
    BY DEF Types, ReadLocks
  <2> QED
    BY <2>1, <2>2
<1>9. Leaving' = {}
  BY <1>4, <1>6, <1>7, FS_EmptySet
<1>10. Claiming' = Claiming \ {t}
  <2>1. ASSUME NEW u \in Threads
        PROVE  u \in Claiming' <=> u \in Claiming /\ u # t
    <3>1. CASE u = t
      BY <1>2, <1>3, <1>4, <3>1 DEF Claiming, IsWriter
    <3>2. CASE u # t
      BY <1>2, <1>3, <1>4, <3>2 DEF Claiming, IsWriter, HandsOver
    <3> QED
      BY <3>1, <3>2
  <2> QED
    BY <2>1 DEF Claiming
<1>11. QueuedReaders' = QueuedReaders
  BY <1>3, <1>4, FiniteParts DEF QueuedReaders, IsWriter
<1>12. NC' = Cardinality(Claiming \ {t}) /\ NQ' = NQ /\ NR' = NR
  BY <1>2, <1>10, <1>11, SameReads DEF NC, NQ
<1>13. Types'
  <2>1. wr' \in [Threads -> Nat]
    BY <1>2 DEF Types
  <2> QED
    BY <1>1, <1>2, <1>3, <1>4, <1>7, <2>1 DEF Types, HandsOver
<1>14. Accounting'
  <2>1. count' = BASE * NC' + NR' + NA' + NQ'
    BY <1>4, <1>12 DEF HandsOver
  <2> QED
    BY <1>2, <1>3, <1>5, <1>7, <1>10, <2>1 DEF Accounting
<1>15. QueueInv'
  <2> SUFFICES ASSUME NEW u \in Queued' PROVE Sleeper(u)' /\ holder' # u
    BY <1>1 DEF QueueInv
  <2>1. u \in Threads /\ u # t /\ u # w /\ Sleeper(u)
    BY <1>0, <1>3, <1>4, FiniteParts DEF QueueInv
  <2> QED
    BY <1>1, <1>2, <1>4, <2>1 DEF Sleeper
<1>16. HolderInv'
  BY <1>2, <1>3, <1>4, <1>8, <1>9 DEF HolderInv, IsWriter
<1>17. Served'
  BY <1>2, <1>3 DEF Served
<1>18. ASSUME NEW u \in Threads PROVE ThreadInv(u)'
  <2>1. wr'[u] = IF u = w THEN 1 ELSE 0
    BY <1>2, <1>3, <1>4 DEF Types
  <2>2. CASE u = w
    <3>1. pc[w] = "write_wait" /\ wait[w] = Blocked
      BY <1>0, <1>3 DEF QueueInv, Sleeper, IsWriter
    <3>2. wait'[w] = B_OK /\ ~waiter_thread'[w] /\ pc'[w] = "write_wait"
      BY <1>1, <1>2, <1>3, <1>4, <3>1
    <3>3. w \notin Arriving'
      BY <1>4, <3>1 DEF Arriving
    <3> QED
      BY <1>2, <1>3, <1>8, <2>1, <2>2, <3>1, <3>2, <3>3 DEF ThreadInv, ReadWaiting
  <2>3. CASE u = t
    BY <1>2, <1>4, <1>8, <2>1, <2>3 DEF ThreadInv, ReadWaiting
  <2>4. CASE u # w /\ u # t
    <3>1. ThreadInv(u)
      BY DEF AliveInv
    <3>2. pc'[u] = pc[u] /\ wait'[u] = wait[u] /\ (waiter_thread'[u] <=> waiter_thread[u])
      BY <1>1, <1>2, <1>4, <2>4
    <3>3. (u \in Queued <=> u \in Queued') /\ holder' # u /\ rd'[u] = 0 /\ rd[u] = 0
      BY <1>2, <1>3, <1>8, <2>4
    <3> QED
      BY <1>4, <2>1, <2>4, <3>1, <3>2, <3>3 DEF ThreadInv
  <2> QED
    BY <2>2, <2>3, <2>4
<1> QED
  BY <1>13, <1>14, <1>15, <1>16, <1>17, <1>18 DEF AliveInv

(* count reaches BASE if and only if somebody claims the lock.             *)
LEMMA ClaimedCount ==
  ASSUME NEW k \in Nat, NEW x \in Nat, NEW y \in Nat, NEW z \in Nat,
         x + y + z < BASE
  PROVE  BASE * k + x + y + z >= BASE <=> k # 0
BY DEF BASE, RW_LOCK_WRITER_COUNT_BASE

(* n readers more are readers enough.                                      *)
LEMMA SomebodyReads ==
  ASSUME NEW x \in Nat, NEW y \in Nat, NEW n \in Nat, NEW pr,
         n = 0 => x + y > 0 \/ pr > 0
  PROVE  x + y + n > 0 \/ pr > 0
OBVIOUS

(* The lock goes to the readers at the head of the queue, if any.          *)
LEMMA HandToReaders ==
  ASSUME Types, AliveInv, NEW t \in Threads, NEW n \in 0 .. Len(waiters),
         NEW ar \in Int, NEW pr \in Int, NEW c \in Int, HandsOver(t, n, ar, pr, c),
         \A w \in FirstWaiters(n) : ~IsWriter(w)
  PROVE  Types' /\ AliveInv'
<1> USE RWLockConstants
<1> DEFINE W == FirstWaiters(n)
<1>0. QueueInv /\ rw_lock_unblock(t, n, NoThread, ar, pr, c)
  BY DEF AliveInv, HandsOver
<1>1. /\ waiters' \in Seq(Threads) /\ IsInjective(waiters')
      /\ W \subseteq Threads
      /\ Queued = W \cup Queued' /\ W \cap Queued' = {}
      /\ IsFiniteSet(W) /\ Cardinality(W) = n
      /\ wait' \in [Threads -> WaitStatus] /\ waiter_thread' \in [Threads -> BOOLEAN]
      /\ \A u \in Threads :
           /\ wait'[u] = IF u \in W /\ wait[u] = Blocked THEN B_OK ELSE wait[u]
           /\ waiter_thread'[u] = (u \notin W /\ waiter_thread[u])
  BY <1>0, Unblocking
<1>2. /\ holder' = NoThread
      /\ active_readers' = ActiveWith(ar, n, c)
      /\ wr' = [wr EXCEPT ![t] = 0]
      /\ rd' = [u \in Threads |-> IF u \in W THEN rd[u] + 1 ELSE rd[u]]
      /\ waiters' # <<>> => /\ IsWriter(Head(waiters'))
                            /\ n = 0 => WriterMustWait(ar, pr)
  BY <1>0, Unblocking
<1>3. \A w \in W : ~IsWriter(w) /\ w \in Queued
  BY <1>1
<1> HIDE DEF W
<1>4. /\ t \notin Queued /\ t \notin Arriving
      /\ \A u \in Threads : pc'[u] = IF u = t THEN "idle" ELSE pc[u]
      /\ pc' \in [Threads -> Labels]
      /\ Arriving' = Arriving /\ NA' = NA
      /\ Leaving' = Leaving \ {t} /\ NL' = Cardinality(Leaving \ {t})
      /\ \A u \in Threads : u # t => wr[u] = 0
      /\ \A u \in Threads : u # t => ~(pc[u] = "write_wait" /\ u \notin Queued)
  BY HandingOver
<1>5. \A u \in Threads : rd'[u] = IF u \in W THEN rd[u] + 1 ELSE rd[u]
  BY <1>2
<1>6. \A w \in W : w \in Threads /\ w # t /\ rd[w] = 0 /\ pc[w] \in ReadWaiting
  BY <1>0, <1>1, <1>3, <1>4 DEF QueueInv, Sleeper, IsWriter
<1>7. NR' = NR + n
  <2>1. W \in SUBSET Threads
    BY <1>1
  <2> QED
    BY <1>1, <1>2, <1>6, <2>1, ReadLocksWoken
<1>8. Claiming' = Claiming \ {t}
  <2>1. ASSUME NEW u \in Threads
        PROVE  u \in Claiming' <=> u \in Claiming /\ u # t
    <3>1. CASE u = t
      BY <1>1, <1>2, <1>4, <3>1 DEF Claiming
    <3>2. CASE u # t
      BY <1>1, <1>2, <1>3, <1>4, <3>2 DEF Claiming, IsWriter, HandsOver
    <3> QED
      BY <3>1, <3>2
  <2> QED
    BY <2>1 DEF Claiming
<1>9. QueuedReaders' = QueuedReaders \ W /\ W \subseteq QueuedReaders
  BY <1>1, <1>3, <1>4, FiniteParts DEF QueuedReaders, IsWriter
<1>10. NQ' = NQ - n
  <2>1. Cardinality(QueuedReaders \ W) =
          Cardinality(QueuedReaders) - Cardinality(QueuedReaders \cap W)
    BY FiniteParts, FS_Difference
  <2>2. QueuedReaders \cap W = W
    BY <1>9
  <2> QED
    BY <1>1, <1>9, <2>1, <2>2 DEF NQ
<1>11. NC' = Cardinality(Claiming \ {t})
  BY <1>8 DEF NC
<1>12. /\ NR \in Nat /\ NA \in Nat /\ NQ \in Nat /\ NL' \in Nat /\ NC' \in Nat
       /\ NC' = 0 <=> Claiming' = {}
  <2>1. IsFiniteSet(Leaving \ {t}) /\ IsFiniteSet(Claiming \ {t})
    BY FiniteParts, FS_RemoveElement
  <2> QED
    BY <1>4, <1>8, <1>11, <2>1, FiniteParts, FS_CardinalityType, FS_EmptySet
<1>13. count' = c /\ c = BASE * NC' + NR' + NA' + NQ' /\ c = BASE * NC' + NR + NA + NQ
  <2>1. count' = c /\ c = BASE * NC' + NR + NA + NQ
    BY <1>11 DEF HandsOver
  <2>2. NR' = NR + n /\ NA' = NA /\ NQ' = NQ - n
    BY <1>4, <1>7, <1>10
  <2>3. BASE * NC' \in Int
    BY <1>12 DEF BASE, RW_LOCK_WRITER_COUNT_BASE
  <2> QED
    BY <1>12, <2>1, <2>2, <2>3
<1>14. c >= BASE <=> Claiming' # {}
  <2>1. NR + NA + NQ < BASE
    BY Claims
  <2> QED
    <3>1. c = BASE * NC' + NR + NA + NQ
      BY <1>13
    <3>2. NR \in Nat /\ NA \in Nat /\ NQ \in Nat /\ NC' \in Nat
      BY <1>12
    <3>3. c >= BASE <=> NC' # 0
      BY <2>1, <3>1, <3>2, ClaimedCount, Zenon
    <3> QED
      BY <1>12, <3>3
<1>15. ASSUME Claiming' # {}
       PROVE  /\ active_readers' = NR' + NL' /\ pending_readers' = pr /\ pr \in 0 .. NA'
              /\ ar = NR + NL' /\ active_readers' = ar + n
  <2>1. ar = NR + NL' /\ pr \in 0 .. NA' /\ pending_readers' = pr
    BY <1>4, <1>8, <1>15 DEF HandsOver
  <2>2. active_readers' = ar + n
    BY <1>2, <1>14, <1>15 DEF ActiveWith, BASE
  <2> QED
    BY <1>7, <1>12, <2>1, <2>2
<1>16. ASSUME Claiming' = {}
       PROVE  /\ active_readers' = 0 /\ Leaving' = {}
              /\ waiters' = <<>> /\ pending_readers' = NA'
  <2>1. ar = 0 /\ Leaving' = {} /\ pending_readers' = c - NR - n
    BY <1>4, <1>8, <1>16 DEF HandsOver
  <2>2. active_readers' = 0
    BY <1>2, <1>14, <1>16, <2>1 DEF ActiveWith, BASE
  <2>3. waiters' = <<>>
    <3> SUFFICES ASSUME waiters' # <<>> PROVE FALSE
      OBVIOUS
    <3>1. Head(waiters') \in Range(waiters')
      BY <1>1, TailMembers
    <3>2. Head(waiters') \in Queued' /\ Head(waiters') \in Queued /\ Head(waiters') \in Threads
      BY <1>1, <3>1, FiniteParts DEF Queued
    <3>3. Head(waiters') \in Claiming
      BY <1>2, <3>2 DEF Claiming
    <3> QED
      BY <1>4, <1>8, <1>16, <3>2, <3>3
  <2>4. NQ' = 0
    <3>1. QueuedReaders' = {}
      BY <2>3 DEF QueuedReaders, Queued, Range
    <3> QED
      BY <3>1, FS_EmptySet DEF NQ
  <2>5. NC' = 0
    BY <1>12, <1>16
  <2>6. NQ = n
    BY <1>10, <1>12, <2>4
  <2>7. pending_readers' = NA
    BY <1>12, <1>13, <2>1, <2>5, <2>6 DEF BASE, RW_LOCK_WRITER_COUNT_BASE
  <2> QED
    BY <1>4, <2>1, <2>2, <2>3, <2>7
<1>17. Types'
  <2>1. wr' \in [Threads -> Nat] /\ rd' \in [Threads -> Nat]
    BY <1>2 DEF Types
  <2>2. active_readers' \in Int
    BY <1>2 DEF ActiveWith
  <2>3. pending_readers' \in Int
    BY <1>4, <1>12, <1>15, <1>16
  <2> QED
    BY <1>1, <1>2, <1>4, <2>1, <2>2, <2>3 DEF Types, HandsOver
<1>18. Accounting'
  BY <1>2, <1>13, <1>15, <1>16 DEF Accounting
<1>19. QueueInv'
  <2> SUFFICES ASSUME NEW u \in Queued' PROVE Sleeper(u)' /\ holder' # u
    BY <1>1 DEF QueueInv
  <2>1. u \in Threads /\ u # t /\ u \notin W /\ Sleeper(u)
    BY <1>0, <1>1, <1>4, FiniteParts DEF QueueInv
  <2> QED
    BY <1>1, <1>2, <1>4, <1>5, <2>1 DEF Sleeper
<1>20. HolderInv'
  BY <1>2 DEF HolderInv
<1>21. Served'
  <2> SUFFICES ASSUME waiters' # <<>>
               PROVE  IsWriter(Head(waiters))' /\ (active_readers' > 0 \/ pending_readers' > 0)
    BY DEF Served
  <2>1. Head(waiters') \in Range(waiters')
    BY <1>1, TailMembers
  <2>2. Head(waiters') \in Queued /\ Head(waiters') \in Threads
    BY <1>1, <2>1, FiniteParts DEF Queued
  <2>3. Claiming' # {}
    BY <1>16
  <2>4. IsWriter(Head(waiters))'
    BY <1>2, <1>4, <2>2 DEF IsWriter
  <2>5. active_readers' = NR + NL' + n /\ (n = 0 => ar > 0 \/ pr > 0)
    BY <1>2, <1>15, <2>3 DEF WriterMustWait
  <2>6. pending_readers' = pr /\ ar = NR + NL'
    BY <1>15, <2>3
  <2>7. active_readers' > 0 \/ pending_readers' > 0
    <3>1. n \in Nat
      BY <1>1, FS_CardinalityType
    <3>2. NR \in Nat /\ NL' \in Nat
      BY <1>12
    <3>3. n = 0 => NR + NL' > 0 \/ pr > 0
      BY <2>5, <2>6, Zenon
    <3>4. NR + NL' + n > 0 \/ pr > 0
      BY <3>1, <3>2, <3>3, SomebodyReads, Zenon
    <3> QED
      BY <2>5, <2>6, <3>4, Zenon
  <2> QED
    BY <2>4, <2>7
<1>22. ASSUME NEW u \in Threads PROVE ThreadInv(u)'
  <2>0. ThreadInv(u)
    BY DEF AliveInv
  <2>1. wr'[u] = 0 /\ holder' # u
    BY <1>2, <1>4 DEF Types
  <2>2. CASE u \in W
    <3>1. rd'[u] = 1 /\ pc'[u] \in ReadWaiting /\ ~waiter_thread'[u] /\ u \notin Queued'
      BY <1>1, <1>4, <1>5, <1>6, <2>2
    <3>2. u \notin Arriving' /\ pc'[u] # "write_wait"
      BY <3>1 DEF Arriving, ReadWaiting
    <3> QED
      BY <2>1, <3>1, <3>2 DEF ThreadInv
  <2>3. CASE u = t
    BY <1>4, <1>5, <1>6, <2>0, <2>1, <2>3 DEF ThreadInv, ReadWaiting
  <2>4. CASE u \notin W /\ u # t
    <3>1. pc'[u] = pc[u] /\ wait'[u] = wait[u] /\ (waiter_thread'[u] <=> waiter_thread[u])
      BY <1>1, <1>4, <2>4
    <3>2. (u \in Queued <=> u \in Queued') /\ rd'[u] = rd[u]
      BY <1>1, <1>5, <2>4
    <3>3. holder # u
      BY <2>4 DEF HandsOver
    <3> QED
      BY <1>4, <2>0, <2>1, <2>4, <3>1, <3>2, <3>3 DEF ThreadInv
  <2> QED
    BY <2>2, <2>3, <2>4
<1> QED
  BY <1>17, <1>18, <1>19, <1>20, <1>21, <1>22 DEF AliveInv

(* Whoever gets the lock from t, the invariant holds.                      *)
LEMMA StepUnblock ==
  ASSUME Types, AliveInv, NEW t \in Threads, NEW n \in 0 .. Len(waiters),
         NEW ar \in Int, NEW pr \in Int, NEW c \in Int, HandsOver(t, n, ar, pr, c)
  PROVE  Types' /\ AliveInv'
<1>1. CASE \E w \in FirstWaiters(n) : IsWriter(w)
  BY <1>1, HandToWriter
<1>2. CASE \A w \in FirstWaiters(n) : ~IsWriter(w)
  BY <1>2, HandToReaders
<1> QED
  BY <1>1, <1>2

-----------------------------------------------------------------------------
(* A leaving reader does not hand the lock on: it is the writer, or not    *)
(* the last reader.                                                        *)
LEMMA StepUnreadQuietly ==
  ASSUME Types, AliveInv, NEW t \in Threads, pc[t] = "unread_slow", Goto(t, "idle"),
         IF holder = t
         THEN owner_count' = owner_count - 1 /\ active_readers' = active_readers
         ELSE /\ owner_count' = owner_count /\ active_readers > 1
              /\ active_readers' = active_readers - 1,
         UNCHANGED <<count, holder, pending_readers, waiters, waiter_thread, wait,
                     destroyed, rd, wr>>
  PROVE  Types' /\ AliveInv'
<1> USE RWLockConstants
<1>1. t \in Leaving /\ t \notin Queued /\ t \notin Arriving
  BY DEF AliveInv, QueueInv, Sleeper, ReadWaiting, Arriving, Leaving
<1>2. Types'
  BY DEF Types, Goto, Labels
<1>3. \A u \in Threads : pc'[u] = IF u = t THEN "idle" ELSE pc[u]
  BY DEF Types, Goto
<1>4. Queued' = Queued /\ Claiming' = Claiming /\ NQ' = NQ /\ NC' = NC
  BY <1>1, <1>3, SameQueue, FiniteParts
<1>5. Arriving' = Arriving /\ NA' = NA /\ Leaving' = Leaving \ {t} /\ NL' = NL - 1
  <2>1. "idle" \notin Slow /\ "idle" # "unread_slow"
    BY DEF Slow
  <2>2. Arriving' = Arriving \ {t} /\ NA' = NA /\ Leaving' = Leaving \ {t} /\ NL' = NL - 1
    BY <1>1, <2>1, GotoCounts
  <2> QED
    BY <1>1, <2>2
<1>6. NR' = NR
  BY SameReads
<1>7. Claiming # {}
  BY <1>1 DEF AliveInv, Accounting
<1>8. holder \in {t, NoThread}
  BY <1>1 DEF AliveInv, HolderInv, Types
<1>9. count' = BASE * NC' + NR' + NA' + NQ'
  BY <1>4, <1>5, <1>6 DEF AliveInv, Accounting
<1>9a. QueueInv'
  <2> SUFFICES ASSUME NEW u \in Queued PROVE Sleeper(u)' /\ holder' # u
    BY <1>4 DEF AliveInv, QueueInv
  <2>1. u \in Threads /\ u # t /\ Sleeper(u) /\ holder # u
    BY <1>1, FiniteParts DEF AliveInv, QueueInv
  <2> QED
    BY <1>3, <2>1 DEF Sleeper
<1>9b. ASSUME NEW u \in Threads PROVE ThreadInv(u)'
  <2>1. CASE u = t
    BY <1>1, <1>3, <1>4, <1>5, <2>1 DEF AliveInv, ThreadInv, ReadWaiting
  <2>2. CASE u # t
    BY <1>3, <1>4, <1>5, <2>2 DEF AliveInv, ThreadInv
  <2> QED
    BY <2>1, <2>2
<1>10. CASE holder = t
  <2>1. owner_count = BASE * wr[t] + rd[t] + 1
    BY <1>1, <1>10 DEF AliveInv, HolderInv, Types
  <2>2. Accounting'
    BY <1>4, <1>7, <1>9, <1>10 DEF AliveInv, Accounting
  <2>3. Served'
    BY <1>10 DEF Served
  <2>4. HolderInv'
    <3>1. \A u \in Threads : u # t => rd'[u] = 0 /\ u \notin Leaving'
      BY <1>5, <1>10 DEF AliveInv, HolderInv
    <3>2. owner_count' = BASE * wr'[t] + rd'[t] /\ t \notin Leaving'
      BY <1>5, <1>10, <2>1 DEF Types, BASE, RW_LOCK_WRITER_COUNT_BASE
    <3>3. owner_count' = BASE * wr'[t] + rd'[t] + 0
      BY <3>2 DEF Types, BASE, RW_LOCK_WRITER_COUNT_BASE
    <3> QED
      BY <1>10, <3>1, <3>2, <3>3 DEF HolderInv
  <2> QED
    BY <1>2, <1>9a, <1>9b, <2>2, <2>3, <2>4 DEF AliveInv
<1>11. CASE holder = NoThread
  <2>1. active_readers > 1 /\ active_readers' = active_readers - 1
    BY <1>11
  <2>2. active_readers = NR + NL /\ pending_readers \in 0 .. NA
    BY <1>7, <1>11 DEF AliveInv, Accounting
  <2>3. active_readers' = NR' + NL' /\ active_readers' > 0
    BY <1>5, <1>6, <2>1, <2>2, FiniteParts
  <2>4. Accounting'
    BY <1>4, <1>5, <1>7, <1>9, <1>11, <2>2, <2>3 DEF Accounting
  <2>5. HolderInv'
    BY <1>11 DEF HolderInv
  <2>6. Served'
    BY <1>1, <1>3, <2>3, Claims, FiniteParts DEF AliveInv, Served, IsWriter
  <2> QED
    BY <1>2, <1>9a, <1>9b, <2>4, <2>5, <2>6 DEF AliveInv
<1> QED
  BY <1>8, <1>10, <1>11

(* _rw_lock_read_unlock()                                                  *)
LEMMA StepReadUnlockSlow ==
  ASSUME Types, AliveInv, NEW t \in Threads, _rw_lock_read_unlock(t)
  PROVE  Types' /\ AliveInv'
<1> USE RWLockConstants
<1>0. pc[t] = "unread_slow" /\ count' = count
      /\ pending_readers' = pending_readers /\ destroyed' = destroyed
  BY DEF _rw_lock_read_unlock
<1>1. (t \in Leaving /\ t \notin Claiming) \/ holder = t
  BY <1>0 DEF Leaving, Claiming, IsWriter
<1>2. CASE holder = t
  <2>1. /\ owner_count' = owner_count - 1 /\ Goto(t, "idle")
        /\ UNCHANGED <<holder, active_readers, waiters, waiter_thread, wait, rd, wr>>
    BY <1>2 DEF _rw_lock_read_unlock
  <2> QED
    BY <1>0, <1>2, <2>1, StepUnreadQuietly
<1>3. CASE holder # t
  <2>1. t \in Leaving /\ t \notin Claiming
    BY <1>1, <1>3
  <2>2. holder = NoThread /\ Claiming # {}
    BY <1>3, <2>1 DEF AliveInv, HolderInv, Accounting
  <2>3. active_readers = NR + NL /\ pending_readers \in 0 .. NA
    BY <2>2 DEF AliveInv, Accounting
  <2>4. Cardinality(Leaving \ {t}) = NL - 1 /\ NL >= 1
    <3>1. Cardinality(Leaving \ {t}) = NL - 1
      BY <2>1, FiniteParts, FS_RemoveElement DEF NL
    <3>2. NL # 0
      BY <2>1, FiniteParts, FS_EmptySet DEF NL
    <3> QED
      BY <3>1, <3>2, FiniteParts
  <2>5. CASE active_readers # 1
    <3>1. active_readers > 1
      BY <2>3, <2>4, <2>5, FiniteParts
    <3>2. /\ active_readers' = active_readers - 1 /\ Goto(t, "idle")
          /\ UNCHANGED <<holder, owner_count, waiters, waiter_thread, wait, rd, wr>>
      BY <1>3, <2>5, <3>1 DEF _rw_lock_read_unlock
    <3> QED
      BY <1>0, <1>3, <3>1, <3>2, StepUnreadQuietly
  <2>6. CASE active_readers = 1
    <3>1. /\ Goto(t, "idle") /\ UNCHANGED owner_count
          /\ \E n \in 0 .. Len(waiters) :
               rw_lock_unblock(t, n, NoThread, 0, pending_readers, count)
      BY <1>3, <2>2, <2>6 DEF _rw_lock_read_unlock
    <3>2. PICK n \in 0 .. Len(waiters) :
                 rw_lock_unblock(t, n, NoThread, 0, pending_readers, count)
      BY <3>1
    <3>3. Claiming \ {t} = Claiming
      BY <2>1
    <3>4. count = BASE * Cardinality(Claiming \ {t}) + NR + NA + NQ
      BY <3>3 DEF AliveInv, Accounting, NC
    <3>5. 0 = NR + Cardinality(Leaving \ {t})
      BY <2>3, <2>4, <2>6, FiniteParts
    <3>6. owner_count' \in Int /\ 0 \in Int /\ pending_readers \in Int /\ count \in Int
      BY <3>1 DEF Types
    <3>7. HandsOver(t, n, 0, pending_readers, count)
      BY <1>0, <2>2, <2>3, <3>1, <3>2, <3>3, <3>4, <3>5, <3>6 DEF HandsOver
    <3> QED
      BY <3>6, <3>7, StepUnblock
  <2> QED
    BY <2>5, <2>6
<1> QED
  BY <1>2, <1>3

-----------------------------------------------------------------------------
(* The writer locks or unlocks once more without giving the lock up.       *)
LEMMA StepNestedWrite ==
  ASSUME Types, AliveInv, NEW t \in Threads, pc[t] = "idle", holder = t,
         NEW d \in {-1, 1}, wr[t] + d > 0,
         owner_count' = owner_count + BASE * d, wr' = [wr EXCEPT ![t] = @ + d],
         UNCHANGED <<count, holder, active_readers, pending_readers, waiters,
                     waiter_thread, wait, pc, destroyed, rd>>
  PROVE  Types' /\ AliveInv'
<1> USE RWLockConstants
<1>1. \A u \in Threads : wr'[u] = IF u = t THEN wr[t] + d ELSE wr[u]
  BY DEF Types
<1>2. Types'
  BY <1>1 DEF Types, BASE, RW_LOCK_WRITER_COUNT_BASE
<1>3. Queued' = Queued /\ Claiming' = Claiming /\ NQ' = NQ /\ NC' = NC
  BY SameQueue
<1>4. Arriving' = Arriving /\ Leaving' = Leaving /\ NA' = NA /\ NL' = NL /\ NR' = NR
  BY SameReads DEF Arriving, Leaving, NA, NL
<1>5. Accounting'
  BY <1>3, <1>4 DEF AliveInv, Accounting
<1>6. QueueInv' /\ Served'
  BY <1>3 DEF AliveInv, QueueInv, Served, Sleeper, IsWriter
<1>7. HolderInv'
  <2>1. t \notin Leaving /\ t # NoThread
    BY DEF Leaving
  <2>2. owner_count = BASE * wr[t] + rd[t] + 0
    BY <2>1 DEF AliveInv, HolderInv
  <2>3. owner_count' = BASE * wr'[t] + rd'[t] + 0
    BY <1>1, <2>2 DEF Types, BASE, RW_LOCK_WRITER_COUNT_BASE
  <2> QED
    BY <1>4, <2>1, <2>3 DEF AliveInv, HolderInv
<1>8. ASSUME NEW u \in Threads PROVE ThreadInv(u)'
  <2>1. wr'[u] > 0 <=> holder' = u
    BY <1>1 DEF AliveInv, ThreadInv
  <2>2. CASE u = t
    BY <1>3, <1>4, <2>1, <2>2 DEF AliveInv, ThreadInv
  <2>3. CASE u # t
    BY <1>1, <1>3, <1>4, <2>1, <2>3 DEF AliveInv, ThreadInv
  <2> QED
    BY <2>2, <2>3
<1> QED
  BY <1>2, <1>5, <1>6, <1>7, <1>8 DEF AliveInv

(* The parts of a count of 0                                               *)
LEMMA ZeroCount ==
  ASSUME NEW k \in Nat, NEW x \in Nat, NEW y \in Nat, NEW z \in Nat,
         0 = BASE * k + x + y + z
  PROVE  k = 0 /\ x = 0 /\ y = 0 /\ z = 0
BY DEF BASE, RW_LOCK_WRITER_COUNT_BASE

(* A count of 0 means that the lock is not in use at all.                  *)
LEMMA Unused ==
  ASSUME Types, AliveInv, count = 0
  PROVE  /\ Claiming = {} /\ waiters = <<>> /\ holder = NoThread
         /\ Arriving = {} /\ Leaving = {} /\ Queued = {}
         /\ active_readers = 0 /\ pending_readers = 0
         /\ NR = 0 /\ NA = 0 /\ NQ = 0
         /\ \A u \in Threads : rd[u] = 0
<1> USE RWLockConstants
<1>1. NC = 0 /\ NR = 0 /\ NA = 0 /\ NQ = 0
  <2>1. 0 = BASE * NC + NR + NA + NQ
    BY DEF AliveInv, Accounting
  <2>2. NC \in Nat /\ NR \in Nat /\ NA \in Nat /\ NQ \in Nat
    BY FiniteParts
  <2> QED
    BY <2>1, <2>2, ZeroCount, Zenon
<1>2. Claiming = {} /\ ReadLocks = {} /\ Arriving = {}
  BY <1>1, FiniteParts, FS_EmptySet DEF NC, NR, NA
<1>3. waiters = <<>> /\ holder = NoThread
  BY <1>2, Claims
<1>4. Queued = {}
  BY <1>3 DEF Queued, Range
<1>5. active_readers = 0 /\ pending_readers = 0 /\ Leaving = {}
  BY <1>1, <1>2 DEF AliveInv, Accounting
<1>6. \A u \in Threads : rd[u] = 0
  <2> SUFFICES ASSUME NEW u \in Threads, rd[u] # 0 PROVE FALSE
    OBVIOUS
  <2>1. <<u, 1>> \in ReadLocks
    BY DEF Types, ReadLocks
  <2> QED
    BY <1>2, <2>1
<1> QED
  BY <1>1, <1>2, <1>3, <1>4, <1>5, <1>6

(* A writer finds the lock free.                                           *)
LEMMA StepWriteFree ==
  ASSUME Types, AliveInv, NEW t \in Threads, pc[t] = "idle", count = 0,
         count' = BASE, holder' = t, owner_count' = BASE, wr' = [wr EXCEPT ![t] = 1],
         UNCHANGED <<active_readers, pending_readers, waiters, waiter_thread, wait,
                     pc, destroyed, rd>>
  PROVE  Types' /\ AliveInv'
<1> USE RWLockConstants
<1>1. /\ Claiming = {} /\ waiters = <<>> /\ holder = NoThread
      /\ Arriving = {} /\ Leaving = {} /\ Queued = {}
      /\ active_readers = 0 /\ pending_readers = 0
      /\ NR = 0 /\ NA = 0 /\ NQ = 0
      /\ \A u \in Threads : rd[u] = 0
  BY Unused
<1>2. Types'
  BY DEF Types, BASE, RW_LOCK_WRITER_COUNT_BASE
<1>3. Queued' = Queued /\ QueuedReaders' = QueuedReaders /\ Claiming' = {t}
  BY <1>1 DEF Queued, QueuedReaders, Claiming, IsWriter
<1>4. NC' = 1 /\ NQ' = 0
  BY <1>1, <1>3, FS_Singleton DEF NC, NQ
<1>5. Arriving' = Arriving /\ Leaving' = Leaving /\ NA' = 0 /\ NR' = 0
  BY <1>1, SameReads DEF Arriving, Leaving, NA
<1>6. Accounting'
  BY <1>1, <1>3, <1>4, <1>5 DEF Accounting, BASE, RW_LOCK_WRITER_COUNT_BASE
<1>7. QueueInv' /\ Served'
  BY <1>1, <1>3 DEF AliveInv, QueueInv, Served
<1>8. wr' \in [Threads -> Nat] /\ \A u \in Threads : wr'[u] = IF u = t THEN 1 ELSE wr[u]
  BY DEF Types
<1>9. HolderInv'
  BY <1>1, <1>5, <1>8 DEF HolderInv, BASE, RW_LOCK_WRITER_COUNT_BASE
<1>10. ASSUME NEW u \in Threads PROVE ThreadInv(u)'
  <2>1. wr'[u] > 0 <=> holder' = u
    BY <1>1, <1>8 DEF AliveInv, ThreadInv
  <2>2. ThreadInv(u) /\ pc'[u] = pc[u] /\ rd'[u] = 0
    BY <1>1 DEF AliveInv
  <2>3. pc[u] \in ReadWaiting \cup {"panic"} => u # t
    BY DEF ReadWaiting
  <2>4. pc[u] # "write_wait"
    BY <1>1, <2>2 DEF ThreadInv
  <2> QED
    BY <1>1, <1>3, <1>5, <2>1, <2>2, <2>3, <2>4 DEF ThreadInv
<1> QED
  BY <1>2, <1>6, <1>7, <1>9, <1>10 DEF AliveInv

(* A writer has to wait.                                                   *)
LEMMA StepWriteWait ==
  ASSUME Types, AliveInv, NEW t \in Threads, pc[t] = "idle", holder # t,
         rd[t] = 0, count # 0, count' = count + BASE, active_readers' = ReadersSeen,
         rw_lock_wait(t, "write_wait"),
         UNCHANGED <<holder, owner_count, pending_readers, wr, destroyed, rd>>
  PROVE  Types' /\ AliveInv'
<1> USE RWLockConstants
<1>1. t \notin Queued /\ t \notin Leaving /\ t \notin Arriving /\ QueueInv
  BY DEF AliveInv, QueueInv, Sleeper, ReadWaiting, Leaving, Arriving
<1>2. /\ waiters' \in Seq(Threads) /\ waiters' # <<>>
      /\ Queued' = Queued \cup {t} /\ IsInjective(waiters')
      /\ waiters # <<>> => Head(waiters') = Head(waiters)
      /\ waiters = <<>> => Head(waiters') = t
      /\ \A u \in Threads : pc'[u] = IF u = t THEN "write_wait" ELSE pc[u]
      /\ \A u \in Threads : u # t => wait'[u] = wait[u] /\ waiter_thread'[u] = waiter_thread[u]
      /\ wait'[t] = Blocked /\ waiter_thread'[t]
      /\ wait' \in [Threads -> WaitStatus] /\ waiter_thread' \in [Threads -> BOOLEAN]
      /\ pc' \in [Threads -> Labels]
  BY <1>1, QueueGrows
<1>3. NQ' = NQ /\ Claiming' = Claiming \cup {t} /\ NC' = NC + 1
  BY <1>1, QueueGrows
<1>4. Arriving' = Arriving /\ Leaving' = Leaving /\ NA' = NA /\ NL' = NL
  <2>1. "write_wait" \notin Slow /\ "write_wait" # "unread_slow" /\ Goto(t, "write_wait")
    BY DEF Slow, rw_lock_wait
  <2>2. Arriving' = Arriving \ {t} /\ Leaving' = Leaving \ {t} /\ NA' = NA /\ NL' = NL
    BY <1>1, <2>1, GotoCounts
  <2> QED
    BY <1>1, <2>2
<1>5. NR' = NR
  BY SameReads
<1>6. Types'
  <2>1. active_readers' \in Int /\ count' \in Int
    BY DEF Types, ReadersSeen, BASE, RW_LOCK_WRITER_COUNT_BASE
  <2> QED
    BY <1>2, <2>1 DEF Types
<1>7. count' = BASE * NC' + NR' + NA' + NQ'
  <2>1. count = BASE * NC + NR + NA + NQ
    BY DEF AliveInv, Accounting
  <2>2. BASE * (NC + 1) = BASE * NC + BASE /\ BASE * NC \in Int /\ BASE \in Int
    BY FiniteParts DEF BASE, RW_LOCK_WRITER_COUNT_BASE
  <2> QED
    BY <1>3, <1>4, <1>5, <2>1, <2>2, FiniteParts
<1>8. ASSUME Claiming = {}
      PROVE  /\ active_readers' = NR' + NL' /\ pending_readers' \in 0 .. NA'
             /\ active_readers' > 0 \/ pending_readers' > 0
             /\ holder = NoThread /\ waiters = <<>>
  <2>1. /\ holder = NoThread /\ waiters = <<>> /\ NC = 0 /\ NQ = 0
        /\ count < BASE
    BY <1>8, Claims
  <2>2. pending_readers = NA /\ NL = 0
    BY <1>8, FS_EmptySet DEF AliveInv, Accounting, NL
  <2>3. count = NR + NA
    BY <2>1, FiniteParts DEF AliveInv, Accounting, BASE, RW_LOCK_WRITER_COUNT_BASE
  <2>4. active_readers' = count - pending_readers
    BY <2>1 DEF ReadersSeen, BASE
  <2>5. active_readers' = NR
    BY <2>2, <2>3, <2>4, FiniteParts
  <2>6. NR > 0 \/ NA > 0
    BY <2>3, FiniteParts
  <2> QED
    BY <1>4, <1>5, <2>1, <2>2, <2>5, <2>6, FiniteParts
<1>9. ASSUME Claiming # {}
      PROVE  /\ active_readers' = active_readers
             /\ holder = NoThread => /\ waiters # <<>>
                                     /\ active_readers = NR + NL
                                     /\ pending_readers \in 0 .. NA
  <2>1. ~(count < BASE)
    BY <1>9, Claims
  <2>2. active_readers' = active_readers
    BY <2>1 DEF ReadersSeen, BASE
  <2>3. ASSUME holder = NoThread PROVE waiters # <<>>
    <3>1. PICK c \in Claiming : c \in Queued
      BY <1>9, <2>3 DEF Claiming
    <3> QED
      BY <3>1 DEF Queued, Range
  <2>4. holder = NoThread => active_readers = NR + NL /\ pending_readers \in 0 .. NA
    BY <1>9 DEF AliveInv, Accounting
  <2> QED
    BY <2>2, <2>3, <2>4
<1>10. Accounting'
  <2>1. holder' # NoThread => active_readers' = 0 /\ pending_readers' = 0
    BY <1>8, <1>9 DEF AliveInv, Accounting
  <2>2. holder' = NoThread => active_readers' = NR' + NL' /\ pending_readers' \in 0 .. NA'
    BY <1>4, <1>5, <1>8, <1>9
  <2>3. Claiming' # {}
    BY <1>3
  <2> QED
    BY <1>7, <2>1, <2>2, <2>3 DEF Accounting
<1>11. QueueInv'
  <2>1. Sleeper(t)' /\ holder' # t
    BY <1>2 DEF Sleeper, Blocked, B_OK
  <2>2. ASSUME NEW u \in Queued PROVE Sleeper(u)' /\ holder' # u
    <3>1. u \in Threads /\ u # t /\ Sleeper(u) /\ holder # u
      BY <1>1, FiniteParts DEF QueueInv
    <3> QED
      BY <1>2, <3>1 DEF Sleeper
  <2> QED
    BY <1>2, <2>1, <2>2 DEF QueueInv
<1>12. HolderInv'
  BY <1>2, <1>4 DEF AliveInv, HolderInv, Types
<1>13. Served'
  <2> SUFFICES ASSUME holder = NoThread
               PROVE  IsWriter(Head(waiters))' /\ (active_readers' > 0 \/ pending_readers' > 0)
    BY DEF Served
  <2>1. CASE Claiming = {}
    BY <1>2, <1>8, <2>1 DEF IsWriter
  <2>2. CASE Claiming # {}
    <3>1. waiters # <<>> /\ active_readers' = active_readers
      BY <1>9, <2>2
    <3>2. /\ IsWriter(Head(waiters)) /\ Head(waiters) \in Queued
          /\ active_readers > 0 \/ pending_readers > 0
      BY <3>1, Claims DEF AliveInv, Served
    <3> QED
      BY <1>1, <1>2, <3>1, <3>2, FiniteParts DEF IsWriter
  <2> QED
    BY <2>1, <2>2
<1>14. ASSUME NEW u \in Threads PROVE ThreadInv(u)'
  <2>1. CASE u = t
    BY <1>1, <1>2, <1>4, <2>1 DEF AliveInv, ThreadInv, ReadWaiting
  <2>2. CASE u # t
    BY <1>2, <1>4, <2>2 DEF AliveInv, ThreadInv
  <2> QED
    BY <2>1, <2>2
<1> QED
  BY <1>6, <1>10, <1>11, <1>12, <1>13, <1>14 DEF AliveInv

(* rw_lock_write_lock()                                                    *)
LEMMA StepWriteLock ==
  ASSUME Types, AliveInv, NEW t \in Threads, rw_lock_write_lock(t)
  PROVE  Types' /\ AliveInv'
<1>0. /\ pc[t] = "idle" /\ (rd[t] = 0 \/ wr[t] > 0)
      /\ UNCHANGED <<pending_readers, destroyed, rd>>
  BY DEF rw_lock_write_lock
<1>1. CASE holder = t
  <2>1. /\ owner_count' = owner_count + BASE
        /\ wr' = [wr EXCEPT ![t] = @ + 1]
        /\ UNCHANGED <<count, holder, active_readers, waiters, waiter_thread, wait, pc>>
    BY <1>1 DEF rw_lock_write_lock, BASE
  <2>2. 1 \in {-1, 1} /\ wr[t] + 1 > 0 /\ BASE = BASE * 1
    BY DEF Types, BASE, RW_LOCK_WRITER_COUNT_BASE
  <2> QED
    BY <1>0, <1>1, <2>1, <2>2, StepNestedWrite
<1>2. CASE holder # t /\ count = 0
  <2>1. /\ count' = BASE /\ holder' = t /\ owner_count' = BASE
        /\ wr' = [wr EXCEPT ![t] = 1]
        /\ UNCHANGED <<active_readers, waiters, waiter_thread, wait, pc>>
    BY <1>2 DEF rw_lock_write_lock, BASE
  <2> QED
    BY <1>0, <1>2, <2>1, StepWriteFree
<1>3. CASE holder # t /\ count # 0
  <2>1. /\ count' = count + BASE /\ active_readers' = ReadersSeen
        /\ rw_lock_wait(t, "write_wait") /\ UNCHANGED <<holder, owner_count, wr>>
    BY <1>3 DEF rw_lock_write_lock, BASE
  <2>2. rd[t] = 0
    BY <1>0, <1>3 DEF AliveInv, ThreadInv
  <2> QED
    BY <1>0, <1>3, <2>1, <2>2, StepWriteWait
<1> QED
  BY <1>1, <1>2, <1>3

(* A writer wakes up: it was made the holder by its unblocker.             *)
LEMMA StepWriteWaitReturn ==
  ASSUME Types, AliveInv, NEW t \in Threads, WriteWaitReturn(t)
  PROVE  Types' /\ AliveInv'
<1> USE RWLockConstants
<1>0. /\ pc[t] = "write_wait" /\ wait[t] # Blocked /\ Goto(t, "idle")
      /\ UNCHANGED <<count, active_readers, pending_readers, waiters,
                     waiter_thread, wait, destroyed, rd, wr>>
  BY DEF WriteWaitReturn, thread_is_blocked
<1>1. t \notin Queued
  BY <1>0 DEF AliveInv, QueueInv, Sleeper
<1>2. holder = t /\ wr[t] = 1 /\ rd[t] = 0 /\ wait[t] = B_OK
  BY <1>0, <1>1 DEF AliveInv, ThreadInv
<1>3. holder' = holder /\ owner_count' = BASE
  BY <1>2 DEF WriteWaitReturn, BASE
<1>4. t \notin Arriving /\ t \notin Leaving
  BY <1>0 DEF Arriving, Leaving
<1>5. Types'
  BY <1>0, <1>3 DEF Types, Goto, Labels, BASE, RW_LOCK_WRITER_COUNT_BASE
<1>6. \A u \in Threads : pc'[u] = IF u = t THEN "idle" ELSE pc[u]
  BY <1>0 DEF Types, Goto
<1>7. Queued' = Queued /\ Claiming' = Claiming /\ NQ' = NQ /\ NC' = NC
  BY <1>0, <1>1, <1>3, <1>6, SameQueue, FiniteParts
<1>8. Arriving' = Arriving /\ NA' = NA /\ Leaving' = Leaving /\ NL' = NL
  <2>1. "idle" \notin Slow /\ "idle" # "unread_slow"
    BY DEF Slow
  <2>2. Arriving' = Arriving \ {t} /\ NA' = NA /\ Leaving' = Leaving \ {t} /\ NL' = NL
    BY <1>0, <1>4, <2>1, GotoCounts
  <2> QED
    BY <1>4, <2>2
<1>9. NR' = NR
  BY <1>0, SameReads
<1>10. Accounting'
  BY <1>0, <1>3, <1>7, <1>8, <1>9 DEF AliveInv, Accounting
<1>11. QueueInv'
  <2> SUFFICES ASSUME NEW u \in Queued PROVE Sleeper(u)' /\ holder' # u
    BY <1>0, <1>7 DEF AliveInv, QueueInv
  <2>1. u \in Threads /\ u # t /\ Sleeper(u) /\ holder # u
    BY <1>1, FiniteParts DEF AliveInv, QueueInv
  <2> QED
    BY <1>0, <1>3, <1>6, <2>1 DEF Sleeper
<1>12. HolderInv'
  <2>1. \A u \in Threads : u # t => rd'[u] = 0 /\ u \notin Leaving'
    BY <1>0, <1>2, <1>8 DEF AliveInv, HolderInv
  <2>2. owner_count' = BASE * wr'[t] + rd'[t] + 0
    BY <1>0, <1>2, <1>3 DEF BASE, RW_LOCK_WRITER_COUNT_BASE
  <2> QED
    BY <1>2, <1>3, <1>4, <1>8, <2>1, <2>2 DEF HolderInv
<1>13. Served'
  BY <1>2, <1>3 DEF Served
<1>14. ASSUME NEW u \in Threads PROVE ThreadInv(u)'
  <2>1. CASE u = t
    BY <1>0, <1>2, <1>3, <1>4, <1>6, <1>8, <2>1 DEF AliveInv, ThreadInv, ReadWaiting
  <2>2. CASE u # t
    BY <1>0, <1>3, <1>6, <1>7, <1>8, <2>2 DEF AliveInv, ThreadInv
  <2> QED
    BY <2>1, <2>2
<1> QED
  BY <1>5, <1>10, <1>11, <1>12, <1>13, <1>14 DEF AliveInv

(* What the holder that is about to unlock knows: owner_count tells how    *)
(* many write locks it has and what it reads, and the rest of count is     *)
(* that of the others.                                                     *)
LEMMA WriterCounts ==
  ASSUME Types, AliveInv, NEW t \in Threads, pc[t] = "idle", holder = t
  PROVE  /\ wr[t] > 0 /\ wr[t] \in Nat
         /\ owner_count - BASE >= BASE <=> wr[t] > 1
         /\ wr[t] = 1 => owner_count - BASE = NR
         /\ Leaving = {} /\ t \in Claiming /\ t \notin Queued
         /\ active_readers = 0 /\ pending_readers = 0
         /\ IsFiniteSet(Claiming \ {t}) /\ Cardinality(Claiming \ {t}) \in Nat
         /\ count - BASE = BASE * Cardinality(Claiming \ {t}) + NR + NA + NQ
<1> USE RWLockConstants
<1>1. wr[t] > 0 /\ wr[t] \in Nat /\ rd[t] <= MaxNest
  BY DEF AliveInv, ThreadInv, Types
<1>2. t \notin Leaving /\ t # NoThread /\ t \in Claiming /\ t \notin Queued
  BY DEF Leaving, Claiming, AliveInv, QueueInv
<1>3. owner_count = BASE * wr[t] + rd[t] + 0
  BY <1>2 DEF AliveInv, HolderInv
<1>4. \A u \in Threads : u # t => rd[u] = 0 /\ u \notin Leaving
  BY <1>2 DEF AliveInv, HolderInv
<1>5. NR = rd[t]
  BY <1>1, <1>4, ReadLocksOf
<1>6. rd[t] \in Nat /\ rd[t] < BASE
  BY <1>5, Claims, FiniteParts DEF BASE, RW_LOCK_WRITER_COUNT_BASE
<1>7. owner_count - BASE >= BASE <=> wr[t] > 1
  BY <1>1, <1>3, <1>6 DEF BASE, RW_LOCK_WRITER_COUNT_BASE
<1>8. wr[t] = 1 => owner_count - BASE = NR
  BY <1>3, <1>5, <1>6 DEF BASE, RW_LOCK_WRITER_COUNT_BASE
<1>9. Leaving = {}
  BY <1>2, <1>4 DEF Leaving
<1>10. active_readers = 0 /\ pending_readers = 0
  BY <1>2 DEF AliveInv, Accounting
<1>11. /\ IsFiniteSet(Claiming \ {t}) /\ Cardinality(Claiming \ {t}) = NC - 1
       /\ Cardinality(Claiming \ {t}) \in Nat
  BY <1>2, FiniteParts, FS_RemoveElement, FS_CardinalityType DEF NC
<1>12. count - BASE = BASE * (NC - 1) + NR + NA + NQ
  BY FiniteParts DEF AliveInv, Accounting, BASE, RW_LOCK_WRITER_COUNT_BASE
<1> QED
  BY <1>1, <1>2, <1>7, <1>8, <1>9, <1>10, <1>11, <1>12

(* The writer gives the lock up, and nobody else is about.                 *)
LEMMA StepWriteUnused ==
  ASSUME Types, AliveInv, NEW t \in Threads, pc[t] = "idle", holder = t,
         count - BASE = 0, owner_count' = 0, holder' = NoThread, count' = 0,
         wr' = [wr EXCEPT ![t] = 0],
         UNCHANGED <<active_readers, pending_readers, waiters, waiter_thread,
                     wait, pc, destroyed, rd>>
  PROVE  Types' /\ AliveInv'
<1> USE RWLockConstants
<1>1. /\ Leaving = {} /\ t \in Claiming /\ t \notin Queued
      /\ active_readers = 0 /\ pending_readers = 0
      /\ IsFiniteSet(Claiming \ {t}) /\ Cardinality(Claiming \ {t}) \in Nat
      /\ count - BASE = BASE * Cardinality(Claiming \ {t}) + NR + NA + NQ
  BY WriterCounts
<1>2. Cardinality(Claiming \ {t}) = 0 /\ NR = 0 /\ NA = 0 /\ NQ = 0
  <2> DEFINE k == Cardinality(Claiming \ {t})
  <2>1. 0 = BASE * k + NR + NA + NQ /\ k \in Nat
    BY <1>1
  <2>2. NR \in Nat /\ NA \in Nat /\ NQ \in Nat
    BY FiniteParts
  <2> HIDE DEF k
  <2>3. k = 0 /\ NR = 0 /\ NA = 0 /\ NQ = 0
    BY <2>1, <2>2, ZeroCount, Zenon
  <2> QED
    BY <2>3 DEF k
<1>3. Claiming = {t} /\ QueuedReaders = {}
  BY <1>1, <1>2, FiniteParts, FS_EmptySet DEF NQ
<1>4. Queued = {}
  <2> SUFFICES ASSUME NEW u \in Queued PROVE FALSE
    OBVIOUS
  <2>1. u \in Threads /\ u # t
    BY <1>1, FiniteParts
  <2>2. CASE IsWriter(u)
    BY <1>3, <2>1, <2>2 DEF Claiming
  <2>3. CASE ~IsWriter(u)
    BY <1>3, <2>3 DEF QueuedReaders
  <2> QED
    BY <2>2, <2>3
<1>5. waiters = <<>>
  BY <1>4, Claims
<1>6. Types'
  BY DEF Types
<1>7. Queued' = {} /\ QueuedReaders' = {} /\ Claiming' = {}
  BY <1>4 DEF Queued, QueuedReaders, Claiming
<1>8. NC' = 0 /\ NQ' = 0
  BY <1>7, FS_EmptySet DEF NC, NQ
<1>9. Arriving' = Arriving /\ Leaving' = {} /\ NA' = 0 /\ NR' = 0
  BY <1>1, <1>2, SameReads DEF Arriving, Leaving, NA
<1>10. Accounting'
  BY <1>1, <1>7, <1>8, <1>9 DEF Accounting, BASE, RW_LOCK_WRITER_COUNT_BASE
<1>11. QueueInv' /\ Served' /\ HolderInv'
  BY <1>5, <1>7 DEF AliveInv, QueueInv, Served, HolderInv
<1>12. ASSUME NEW u \in Threads PROVE ThreadInv(u)'
  <2>1. ThreadInv(u) /\ pc'[u] = pc[u] /\ rd'[u] = rd[u]
    BY DEF AliveInv
  <2>2. wr'[u] = 0
    BY <2>1 DEF Types, ThreadInv
  <2>3. u \in Arriving => FALSE
    BY <1>2, FiniteParts, FS_EmptySet DEF NA
  <2>4. pc[u] # "write_wait"
    BY <1>4, <2>1 DEF ThreadInv
  <2> QED
    BY <1>4, <1>7, <1>9, <2>1, <2>2, <2>3, <2>4 DEF ThreadInv
<1> QED
  BY <1>6, <1>10, <1>11, <1>12 DEF AliveInv

(* _rw_lock_write_unlock()                                                 *)
LEMMA StepWriteUnlock ==
  ASSUME Types, AliveInv, NEW t \in Threads, _rw_lock_write_unlock(t)
  PROVE  Types' /\ AliveInv'
<1> USE RWLockConstants
<1> DEFINE left == owner_count - BASE
           old == count - BASE
           others == Claiming \ {t}
<1>0. pc[t] = "idle" /\ wr[t] > 0 /\ destroyed' = destroyed
  BY DEF _rw_lock_write_unlock
<1>1. holder = t
  BY <1>0 DEF AliveInv, ThreadInv
<1>2. GiveUpWrite(t) /\ UNCHANGED pc
  BY <1>1 DEF _rw_lock_write_unlock
<1>3. /\ wr[t] > 0 /\ wr[t] \in Nat
      /\ left >= BASE <=> wr[t] > 1
      /\ wr[t] = 1 => left = NR
      /\ Leaving = {} /\ t \in Claiming /\ t \notin Queued
      /\ active_readers = 0 /\ pending_readers = 0
      /\ IsFiniteSet(others) /\ Cardinality(others) \in Nat
      /\ old = BASE * Cardinality(others) + NR + NA + NQ
  BY <1>0, <1>1, WriterCounts
<1>4. NR \in Nat /\ NA \in Nat /\ NQ \in Nat /\ NR + NA + NQ < BASE /\ old \in Int /\ left \in Int
  BY FiniteParts, Claims DEF Types, BASE, RW_LOCK_WRITER_COUNT_BASE
<1>5. old >= BASE <=> others # {}
  <2>1. BASE * Cardinality(others) + NR + NA + NQ >= BASE <=> Cardinality(others) # 0
    BY <1>3, <1>4, ClaimedCount, Zenon
  <2>2. Cardinality(others) = 0 <=> others = {}
    BY <1>3, FS_EmptySet
  <2> QED
    BY <1>3, <2>1, <2>2
<1>6. Goto(t, "idle")
  BY <1>0, <1>2 DEF Goto, Types
<1>7. Leaving \ {t} = {} /\ Cardinality(Leaving \ {t}) = 0
  BY <1>3, FS_EmptySet
<1>8. CASE left >= BASE
  <2>1. /\ owner_count' = left
        /\ wr' = [wr EXCEPT ![t] = @ - 1]
        /\ UNCHANGED <<count, holder, active_readers, pending_readers, waiters,
                       waiter_thread, wait, rd>>
    BY <1>2, <1>4, <1>8 DEF GiveUpWrite, BASE, RW_LOCK_WRITER_COUNT_BASE
  <2>2. owner_count' = owner_count + BASE * (-1) /\ wr[t] + (-1) > 0 /\ -1 \in {-1, 1}
    BY <1>3, <1>8, <2>1 DEF Types, BASE, RW_LOCK_WRITER_COUNT_BASE
  <2>3. wr' = [wr EXCEPT ![t] = @ + (-1)]
    BY <1>3, <2>1 DEF Types
  <2> HIDE DEF left
  <2> QED
    BY <1>0, <1>1, <1>2, <2>1, <2>2, <2>3, StepNestedWrite
<1>9. CASE left < BASE
  <2>0. wr[t] = 1 /\ left = NR
    BY <1>3, <1>4, <1>9 DEF BASE, RW_LOCK_WRITER_COUNT_BASE
  <2>1. CASE old = 0
    <3>1. /\ owner_count' = 0 /\ holder' = NoThread /\ count' = 0
          /\ wr' = [wr EXCEPT ![t] = 0]
          /\ UNCHANGED <<active_readers, pending_readers, waiters, waiter_thread,
                         wait, rd>>
      BY <1>2, <1>4, <1>9, <2>1 DEF GiveUpWrite, BASE, RW_LOCK_WRITER_COUNT_BASE
    <3> QED
      BY <1>0, <1>1, <1>2, <2>1, <3>1, StepWriteUnused
  <2>2. CASE old >= BASE
    <3>1. /\ owner_count' = 0 /\ count' = old /\ UNCHANGED pending_readers
          /\ \E n \in 0 .. Len(waiters) :
               rw_lock_unblock(t, n, NoThread, left, pending_readers, old)
      BY <1>2, <1>4, <1>9, <2>2 DEF GiveUpWrite, BASE, RW_LOCK_WRITER_COUNT_BASE
    <3>2. PICK n \in 0 .. Len(waiters) :
                 rw_lock_unblock(t, n, NoThread, left, pending_readers, old)
      BY <3>1
    <3>3. others # {}
      BY <1>5, <2>2
    <3>4. left = NR + Cardinality(Leaving \ {t}) /\ pending_readers \in 0 .. NA
      BY <1>3, <1>4, <1>7, <2>0
    <3>5. HandsOver(t, n, left, pending_readers, old)
      <4> HIDE DEF left, old
      <4> QED
        BY <1>0, <1>1, <1>3, <1>6, <3>1, <3>2, <3>3, <3>4 DEF HandsOver
    <3>6. pending_readers \in Int
      BY DEF Types
    <3> HIDE DEF left, old
    <3> QED
      BY <1>4, <3>5, <3>6, StepUnblock
  <2>3. CASE old # 0 /\ old < BASE
    <3>1. /\ owner_count' = 0 /\ count' = old
          /\ \E n \in 0 .. Len(waiters) :
               /\ rw_lock_unblock(t, n, NoThread, active_readers, pending_readers, old)
               /\ pending_readers' = old - left - n
      BY <1>2, <1>4, <1>9, <2>3
      DEF GiveUpWrite, PendingAfterUnlock, BASE, RW_LOCK_WRITER_COUNT_BASE
    <3>2. PICK n \in 0 .. Len(waiters) :
                 /\ rw_lock_unblock(t, n, NoThread, active_readers, pending_readers, old)
                 /\ pending_readers' = old - left - n
      BY <3>1
    <3>3. others = {}
      BY <1>4, <1>5, <2>3 DEF BASE, RW_LOCK_WRITER_COUNT_BASE
    <3>4. HandsOver(t, n, active_readers, pending_readers, old)
      <4> HIDE DEF left, old
      <4> QED
        BY <1>0, <1>1, <1>3, <1>6, <1>7, <2>0, <3>1, <3>2, <3>3 DEF HandsOver
    <3>5. active_readers \in Int /\ pending_readers \in Int
      BY DEF Types
    <3> HIDE DEF left, old
    <3> QED
      BY <1>4, <3>4, <3>5, StepUnblock
  <2> QED
    BY <1>4, <2>1, <2>2, <2>3 DEF BASE, RW_LOCK_WRITER_COUNT_BASE
<1> QED
  BY <1>4, <1>8, <1>9 DEF BASE, RW_LOCK_WRITER_COUNT_BASE

-----------------------------------------------------------------------------
(* The slow path of a reader, whichever way it goes                        *)
LEMMA StepReadLockSlow ==
  ASSUME Types, AliveInv, ~destroyed, NEW t \in Threads, NEW slow \in Slow,
         NEW label \in {"read_wait", "timed_wait"}, ReadLockSlow(t, slow, label)
  PROVE  Types' /\ AliveInv'
<1>0. t \in Arriving /\ UNCHANGED <<count, holder, destroyed, wr>>
  BY DEF ReadLockSlow, Arriving, Slow
<1>1. CASE holder = t
  <2>1. /\ owner_count' = owner_count + 1 /\ rd' = [rd EXCEPT ![t] = @ + 1]
        /\ Goto(t, "idle")
        /\ UNCHANGED <<active_readers, pending_readers, waiters, waiter_thread, wait>>
    BY <1>1 DEF ReadLockSlow
  <2> QED
    BY <1>0, <1>1, <2>1, StepSlowHolder
<1>2. CASE holder # t /\ pending_readers > 0
  <2>1. /\ pending_readers' = pending_readers - 1 /\ active_readers' = ActiveAfterPending
        /\ rd' = [rd EXCEPT ![t] = @ + 1] /\ Goto(t, "idle")
        /\ UNCHANGED <<owner_count, waiters, waiter_thread, wait>>
    BY <1>2 DEF ReadLockSlow
  <2> QED
    BY <1>0, <1>2, <2>1, StepSlowPending
<1>3. CASE holder # t /\ ~(pending_readers > 0)
  <2>1. /\ pending_readers = 0 /\ rw_lock_wait(t, label)
        /\ UNCHANGED <<owner_count, active_readers, pending_readers, rd>>
    BY <1>3 DEF ReadLockSlow
  <2> QED
    BY <1>0, <1>3, <2>1, StepSlowWait
<1> QED
  BY <1>1, <1>2, <1>3

(* A reader returns from its sleep, with the lock or to dequeue itself.    *)
LEMMA StepReadReturn ==
  ASSUME Types, AliveInv, NEW t \in Threads, ReadWaitReturn(t) \/ TimedReturn(t)
  PROVE  Types' /\ AliveInv'
<1>0. /\ pc[t] \in {"read_wait", "timed_wait"} /\ wait[t] # Blocked
      /\ UNCHANGED <<count, holder, owner_count, active_readers, pending_readers,
                     waiters, waiter_thread, wait, destroyed, rd, wr>>
  BY DEF ReadWaitReturn, TimedReturn, thread_is_blocked, lockVars
<1>1. /\ pc[t] \in ReadWaiting /\ t \notin Arriving /\ t \notin Leaving
  BY <1>0 DEF ReadWaiting, Arriving, Leaving
<1>2. /\ "idle" \in Labels /\ "idle" \notin Slow
      /\ "idle" \notin {"unread_slow", "write_wait", "read_wait"}
      /\ "timed_dequeue" \in Labels /\ "timed_dequeue" \notin Slow
      /\ "timed_dequeue" \notin {"unread_slow", "write_wait", "read_wait"}
      /\ "timed_dequeue" \in ReadWaiting
  BY DEF Labels, ReadWaiting, Slow
<1>3. CASE Goto(t, "idle")
  <2>1. t \notin Queued
    <3> SUFFICES ASSUME t \in Queued PROVE FALSE
      OBVIOUS
    <3>1. Sleeper(t)
      BY DEF AliveInv, QueueInv
    <3>2. pc[t] = "timed_wait" /\ wait[t] # B_OK /\ waiter_thread[t]
      BY <1>0, <3>1 DEF Sleeper
    <3>3. Goto(t, "timed_dequeue")
      BY <3>2 DEF ReadWaitReturn, TimedReturn
    <3> QED
      BY <1>3, <3>3 DEF Goto, Types
  <2> QED
    BY <1>0, <1>1, <1>2, <1>3, <2>1, StepMove
<1>4. CASE Goto(t, "timed_dequeue")
  BY <1>0, <1>1, <1>2, <1>4, StepMove
<1> QED
  BY <1>3, <1>4 DEF ReadWaitReturn, TimedReturn

(* A reader whose timeout expired: it is in the list, or its walk over the *)
(* list does not end.                                                      *)
LEMMA StepTimedDequeueAll ==
  ASSUME Types, AliveInv, ~destroyed, NEW t \in Threads, TimedDequeue(t)
  PROVE  Types' /\ AliveInv'
<1>0. /\ pc[t] = "timed_dequeue"
      /\ UNCHANGED <<holder, owner_count, active_readers, pending_readers,
                     waiter_thread, wait, destroyed, rd, wr>>
  BY DEF TimedDequeue
<1>1. CASE t \notin Range(waiters)
  <2>1. Goto(t, "panic") /\ UNCHANGED <<waiters, count>>
    BY <1>1 DEF TimedDequeue, Dequeue, Range
  <2>2. /\ pc[t] \in ReadWaiting /\ t \notin Arriving /\ t \notin Leaving /\ t \notin Queued
    BY <1>0, <1>1 DEF ReadWaiting, Arriving, Leaving, Queued
  <2>3. /\ "panic" \in Labels /\ "panic" \notin Slow
        /\ "panic" \notin {"unread_slow", "write_wait", "read_wait"}
    BY DEF Labels, Slow
  <2> QED
    BY <1>0, <2>1, <2>2, <2>3, StepMove
<1>2. CASE t \in Range(waiters)
  <2>1. PICK i \in DOMAIN waiters : waiters[i] = t /\ waiters' = RemoveAt(waiters, i)
    BY <1>2 DEF TimedDequeue, Dequeue
  <2>2. count' = count - 1 /\ Goto(t, "idle")
    BY <1>2 DEF TimedDequeue, Dequeue
  <2> QED
    BY <1>0, <2>1, <2>2, StepTimedDequeue
<1> QED
  BY <1>1, <1>2

(* rw_lock_destroy()                                                       *)
LEMMA StepDestroy ==
  ASSUME Types, AliveInv, NEW t \in Threads, rw_lock_destroy(t)
  PROVE  Types' /\ DeadInv'
<1> USE RWLockConstants DEF rw_lock_destroy, lockVars
<1>1. Types'
  <2>1. waiters' \in Seq(Threads)
    BY EmptySeq
  <2>2. wait' \in [Threads -> WaitStatus]
    BY DEF Types, thread_unblock, WaitStatus
  <2>3. rd' \in [Threads -> Nat] /\ wr' \in [Threads -> Nat]
    BY DEF Types
  <2> QED
    BY <2>1, <2>2, <2>3 DEF Types
<1>2. /\ active_readers = 0 /\ pending_readers = 0 /\ holder \in {t, NoThread}
      /\ \A u \in Threads : u # t => rd[u] = 0 /\ u \notin Leaving
  <2>1. CASE holder = t
    BY <2>1 DEF AliveInv, Accounting, HolderInv
  <2>2. CASE count = 0 /\ waiters = <<>>
    BY <2>2, Unused
  <2> QED
    BY <2>1, <2>2
<1>3. t \notin Leaving /\ t \notin Arriving
  BY DEF Leaving, Arriving
<1>4. ASSUME NEW u \in Threads
      PROVE  /\ rd'[u] = 0 /\ wr'[u] = 0 /\ u \notin Leaving'
             /\ u \in Arriving' => holder' # u
             /\ pc'[u] = "write_wait" => wait'[u] # B_OK
  <2>1. ThreadInv(u)
    BY DEF AliveInv
  <2>2. rd'[u] = 0 /\ wr'[u] = 0
    BY <1>2, <2>1 DEF Types, ThreadInv
  <2>3. u \notin Leaving'
    BY <1>2, <1>3 DEF Leaving
  <2>4. u \in Arriving' => holder' # u
    BY <1>2, <1>3 DEF Arriving
  <2>5. ASSUME pc[u] = "write_wait" PROVE wait'[u] # B_OK
    <3>1. u \in Queued
      BY <1>2, <2>1, <2>5 DEF ThreadInv
    <3>2. wait[u] = Blocked
      BY <2>5, <3>1 DEF AliveInv, QueueInv, Sleeper
    <3>3. wait'[u] = B_ERROR
      BY <3>1, <3>2 DEF Types, thread_unblock, Queued
    <3> QED
      BY <3>3 DEF B_ERROR, B_OK
  <2> QED
    BY <2>2, <2>3, <2>4, <2>5
<1> QED
  BY <1>1, <1>2, <1>4 DEF DeadInv

(* What threads still do with a lock that was destroyed: late readers      *)
(* queue up, and those that slept or timed out return.                     *)
LEMMA StepDead ==
  ASSUME Types, destroyed, DeadInv, NEW t \in Threads, Step(t)
  PROVE  Types' /\ destroyed' /\ DeadInv'
<1> USE RWLockConstants
<1>0. rd[t] = 0 /\ wr[t] = 0 /\ pc[t] # "unread_slow"
  BY DEF DeadInv, Leaving
<1>1. /\ ~rw_lock_read_lock(t) /\ ~rw_lock_read_lock_with_timeout(t)
      /\ ~rw_lock_read_unlock(t) /\ ~_rw_lock_read_unlock(t)
      /\ ~rw_lock_write_lock(t) /\ ~_rw_lock_write_unlock(t) /\ ~rw_lock_destroy(t)
  BY <1>0 DEF rw_lock_read_lock, rw_lock_read_lock_with_timeout, ReadLock, MayRead,
              rw_lock_read_unlock, _rw_lock_read_unlock, rw_lock_write_lock,
              _rw_lock_write_unlock, rw_lock_destroy
<1>2. ASSUME NEW label \in Labels \ {"unread_slow", "write_wait", "read_slow", "timed_slow"},
             Goto(t, label),
             UNCHANGED <<holder, active_readers, pending_readers, destroyed, rd, wr>>,
             \A u \in Threads : u # t => wait'[u] = wait[u]
      PROVE  pc' \in [Threads -> Labels] /\ destroyed' /\ DeadInv'
  <2>1. /\ \A u \in Threads : pc'[u] = IF u = t THEN label ELSE pc[u]
        /\ pc' \in [Threads -> Labels]
    BY <1>2 DEF Types, Goto
  <2>2. ASSUME NEW u \in Threads
        PROVE  /\ rd'[u] = 0 /\ wr'[u] = 0 /\ u \notin Leaving'
               /\ u \in Arriving' => holder' # u
               /\ pc'[u] = "write_wait" => wait'[u] # B_OK
    BY <1>2, <2>1 DEF DeadInv, Leaving, Arriving
  <2> QED
    BY <1>2, <2>1, <2>2 DEF DeadInv
<1>3. ASSUME NEW slow \in Slow, NEW label \in {"read_wait", "timed_wait"},
             ReadLockSlow(t, slow, label)
      PROVE  Types' /\ destroyed' /\ DeadInv'
  <2>1. holder # t /\ pending_readers = 0
    BY <1>3 DEF DeadInv, Arriving, ReadLockSlow, Slow
  <2>2. /\ rw_lock_wait(t, label)
        /\ UNCHANGED <<owner_count, active_readers, pending_readers, rd, count,
                       holder, destroyed, wr>>
    BY <1>3, <2>1 DEF ReadLockSlow
  <2>3. /\ wait' \in [Threads -> WaitStatus] /\ waiter_thread' \in [Threads -> BOOLEAN]
        /\ \A u \in Threads : u # t => wait'[u] = wait[u]
    BY <2>2 DEF rw_lock_wait, Types, thread_prepare_to_block, WaitStatus
  <2>4. waiters' \in Seq(Threads)
    BY <2>2, AppendMembers DEF rw_lock_wait, Types
  <2>5. pc' \in [Threads -> Labels] /\ destroyed' /\ DeadInv'
    <3>1. label \in Labels \ {"unread_slow", "write_wait", "read_slow", "timed_slow"}
      BY DEF Labels, ReadWaiting
    <3> QED
      BY <1>2, <2>2, <2>3, <3>1 DEF rw_lock_wait
  <2> QED
    BY <2>2, <2>3, <2>4, <2>5 DEF Types
<1>4. CASE _rw_lock_read_lock(t) \/ _rw_lock_read_lock_with_timeout(t)
  BY <1>3, <1>4 DEF _rw_lock_read_lock, _rw_lock_read_lock_with_timeout, Slow
<1>5. CASE ReadWaitReturn(t) \/ TimedReturn(t) \/ WriteWaitReturn(t)
  <2>1. /\ UNCHANGED <<count, active_readers, pending_readers, waiters, waiter_thread,
                       wait, destroyed, rd, wr>>
        /\ Goto(t, "idle") \/ Goto(t, "timed_dequeue")
    BY <1>5 DEF ReadWaitReturn, TimedReturn, WriteWaitReturn, lockVars
  <2>2. UNCHANGED <<holder, owner_count>>
    BY <1>5 DEF ReadWaitReturn, TimedReturn, WriteWaitReturn, lockVars, DeadInv
  <2>3. pc' \in [Threads -> Labels] /\ destroyed' /\ DeadInv'
    <3>1. /\ "idle" \in Labels \ {"unread_slow", "write_wait", "read_slow", "timed_slow"}
          /\ "timed_dequeue" \in Labels \ {"unread_slow", "write_wait", "read_slow", "timed_slow"}
      BY DEF Labels, ReadWaiting
    <3> QED
      BY <1>2, <2>1, <2>2, <3>1
  <2> QED
    BY <2>1, <2>2, <2>3 DEF Types
<1>6. CASE Timeout(t)
  <2>1. /\ wait' \in [Threads -> WaitStatus] /\ pc[t] = "timed_wait"
        /\ \A u \in Threads : u # t => wait'[u] = wait[u]
        /\ UNCHANGED <<count, holder, owner_count, active_readers, pending_readers,
                       waiters, waiter_thread, pc, destroyed, rd, wr>>
    BY <1>6 DEF Timeout, Types, thread_block_timeout, thread_unblock,
                thread_is_blocked, WaitStatus, lockVars
  <2> QED
    BY <2>1 DEF Types, DeadInv, Leaving, Arriving
<1>7. CASE TimedDequeue(t)
  <2>1. UNCHANGED <<holder, owner_count, active_readers, pending_readers,
                    waiter_thread, wait, destroyed, rd, wr>>
    BY <1>7 DEF TimedDequeue
  <2>2. waiters' \in Seq(Threads) /\ count' \in Int
    <3>1. \A i \in DOMAIN waiters : RemoveAt(waiters, i) \in Seq(Threads)
      BY RemoveAtMembers DEF Types
    <3> QED
      BY <1>7, <3>1 DEF TimedDequeue, Dequeue, Types
  <2>3. Goto(t, "idle") \/ Goto(t, "panic")
    BY <1>7 DEF TimedDequeue, Dequeue
  <2>4. pc' \in [Threads -> Labels] /\ destroyed' /\ DeadInv'
    <3>1. /\ "idle" \in Labels \ {"unread_slow", "write_wait", "read_slow", "timed_slow"}
          /\ "panic" \in Labels \ {"unread_slow", "write_wait", "read_slow", "timed_slow"}
      BY DEF Labels
    <3> QED
      BY <1>2, <2>1, <2>3, <3>1
  <2> QED
    BY <2>1, <2>2, <2>4 DEF Types
<1> QED
  BY <1>1, <1>4, <1>5, <1>6, <1>7 DEF Step

(* Every step of every thread keeps the invariant.                         *)
LEMMA InvStep == Inv /\ [Next]_vars => Inv'
<1> SUFFICES ASSUME Inv, [Next]_vars PROVE Inv'
  OBVIOUS
<1>1. CASE UNCHANGED vars
  <2>1. /\ Queued' = Queued /\ Claiming' = Claiming /\ Arriving' = Arriving
        /\ Leaving' = Leaving /\ NC' = NC /\ NQ' = NQ /\ NA' = NA /\ NL' = NL /\ NR' = NR
    BY <1>1 DEF vars, Queued, Claiming, Arriving, Leaving, QueuedReaders, ReadLocks,
                IsWriter, NC, NQ, NA, NL, NR
  <2>2. Types'
    BY <1>1 DEF Inv, Types, vars
  <2>3. AliveInv => AliveInv'
    BY <1>1, <2>1 DEF vars, AliveInv, QueueInv, Sleeper, ThreadInv, HolderInv,
                      Accounting, Served, IsWriter
  <2>4. DeadInv => DeadInv'
    BY <1>1, <2>1 DEF vars, DeadInv
  <2> QED
    BY <1>1, <2>2, <2>3, <2>4 DEF Inv, vars
<1>2. ASSUME NEW t \in Threads, Step(t), destroyed
      PROVE  Inv'
  BY <1>2, StepDead DEF Inv
<1>3. ASSUME NEW t \in Threads, Step(t), ~destroyed
      PROVE  Inv'
  <2>0. Types /\ AliveInv
    BY <1>3 DEF Inv
  <2>1. CASE rw_lock_read_lock(t) \/ rw_lock_read_lock_with_timeout(t)
    BY <2>1, StepReadLock
    DEF rw_lock_read_lock, rw_lock_read_lock_with_timeout, Slow
  <2>2. CASE _rw_lock_read_lock(t) \/ _rw_lock_read_lock_with_timeout(t)
    <3>1. destroyed' = destroyed
      BY <2>2 DEF _rw_lock_read_lock, _rw_lock_read_lock_with_timeout, ReadLockSlow
    <3>2. Types' /\ AliveInv'
      BY <1>3, <2>0, <2>2, StepReadLockSlow
      DEF _rw_lock_read_lock, _rw_lock_read_lock_with_timeout, Slow
    <3> QED
      BY <1>3, <3>1, <3>2 DEF Inv
  <2>3. CASE ReadWaitReturn(t) \/ TimedReturn(t)
    <3>1. destroyed' = destroyed
      BY <2>3 DEF ReadWaitReturn, TimedReturn
    <3> QED
      BY <1>3, <2>0, <2>3, <3>1, StepReadReturn DEF Inv
  <2>4. CASE Timeout(t)
    <3>1. destroyed' = destroyed
      BY <2>4 DEF Timeout
    <3> QED
      BY <1>3, <2>0, <2>4, <3>1, StepTimeout DEF Inv
  <2>5. CASE TimedDequeue(t)
    <3>1. destroyed' = destroyed
      BY <2>5 DEF TimedDequeue
    <3> QED
      BY <1>3, <2>0, <2>5, <3>1, StepTimedDequeueAll DEF Inv
  <2>6. CASE rw_lock_read_unlock(t)
    <3>1. destroyed' = destroyed
      BY <2>6 DEF rw_lock_read_unlock
    <3> QED
      BY <1>3, <2>0, <2>6, <3>1, StepReadUnlock DEF Inv
  <2>7. CASE _rw_lock_read_unlock(t)
    <3>1. destroyed' = destroyed
      BY <2>7 DEF _rw_lock_read_unlock
    <3> QED
      BY <1>3, <2>0, <2>7, <3>1, StepReadUnlockSlow DEF Inv
  <2>8. CASE rw_lock_write_lock(t)
    <3>1. destroyed' = destroyed
      BY <2>8 DEF rw_lock_write_lock
    <3> QED
      BY <1>3, <2>0, <2>8, <3>1, StepWriteLock DEF Inv
  <2>9. CASE WriteWaitReturn(t)
    <3>1. destroyed' = destroyed
      BY <2>9 DEF WriteWaitReturn
    <3> QED
      BY <1>3, <2>0, <2>9, <3>1, StepWriteWaitReturn DEF Inv
  <2>10. CASE _rw_lock_write_unlock(t)
    <3>1. destroyed' = destroyed
      BY <2>10 DEF _rw_lock_write_unlock
    <3> QED
      BY <1>3, <2>0, <2>10, <3>1, StepWriteUnlock DEF Inv
  <2>11. CASE rw_lock_destroy(t)
    <3>1. destroyed'
      BY <2>11 DEF rw_lock_destroy
    <3> QED
      BY <2>0, <2>11, <3>1, StepDestroy DEF Inv
  <2> QED
    BY <1>3, <2>1, <2>2, <2>3, <2>4, <2>5, <2>6, <2>7, <2>8, <2>9, <2>10, <2>11
    DEF Step
<1> QED
  BY <1>1, <1>2, <1>3 DEF Next

(* The inductive invariant of the rw_lock, for any number of threads.      *)
THEOREM RWLockInvariant == Spec => []Inv
<1> QED
  BY Initially, InvStep, PTL DEF Spec

-----------------------------------------------------------------------------
(* The properties that the runs check on three threads                     *)

(* What 0 .. n means.                                                      *)
LEMMA InRange ==
  ASSUME NEW n, NEW p \in Int, 0 <= p, p <= n
  PROVE  p \in 0 .. n
OBVIOUS

(* A counter that counts readers has room in 16 bits.                      *)
LEMMA CounterRange ==
  ASSUME NEW r \in Nat, NEW a \in Nat, NEW q \in Nat, NEW l \in Nat,
         r + a + q <= B_INT16_MAX, r + l <= B_INT16_MAX
  PROVE  /\ 0 \in 0 .. B_INT16_MAX /\ r + l \in 0 .. B_INT16_MAX
         /\ \A p \in 0 .. a : p \in 0 .. B_INT16_MAX
<1>1. 0 \in 0 .. B_INT16_MAX
  BY DEF B_INT16_MAX
<1>2. r + l \in 0 .. B_INT16_MAX
  BY DEF B_INT16_MAX
<1>3. ASSUME NEW p \in 0 .. a
      PROVE  p \in 0 .. B_INT16_MAX
  <2>1. p \in Int /\ 0 <= p /\ p <= a
    BY <1>3
  <2>2. p <= B_INT16_MAX
    BY <2>1 DEF B_INT16_MAX
  <2> QED
    BY <2>1, <2>2, InRange
<1> QED
  BY <1>1, <1>2, <1>3, Zenon

(* The variables stay within their types; the 16-bit counters do not       *)
(* overflow within RWLockCapacity.                                         *)
LEMMA InvTypeOK == Inv => TypeOK
<1> SUFFICES ASSUME Inv PROVE TypeOK
  OBVIOUS
<1>1. Types
  BY DEF Inv
<1>2. CASE destroyed
  <2>1. active_readers = 0 /\ pending_readers = 0
    BY <1>2 DEF Inv, DeadInv
  <2>2. 0 \in 0 .. B_INT16_MAX
    BY DEF B_INT16_MAX
  <2> QED
    BY <1>1, <2>1, <2>2 DEF Types, TypeOK
<1>3. CASE ~destroyed
  <2>1. AliveInv
    BY <1>3 DEF Inv
  <2>2. NR + NA + NQ <= B_INT16_MAX /\ NR + NL <= B_INT16_MAX
    BY <1>1, <2>1, Bounds DEF AliveInv
  <2>3. NR \in Nat /\ NA \in Nat /\ NQ \in Nat /\ NL \in Nat
    BY <1>1, FiniteParts
  <2>4. active_readers \in {0, NR + NL} /\ pending_readers \in 0 .. NA
    BY <1>1, <2>1, <2>3 DEF AliveInv, Accounting, Types
  <2>5. active_readers \in 0 .. B_INT16_MAX /\ pending_readers \in 0 .. B_INT16_MAX
    <3>1. /\ 0 \in 0 .. B_INT16_MAX /\ NR + NL \in 0 .. B_INT16_MAX
          /\ \A p \in 0 .. NA : p \in 0 .. B_INT16_MAX
      BY <2>2, <2>3, CounterRange, Zenon
    <3> QED
      BY <2>4, <3>1, Zenon
  <2> QED
    BY <1>1, <2>5 DEF Types, TypeOK
<1> QED
  BY <1>2, <1>3

(* Nobody reads or writes beside a writer.                                 *)
LEMMA InvMutualExclusion == Inv => MutualExclusion
<1> SUFFICES ASSUME Inv, NEW t \in Threads, NEW u \in Threads, wr[t] > 0, u # t
             PROVE  wr[u] = 0 /\ rd[u] = 0
  BY DEF MutualExclusion
<1>1. Types /\ AliveInv
  BY DEF Inv, DeadInv
<1>2. holder = t /\ ThreadInv(u)
  BY <1>1 DEF AliveInv, ThreadInv
<1> QED
  BY <1>1, <1>2, RWLockConstants DEF AliveInv, ThreadInv, HolderInv, Types

(* The remainder of a writer's owner_count is what it reads.               *)
LEMMA OwnerRemainder ==
  ASSUME NEW k \in Nat, NEW r \in Nat, r < BASE
  PROVE  (BASE * k + r) % BASE = r
BY DEF BASE, RW_LOCK_WRITER_COUNT_BASE

(* None of the assertions and panics of lock.cpp fires.                    *)
LEMMA InvAssertionsHold == Inv => AssertionsHold
<1> SUFFICES ASSUME Inv, ~destroyed, NEW t \in Threads
             PROVE  /\ t \in Arriving /\ holder # t /\ pending_readers = 0
                         => count >= RW_LOCK_WRITER_COUNT_BASE
                    /\ pc[t] \in {"read_wait", "write_wait"} /\ wait[t] = B_OK
                         => ~waiter_thread[t]
                    /\ t \in Leaving /\ holder = t
                         => owner_count % RW_LOCK_WRITER_COUNT_BASE > 0
                    /\ t \in Leaving /\ holder # t => active_readers > 0
                    /\ pc[t] = "idle" /\ wr[t] > 0
                         => holder = t /\ owner_count >= RW_LOCK_WRITER_COUNT_BASE
  BY DEF AssertionsHold
<1> USE RWLockConstants
<1>0. Types /\ AliveInv /\ ThreadInv(t)
  BY DEF Inv, AliveInv
<1>1. ASSUME t \in Arriving, pending_readers = 0
      PROVE  count >= RW_LOCK_WRITER_COUNT_BASE
  <2>1. NA # 0
    BY <1>0, <1>1, FiniteParts, FS_EmptySet DEF NA
  <2>2. Claiming # {}
    BY <1>0, <1>1, <2>1 DEF AliveInv, Accounting
  <2>3. ~(count < BASE)
    BY <1>0, <2>2, Claims
  <2> QED
    BY <1>0, <2>3 DEF Types, BASE, RW_LOCK_WRITER_COUNT_BASE
<1>2. ASSUME pc[t] \in {"read_wait", "write_wait"}, wait[t] = B_OK
      PROVE  ~waiter_thread[t]
  BY <1>0, <1>2 DEF AliveInv, QueueInv, Sleeper, ThreadInv
<1>3. ASSUME t \in Leaving, holder = t
      PROVE  owner_count % RW_LOCK_WRITER_COUNT_BASE > 0
  <2>1. owner_count = BASE * wr[t] + rd[t] + 1
    BY <1>0, <1>3 DEF AliveInv, HolderInv, Leaving
  <2>2. NR = rd[t]
    BY <1>0, <1>3, ReadLocksOf DEF AliveInv, HolderInv, ThreadInv
  <2>3. NL # 0
    BY <1>0, <1>3, FiniteParts, FS_EmptySet DEF NL
  <2>4. NR + NL < BASE /\ NR \in Nat /\ NL \in Nat /\ wr[t] \in Nat
    BY <1>0, Claims, FiniteParts DEF Types
  <2>5. rd[t] + 1 \in Nat /\ rd[t] + 1 < BASE /\ rd[t] + 1 > 0
    BY <2>2, <2>3, <2>4 DEF BASE, RW_LOCK_WRITER_COUNT_BASE
  <2>6. owner_count = BASE * wr[t] + (rd[t] + 1)
    BY <2>1, <2>2, <2>4 DEF BASE, RW_LOCK_WRITER_COUNT_BASE
  <2>7. (BASE * wr[t] + (rd[t] + 1)) % BASE = rd[t] + 1
    BY <2>4, <2>5, OwnerRemainder, Zenon
  <2> QED
    BY <2>5, <2>6, <2>7, Zenon DEF BASE
<1>4. ASSUME t \in Leaving, holder # t
      PROVE  active_readers > 0
  <2>1. holder = NoThread /\ Claiming # {}
    BY <1>0, <1>4 DEF AliveInv, HolderInv, Accounting
  <2>2. active_readers = NR + NL
    BY <1>0, <2>1 DEF AliveInv, Accounting
  <2>3. NL # 0
    BY <1>0, <1>4, FiniteParts, FS_EmptySet DEF NL
  <2> QED
    BY <1>0, <2>2, <2>3, FiniteParts
<1>5. ASSUME pc[t] = "idle", wr[t] > 0
      PROVE  holder = t /\ owner_count >= RW_LOCK_WRITER_COUNT_BASE
  <2>1. holder = t
    BY <1>0, <1>5 DEF ThreadInv
  <2>2. owner_count = BASE * wr[t] + rd[t] + 0
    BY <1>0, <1>5, <2>1 DEF AliveInv, HolderInv, Leaving
  <2> QED
    BY <1>0, <1>5, <2>1, <2>2 DEF Types, BASE, RW_LOCK_WRITER_COUNT_BASE
<1> QED
  BY <1>1, <1>2, <1>3, <1>4, <1>5

(* The variables of the rw_lock stay within their types, and its 16-bit    *)
(* counters within theirs, for any number of readers that RWLockCapacity   *)
(* admits.                                                                 *)
THEOREM RWLockTypeOK == Spec => []TypeOK
BY RWLockInvariant, InvTypeOK, PTL

(* Readers and writers exclude each other in every behaviour of lock.cpp's *)
(* rw_lock, with timeouts, nesting, degrading and destruction.             *)
THEOREM RWLockMutualExclusion == Spec => []MutualExclusion
BY RWLockInvariant, InvMutualExclusion, PTL

(* count, active_readers and pending_readers account for every thread that *)
(* owns the lock, waits for it, or is between its atomic_add and the       *)
(* spinlock.                                                               *)
THEOREM RWLockReaderAccounting == Spec => []ReaderAccounting
<1>1. Inv => ReaderAccounting
  BY DEF Inv, AliveInv, Accounting, ReaderAccounting, BASE, NC, NR, NA, NQ, NL
<1> QED
  BY <1>1, RWLockInvariant, PTL

(* No thread sleeps in the queue of an rw_lock that nobody will hand on:   *)
(* rw_lock_unblock() loses no wakeup.                                      *)
THEOREM RWLockNoStrandedWaiter == Spec => []NoStrandedWaiter
<1>1. Inv => NoStrandedWaiter
  BY DEF Inv, AliveInv, Served, NoStrandedWaiter
<1> QED
  BY <1>1, RWLockInvariant, PTL

(* The assertions of the rw_lock code hold until the lock is destroyed.    *)
THEOREM RWLockAssertionsHold == Spec => []AssertionsHold
BY RWLockInvariant, InvAssertionsHold, PTL

-----------------------------------------------------------------------------
(* The rw_lock implements ReadersWriter                                    *)

(* A thread, or a set of threads, gets a read lock while nobody else is    *)
(* writing.                                                                *)
LEMMA AbstractAcquireRead ==
  ASSUME NEW S \in SUBSET Threads,
         \A u \in Threads : wr[u] > 0 => S = {u},
         rd' = [u \in Threads |-> IF u \in S THEN rd[u] + 1 ELSE rd[u]], wr' = wr
  PROVE  Abstract!Next
BY DEF Abstract!Next, Abstract!AcquireRead, Abstract!ReadersAfter, Abstract!Writing

(* Nobody writes a lock without a holder, and nobody but the holder does.  *)
LEMMA WritersHold ==
  ASSUME Types, AliveInv
  PROVE  \A u \in Threads : (wr[u] > 0 <=> holder = u) /\ (holder # u => wr[u] = 0)
BY DEF AliveInv, ThreadInv, Types

(* Reading: the fast path and the slow path                                *)
LEMMA AbstractReadLock ==
  ASSUME Types, AliveInv, NEW t \in Threads, NEW slow,
         \/ ReadLock(t, slow)
         \/ \E label : ReadLockSlow(t, slow, label)
  PROVE  Abstract!Next \/ UNCHANGED <<rd, wr>>
<1> USE RWLockConstants
<1>1. wr' = wr
  BY DEF ReadLock, ReadLockSlow
<1>2. CASE rd' = rd
  BY <1>1, <1>2
<1>3. CASE rd' # rd
  <2>1. rd' = [rd EXCEPT ![t] = @ + 1]
    BY <1>3 DEF ReadLock, ReadLockSlow
  <2>2. rd' = [u \in Threads |-> IF u \in {t} THEN rd[u] + 1 ELSE rd[u]]
    BY <2>1 DEF Types
  <2>3. holder \in {t, NoThread}
    <3>1. CASE ReadLock(t, slow)
      <4>1. count < BASE
        BY <1>3, <3>1 DEF ReadLock, Types, BASE, RW_LOCK_WRITER_COUNT_BASE
      <4> QED
        BY <4>1, Claims
    <3>2. CASE \E label : ReadLockSlow(t, slow, label)
      <4>1. holder = t \/ pending_readers > 0
        BY <1>3, <3>2 DEF ReadLockSlow
      <4> QED
        BY <4>1 DEF AliveInv, Accounting
    <3> QED
      BY <3>1, <3>2
  <2>4. \A u \in Threads : wr[u] > 0 => {t} = {u}
    BY <2>3, WritersHold
  <2>5. {t} \in SUBSET Threads
    OBVIOUS
  <2> QED
    BY <1>1, <2>2, <2>4, <2>5, AbstractAcquireRead
<1> QED
  BY <1>2, <1>3

(* Giving back a read lock; the last reader hands the lock on.             *)
LEMMA AbstractReadUnlock ==
  ASSUME Inv, MutualExclusion', ~destroyed, NEW t \in Threads,
         rw_lock_read_unlock(t) \/ _rw_lock_read_unlock(t)
  PROVE  Abstract!Next \/ UNCHANGED <<rd, wr>>
<1> USE RWLockConstants
<1>0. Types /\ AliveInv
  BY DEF Inv
<1>1. CASE rw_lock_read_unlock(t)
  BY <1>1 DEF rw_lock_read_unlock, Abstract!Next, Abstract!ReleaseRead, Abstract!Reading
<1>2. CASE _rw_lock_read_unlock(t) /\ ~(holder # t /\ active_readers = 1)
  BY <1>2 DEF _rw_lock_read_unlock
<1>3. CASE _rw_lock_read_unlock(t) /\ holder # t /\ active_readers = 1
  <2>1. holder = NoThread
    BY <1>0, <1>3 DEF AliveInv, Accounting
  <2>2. PICK n \in 0 .. Len(waiters) :
               rw_lock_unblock(t, n, NoThread, 0, pending_readers, count)
    BY <1>3, <2>1 DEF _rw_lock_read_unlock
  <2>3. \A u \in Threads : wr[u] = 0
    BY <1>0, <2>1, WritersHold
  <2>4. wr = [wr EXCEPT ![t] = 0]
    BY <1>0, <2>3 DEF Types
  <2>5. QueueInv /\ 0 \in Int /\ pending_readers \in Int /\ count \in Int
    BY <1>0 DEF AliveInv, Types
  <2>6. CASE \A u \in FirstWaiters(n) : ~IsWriter(u)
    <3>1. /\ FirstWaiters(n) \subseteq Threads /\ wr' = [wr EXCEPT ![t] = 0]
          /\ rd' = [u \in Threads |-> IF u \in FirstWaiters(n) THEN rd[u] + 1 ELSE rd[u]]
      BY <1>0, <2>2, <2>5, <2>6, Unblocking
    <3>2. FirstWaiters(n) \in SUBSET Threads /\ wr' = wr
      BY <2>4, <3>1
    <3>3. \A u \in Threads : wr[u] > 0 => FirstWaiters(n) = {u}
      BY <2>3
    <3> QED
      BY <3>1, <3>2, <3>3, AbstractAcquireRead
  <2>7. CASE \E u \in FirstWaiters(n) : IsWriter(u)
    <3>1. PICK w \in FirstWaiters(n) : IsWriter(w)
      BY <2>7
    <3>2. /\ w \in Threads /\ holder' = w /\ rd' = rd
          /\ wr' = [wr EXCEPT ![t] = 0, ![w] = 1] /\ w \in Queued
      BY <1>0, <2>2, <2>5, <3>1, Unblocking
    <3>3. wr' = [wr EXCEPT ![w] = @ + 1] /\ wr'[w] > 0
      <4>1. wr' = [wr EXCEPT ![w] = 1]
        BY <2>4, <3>2, Zenon
      <4>2. wr[w] = 0 /\ wr \in [Threads -> Nat]
        BY <1>0, <2>3, <3>2 DEF Types
      <4>3. 1 = wr[w] + 1 /\ 1 > 0
        BY <4>2
      <4> QED
        BY <3>2, <4>1, <4>2, <4>3
    <3>5. \A u \in Threads : u # w => rd[u] = 0 /\ wr[u] = 0
      BY <2>3, <3>2, <3>3 DEF MutualExclusion
    <3>6. rd[w] = 0
      BY <2>5, <3>2 DEF QueueInv, Sleeper
    <3>7. Abstract!AcquireWrite(w)
      <4>1. \A u \in Threads \ {w} : ~(rd[u] > 0) /\ ~(wr[u] > 0)
        BY <3>5
      <4>2. ~(rd[w] > 0)
        BY <3>6
      <4> QED
        BY <3>2, <3>3, <4>1, <4>2
        DEF Abstract!AcquireWrite, Abstract!Reading, Abstract!Writing
    <3> QED
      BY <3>2, <3>7 DEF Abstract!Next
  <2> QED
    BY <2>6, <2>7
<1> QED
  BY <1>1, <1>2, <1>3

(* Taking a write lock: for the first time, once more, or later            *)
LEMMA AbstractWriteLock ==
  ASSUME Inv, MutualExclusion', ~destroyed, NEW t \in Threads, rw_lock_write_lock(t)
  PROVE  Abstract!Next \/ UNCHANGED <<rd, wr>>
<1> USE RWLockConstants
<1>0. Types /\ AliveInv /\ rd' = rd /\ (rd[t] = 0 \/ wr[t] > 0)
  BY DEF Inv, rw_lock_write_lock
<1>1. CASE wr' = wr
  BY <1>0, <1>1
<1>2. CASE wr' # wr
  <2>1. wr' = [wr EXCEPT ![t] = @ + 1]
    <3>1. CASE holder = t
      BY <3>1 DEF rw_lock_write_lock
    <3>2. CASE holder # t
      <4>1. wr' = [wr EXCEPT ![t] = 1] /\ wr[t] = 0
        BY <1>0, <1>2, <3>2, WritersHold DEF rw_lock_write_lock
      <4> QED
        BY <4>1
    <3> QED
      BY <3>1, <3>2
  <2>2. wr'[t] > 0
    BY <1>0, <2>1 DEF Types
  <2>4. \A u \in Threads : u # t => rd[u] = 0 /\ wr[u] = 0
    BY <1>0, <2>1, <2>2 DEF MutualExclusion, Types
  <2>5. Abstract!AcquireWrite(t)
    BY <1>0, <2>1, <2>4 DEF Abstract!AcquireWrite, Abstract!Reading, Abstract!Writing, Types
  <2> QED
    BY <2>5 DEF Abstract!Next
<1> QED
  BY <1>1, <1>2

(* Giving back a write lock, and with the last one the lock                *)
LEMMA AbstractWriteUnlock ==
  ASSUME Inv, MutualExclusion', ~destroyed, NEW t \in Threads, _rw_lock_write_unlock(t)
  PROVE  Abstract!Next \/ UNCHANGED <<rd, wr>>
<1> USE RWLockConstants
<1> DEFINE left == owner_count - BASE
           old == count - BASE
<1>0. Types /\ AliveInv /\ pc[t] = "idle" /\ wr[t] > 0 /\ left \in Int /\ old \in Int
  <2>1. Types /\ AliveInv
    BY DEF Inv
  <2>2. pc[t] = "idle" /\ wr[t] > 0
    BY DEF _rw_lock_write_unlock
  <2>3. left \in Int /\ old \in Int
    BY <2>1 DEF Types, BASE, RW_LOCK_WRITER_COUNT_BASE
  <2> QED
    BY <2>1, <2>2, <2>3
<1>1. holder = t /\ \A u \in Threads : u # t => wr[u] = 0
  BY <1>0, WritersHold
<1>2. GiveUpWrite(t)
  BY <1>1 DEF _rw_lock_write_unlock
<1>3. (left >= BASE <=> wr[t] > 1) /\ wr[t] \in Nat
  BY <1>0, <1>1, WriterCounts
<1>4. ASSUME wr' = [wr EXCEPT ![t] = @ - 1], rd' = rd
      PROVE  Abstract!Next
  BY <1>0, <1>4 DEF Abstract!Next, Abstract!ReleaseWrite, Abstract!Writing
<1>5. CASE left >= BASE
  BY <1>0, <1>2, <1>4, <1>5 DEF GiveUpWrite, BASE, RW_LOCK_WRITER_COUNT_BASE
<1>6. CASE left < BASE
  <2>0. wr[t] = 1
    BY <1>0, <1>3, <1>6 DEF BASE, RW_LOCK_WRITER_COUNT_BASE
  <2>1. CASE old = 0
    <3>1. wr' = [wr EXCEPT ![t] = 0] /\ rd' = rd
      BY <1>0, <1>2, <1>6, <2>1 DEF GiveUpWrite, BASE, RW_LOCK_WRITER_COUNT_BASE
    <3>2. wr' = [wr EXCEPT ![t] = @ - 1]
      BY <2>0, <3>1
    <3> QED
      BY <1>4, <3>1, <3>2
  <2>2. CASE old # 0
    <3>1. PICK ar \in {left, active_readers}, n \in 0 .. Len(waiters) :
                 rw_lock_unblock(t, n, NoThread, ar, pending_readers, old)
      BY <1>0, <1>2, <1>6, <2>2 DEF GiveUpWrite, BASE, RW_LOCK_WRITER_COUNT_BASE
    <3>2. QueueInv /\ ar \in Int /\ pending_readers \in Int
      BY <1>0 DEF AliveInv, Types
    <3> HIDE DEF left, old
    <3>3. CASE \A u \in FirstWaiters(n) : ~IsWriter(u)
      <4>1. /\ FirstWaiters(n) \subseteq Threads /\ wr' = [wr EXCEPT ![t] = 0]
            /\ rd' = [u \in Threads |-> IF u \in FirstWaiters(n) THEN rd[u] + 1 ELSE rd[u]]
        BY <1>0, <3>1, <3>2, <3>3, Unblocking
      <4>2. FirstWaiters(n) \in SUBSET Threads
        BY <4>1
      <4>3. Abstract!PassToReaders(t, FirstWaiters(n))
        BY <2>0, <4>1 DEF Abstract!PassToReaders, Abstract!ReadersAfter
      <4> QED
        BY <4>2, <4>3 DEF Abstract!Next
    <3>4. CASE \E u \in FirstWaiters(n) : IsWriter(u)
      <4>1. PICK w \in FirstWaiters(n) : IsWriter(w)
        BY <3>4
      <4>2. /\ w \in Threads /\ rd' = rd
            /\ wr' = [wr EXCEPT ![t] = 0, ![w] = 1]
        BY <1>0, <3>1, <3>2, <4>1, Unblocking
      <4>3. w # t
        BY <1>0, <4>1 DEF IsWriter
      <4>5. rd[t] = 0
        BY <1>0, <4>2, <4>3 DEF MutualExclusion, Types
      <4>6. Abstract!PassToWriter(t, w)
        BY <2>0, <4>2, <4>3, <4>5 DEF Abstract!PassToWriter, Abstract!Reading
      <4> QED
        BY <4>2, <4>6 DEF Abstract!Next
    <3> QED
      BY <3>3, <3>4
  <2> QED
    BY <2>1, <2>2
<1> QED
  BY <1>0, <1>5, <1>6 DEF BASE, RW_LOCK_WRITER_COUNT_BASE

(* Destroying the lock                                                     *)
LEMMA AbstractDestroy ==
  ASSUME Types, AliveInv, NEW t \in Threads, rw_lock_destroy(t)
  PROVE  Abstract!Next
<1> USE RWLockConstants
<1>1. \A u \in Threads : u # t => rd[u] = 0 /\ wr[u] = 0
  <2>1. CASE holder = t
    BY <2>1, WritersHold DEF AliveInv, HolderInv
  <2>2. CASE count = 0
    BY <2>2, Unused, WritersHold
  <2> QED
    BY <2>1, <2>2 DEF rw_lock_destroy
<1>2. Abstract!Destroy(t)
  BY <1>1 DEF rw_lock_destroy, Abstract!Destroy, Abstract!Reading, Abstract!Writing
<1> QED
  BY <1>2 DEF Abstract!Next

(* The rw_lock of lock.cpp is a readers/writer lock: its steps are steps   *)
(* of ReadersWriter, in which a lock passes to waiting readers or to one   *)
(* waiting writer, or do not change what threads own.                      *)
THEOREM RWLockImplementsReadersWriter == Spec => ImplementsReadersWriter
<1>1. Init => Abstract!Init
  BY DEF Init, Abstract!Init
<1>2. Inv /\ Inv' /\ MutualExclusion' /\ [Next]_vars => [Abstract!Next]_<<rd, wr>>
  <2> SUFFICES ASSUME Inv, Inv', MutualExclusion', [Next]_vars
               PROVE  Abstract!Next \/ UNCHANGED <<rd, wr>>
    OBVIOUS
  <2>1. CASE UNCHANGED vars
    BY <2>1 DEF vars
  <2>2. ASSUME NEW t \in Threads, Step(t)
        PROVE  Abstract!Next \/ UNCHANGED <<rd, wr>>
    <3>1. CASE ReadWaitReturn(t) \/ Timeout(t) \/ TimedReturn(t) \/ TimedDequeue(t)
               \/ WriteWaitReturn(t)
      BY <3>1 DEF ReadWaitReturn, Timeout, TimedReturn, TimedDequeue, WriteWaitReturn
    <3>2. CASE destroyed
      <4>1. DeadInv' /\ DeadInv /\ Types /\ Types'
        BY <2>2, <3>2, StepDead DEF Inv
      <4>2. rd' = rd /\ wr' = wr
        BY <4>1 DEF DeadInv, Types
      <4> QED
        BY <4>2
    <3>3. CASE ~destroyed
      <4>0. Types /\ AliveInv
        BY <3>3 DEF Inv
      <4>1. CASE \/ rw_lock_read_lock(t) \/ rw_lock_read_lock_with_timeout(t)
                 \/ _rw_lock_read_lock(t) \/ _rw_lock_read_lock_with_timeout(t)
        BY <4>0, <4>1, AbstractReadLock
        DEF rw_lock_read_lock, rw_lock_read_lock_with_timeout, _rw_lock_read_lock,
            _rw_lock_read_lock_with_timeout
      <4>2. CASE rw_lock_read_unlock(t) \/ _rw_lock_read_unlock(t)
        BY <3>3, <4>2, AbstractReadUnlock
      <4>3. CASE rw_lock_write_lock(t)
        BY <3>3, <4>3, AbstractWriteLock
      <4>4. CASE _rw_lock_write_unlock(t)
        BY <3>3, <4>4, AbstractWriteUnlock
      <4>5. CASE rw_lock_destroy(t)
        BY <4>0, <4>5, AbstractDestroy
      <4> QED
        BY <2>2, <3>1, <4>1, <4>2, <4>3, <4>4, <4>5 DEF Step
    <3> QED
      BY <3>2, <3>3
  <2> QED
    BY <2>1, <2>2 DEF Next
<1> QED
  BY <1>1, <1>2, RWLockInvariant, RWLockMutualExclusion, PTL
  DEF Spec, ImplementsReadersWriter, Abstract!Spec, Abstract!absVars

=============================================================================
