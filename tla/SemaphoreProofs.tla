--------------------------- MODULE SemaphoreProofs ---------------------------
(***************************************************************************)
(* Proofs about Semaphore, for any number of threads, slots and ids, and   *)
(* any counts: nobody waits for a semaphore that is gone, net_count is     *)
(* what its comment says, no unit is lost or made up, and a thread that    *)
(* gives up leaves nobody blocked who could go on.                         *)
(***************************************************************************)
EXTENDS Semaphore, QueueLemmas

Statuses == WaitStatus \cup {B_BAD_SEM_ID}
Labels == {"idle", "release_other", "block", "free_slot"}
SemIDs == Nat \cup {NONE}
SemEntries == [id : SemIDs, count : Int, net_count : Int, queue : Seq(Threads),
               next_id : Nat]
Calls == [id : SemIDs, count : Nat, release : SemIDs]

Types ==
  /\ sems \in [Slots -> SemEntries]
  /\ freeSems \in Seq(Slots)
  /\ pc \in [Threads -> Labels]
  /\ call \in [Threads -> Calls]
  /\ wait \in [Threads -> Statuses]
  /\ balance \in [Slots -> Int]

Free == Range(freeSems)
Queue(s) == Range(sems[s].queue)
Deleters(s) == {t \in Threads : pc[t] = "free_slot" /\ SlotOf(call[t].id) = s}

(* A slot is in use, or on its way to the free list in the hands of one    *)
(* thread, or in the free list; next_id is the id of the semaphore that is *)
(* or was last in it, until the slot is freed.                             *)
SlotInv(s) ==
  /\ SlotOf(sems[s].next_id) = s
  /\ sems[s].id # NONE => /\ sems[s].id = sems[s].next_id
                          /\ s \notin Free /\ Deleters(s) = {}
  /\ sems[s].id = NONE => sems[s].queue = <<>>
  /\ \A t \in Deleters(s) : /\ s \notin Free /\ sems[s].next_id = call[t].id
                            /\ \A u \in Deleters(s) : t = u

(* What a thread that is in a call waits for is the semaphore in the slot, *)
(* or an older one.                                                        *)
ThreadInv(t) ==
  /\ wait[t] = Blocked => t \in Calling
  /\ pc[t] # "idle" => call[t].id \in Nat
  /\ pc[t] = "release_other" => call[t].release \in Nat
  /\ t \in Calling =>
       LET s == SlotOf(call[t].id) IN
       /\ call[t].count > 0
       /\ call[t].id <= sems[s].next_id
       /\ s \in Free => call[t].id < sems[s].next_id

(* The queue holds those who wait for this semaphore, or have given up.    *)
QueueInv(s) ==
  /\ IsInjective(sems[s].queue)
  /\ \A t \in Queue(s) : /\ t \in Calling /\ call[t].id = sems[s].id
                         /\ wait[t] \in {Blocked, B_TIMED_OUT, B_INTERRUPTED}

BlockedInv(t) ==
  wait[t] = Blocked => Valid(call[t].id) /\ t \in Queue(SlotOf(call[t].id))

CountInv(s) ==
  sems[s].id # NONE =>
    /\ sems[s].net_count \in 0 .. MaxCount
    /\ sems[s].net_count = sems[s].count + Total(Queue(s))

(* Those who have acquired the semaphore and not returned yet              *)
Holders(s) == {t \in Calling : wait[t] = B_OK /\ call[t].id = sems[s].id}
UnitInv(s) == sems[s].id # NONE => balance[s] = sems[s].net_count + Total(Holders(s))

Inv ==
  /\ Types
  /\ IsInjective(freeSems)
  /\ \A s \in Slots : SlotInv(s)
  /\ \A t \in Threads : ThreadInv(t)
  /\ \A s \in Slots : QueueInv(s)
  /\ \A t \in Threads : BlockedInv(t)
  /\ \A s \in Slots : CountInv(s)
  /\ \A s \in Slots : UnitInv(s)

-----------------------------------------------------------------------------
(* Slots *)

(* Division with remainder                                                 *)
LEMMA DivMod ==
  ASSUME NEW n \in Nat \ {0}, NEW a \in Int
  PROVE  a = n * (a \div n) + (a % n) /\ a \div n \in Int /\ a % n \in 0 .. n - 1
OBVIOUS

(* A multiple of n that is less than n away from zero is zero.             *)
LEMMA SmallMultiple ==
  ASSUME NEW n \in Nat \ {0}, NEW k \in Int, NEW d \in Int, -n < d, d < n, n * k = d
  PROVE  d = 0
<1>1. CASE k >= 1
  <2>1. n * k >= n
    BY <1>1
  <2> QED
    BY <2>1
<1>2. CASE k <= -1
  <2>1. n * k <= -n
    BY <1>2
  <2> QED
    BY <2>1
<1>3. CASE k = 0
  BY <1>3
<1> QED
  BY <1>1, <1>2, <1>3

(* The id after sMaxSems more is one of the same slot (free_sem_slot());   *)
(* the first id of a slot is its number.                                   *)
LEMMA NextID ==
  ASSUME NEW id \in Nat
  PROVE  /\ SlotOf(id) \in Slots /\ SlotOf(id + sMaxSems) = SlotOf(id)
         /\ id \in Slots => SlotOf(id) = id
<1> DEFINE n == sMaxSems
           p == id \div n
           r == id % n
           b == id + n
           q == b \div n
           s == b % n
<1>0. n \in Nat \ {0} /\ id \in Int /\ b \in Int
  BY SemaphoreConstants
<1>1. id = n * p + r /\ p \in Int /\ r \in 0 .. n - 1
  BY <1>0, DivMod
<1>2. b = n * q + s /\ q \in Int /\ s \in 0 .. n - 1
  BY <1>0, DivMod
<1>3. id \in 0 .. n - 1 => r = id
  BY <1>0
<1>4. b = id + n
  OBVIOUS
<1>5. r = SlotOf(id) /\ s = SlotOf(id + sMaxSems) /\ 0 .. n - 1 = Slots
  BY DEF SlotOf, Slots
<1> HIDE DEF n, p, r, q, s, b
<1>6. n * (q - p - 1) = n * q - n * p - n
  BY <1>0, <1>1, <1>2
<1>7. n * (q - p - 1) = r - s
  BY <1>0, <1>1, <1>2, <1>4, <1>6
<1>8. r - s = 0
  BY <1>0, <1>1, <1>2, <1>7, SmallMultiple
<1>9. r = s
  BY <1>1, <1>2, <1>8
<1> QED
  BY <1>1, <1>3, <1>5, <1>9

-----------------------------------------------------------------------------
(* Sums of counts *)

(* The units a set of threads asks for are finitely many.                  *)
LEMMA TotalType ==
  ASSUME Types, NEW S \in SUBSET Threads
  PROVE  IsFiniteSet(Units(S)) /\ Total(S) \in Nat
<1> DEFINE U == {{t} \X (1 .. CountOf(t)) : t \in S}
           f == [t \in S |-> {t} \X (1 .. CountOf(t))]
<1>1. IsFiniteSet(S)
  BY SemaphoreConstants, FS_Subset
<1>2. f \in Surjection(S, U)
  BY DEF Surjection
<1>3. IsFiniteSet(U)
  BY <1>1, <1>2, FS_Surjection
<1>4. ASSUME NEW t \in S PROVE IsFiniteSet({t} \X (1 .. CountOf(t)))
  <2>1. IsFiniteSet({t}) /\ IsFiniteSet(1 .. CountOf(t))
    <3>1. CountOf(t) \in Int
      BY DEF Types, Calls, CountOf
    <3>2. IsFiniteSet(1 .. CountOf(t))
      BY <3>1, FS_Interval
    <3> QED
      BY <3>2, FS_Singleton
  <2> QED
    BY <2>1, FS_Product
<1>5. \A V \in U : IsFiniteSet(V)
  BY <1>4
<1>6. IsFiniteSet(UNION U)
  BY <1>3, <1>5, FS_UNION
<1> QED
  BY <1>6, FS_CardinalityType DEF Units, Total

(* The sum of nobody, of one thread, and of two disjoint sets              *)
LEMMA TotalNobody == Total({}) = 0
<1>1. Units({}) = {}
  BY DEF Units
<1> QED
  BY <1>1, FS_EmptySet DEF Total

LEMMA TotalOne ==
  ASSUME Types, NEW t \in Threads
  PROVE  Total({t}) = call[t].count
<1>0. call[t].count \in Nat /\ CountOf(t) = call[t].count
  BY DEF Types, Calls, CountOf
<1>1. Units({t}) = {t} \X (1 .. CountOf(t))
  BY DEF Units
<1>2. IsFiniteSet({t}) /\ Cardinality({t}) = 1
  BY FS_Singleton
<1>3. /\ IsFiniteSet(1 .. CountOf(t))
      /\ Cardinality(1 .. CountOf(t)) = IF 1 > CountOf(t) THEN 0 ELSE CountOf(t) - 1 + 1
  <2>1. CountOf(t) \in Int
    BY <1>0
  <2> QED
    BY <2>1, FS_Interval
<1>4. Cardinality(1 .. CountOf(t)) = CountOf(t)
  BY <1>0, <1>3
<1>5. Cardinality({t} \X (1 .. CountOf(t))) = Cardinality({t}) * Cardinality(1 .. CountOf(t))
  BY <1>2, <1>3, FS_Product
<1>6. Cardinality({t} \X (1 .. CountOf(t))) = CountOf(t)
  <2>1. Cardinality({t} \X (1 .. CountOf(t))) = 1 * CountOf(t)
    BY <1>2, <1>4, <1>5
  <2>2. 1 * CountOf(t) = CountOf(t)
    BY <1>0
  <2> QED
    BY <2>1, <2>2
<1>7. Total({t}) = Cardinality(Units({t}))
  BY DEF Total
<1> QED
  BY <1>0, <1>1, <1>6, <1>7

LEMMA TotalUnion ==
  ASSUME Types, NEW S \in SUBSET Threads, NEW T \in SUBSET Threads, S \cap T = {}
  PROVE  Total(S \cup T) = Total(S) + Total(T)
<1>1. IsFiniteSet(Units(S)) /\ IsFiniteSet(Units(T)) /\ Total(S) \in Nat /\ Total(T) \in Nat
  BY TotalType
<1>2. Units(S \cup T) = Units(S) \cup Units(T)
  BY DEF Units
<1>3. Units(S) \cap Units(T) = {}
  BY DEF Units
<1>4. Cardinality(Units(S) \cup Units(T))
        = Cardinality(Units(S)) + Cardinality(Units(T)) - Cardinality(Units(S) \cap Units(T))
  BY <1>1, FS_Union
<1>5. Cardinality(Units(S) \cap Units(T)) = 0
  BY <1>3, FS_EmptySet
<1>6. /\ Total(S \cup T) = Cardinality(Units(S) \cup Units(T))
      /\ Total(S) = Cardinality(Units(S)) /\ Total(T) = Cardinality(Units(T))
  BY <1>2 DEF Total
<1>7. Total(S \cup T) = Total(S) + Total(T) - 0
  BY <1>4, <1>5, <1>6
<1> QED
  BY <1>1, <1>7

(* One more thread                                                         *)
LEMMA TotalAdd ==
  ASSUME Types, NEW S \in SUBSET Threads, NEW t \in Threads, t \notin S
  PROVE  /\ Total(S \cup {t}) = Total(S) + call[t].count
         /\ Total(S) \in Nat /\ Total(S \cup {t}) \in Nat /\ call[t].count \in Nat
<1>1. Total(S \cup {t}) = Total(S) + Total({t})
  BY TotalUnion
<1>2. Total(S) \in Nat /\ Total(S \cup {t}) \in Nat /\ call[t].count \in Nat
  BY TotalType DEF Types, Calls
<1> QED
  BY <1>1, <1>2, TotalOne

(* The sum depends on the counts of its members only.                      *)
LEMMA TotalSame ==
  ASSUME NEW S \in SUBSET Threads, \A t \in S : call'[t].count = call[t].count
  PROVE  Total(S)' = Total(S)
<1>1. Units(S)' = Units(S)
  BY DEF Units, CountOf
<1> QED
  BY <1>1 DEF Total

-----------------------------------------------------------------------------
(* The loops of release_sem_etc() and remove_thread_from_sem() *)

LoopStates == [count : Int, net_count : Int, left : Nat, woken : SUBSET Threads,
               removed : Nat, ended : BOOLEAN]

(* What a turn of either loop does with the thread at the head of the      *)
(* queue: it has given up, or there is not enough for it, or it is woken.  *)
Turn(l, t, m) ==
  LET c == call[t].count IN
  \/ /\ wait[t] # Blocked
     /\ m.count = l.count + c /\ m.net_count = l.net_count /\ m.left = l.left
     /\ m.woken = l.woken /\ m.removed = l.removed + 1 /\ ~m.ended
  \/ /\ wait[t] = Blocked /\ c > l.net_count + l.left
     /\ m.count = l.count + l.left /\ m.net_count = l.net_count + l.left /\ m.left = 0
     /\ m.woken = l.woken /\ m.removed = l.removed /\ m.ended
  \/ /\ wait[t] = Blocked /\ c <= l.net_count + l.left
     /\ \E d \in Nat :
          /\ d = IF l.left < c THEN l.left ELSE c
          /\ m.count = l.count + d /\ m.net_count = l.net_count + d - c
          /\ m.left = l.left - d
     /\ m.woken = l.woken \cup {t} /\ m.removed = l.removed + 1 /\ ~m.ended

(* min_c()                                                                 *)
LEMMA MinOfTwo ==
  ASSUME NEW a \in Nat, NEW b \in Nat
  PROVE  Min({a, b}) = IF a < b THEN a ELSE b
<1>1. {a, b} \in SUBSET Nat /\ {a, b} # {}
  OBVIOUS
<1>2. Min({a, b}) \in {a, b} /\ \A y \in {a, b} : Min({a, b}) <= y
  BY <1>1, LeastNat
<1> QED
  BY <1>2

LEMMA ReleaseTurn ==
  ASSUME Types, NEW l \in LoopStates, NEW t \in Threads
  PROVE  /\ ReleaseLoop(l, t) \in LoopStates
         /\ l.ended \/ l.left = 0 => ReleaseLoop(l, t) = l
         /\ ~(l.ended \/ l.left = 0) => Turn(l, t, ReleaseLoop(l, t))
<1> DEFINE c == call[t].count
           delta == Min({l.left, c})
           m == ReleaseLoop(l, t)
<1>0. c \in Nat /\ l.left \in Nat /\ l.count \in Int /\ l.net_count \in Int /\ l.removed \in Nat
      /\ l.woken \in SUBSET Threads /\ l.ended \in BOOLEAN
  BY DEF Types, Calls, LoopStates
<1>1. delta = IF l.left < c THEN l.left ELSE c
  BY <1>0, MinOfTwo
<1>2. delta \in Nat /\ l.left - delta \in Nat
  BY <1>0, <1>1
<1>3. m = IF l.ended \/ l.left = 0 THEN l
          ELSE IF wait[t] # Blocked
          THEN [l EXCEPT !.count = l.count + c, !.removed = l.removed + 1]
          ELSE IF c > l.net_count + l.left
          THEN [l EXCEPT !.count = l.count + l.left, !.net_count = l.net_count + l.left,
                         !.left = 0, !.ended = TRUE]
          ELSE [l EXCEPT !.count = l.count + delta, !.net_count = l.net_count + delta - c,
                         !.left = l.left - delta, !.woken = l.woken \cup {t},
                         !.removed = l.removed + 1]
  BY DEF ReleaseLoop, Skipped, thread_is_blocked
<1> HIDE DEF m, delta, c
<1>4. CASE l.ended \/ l.left = 0
  <2>1. m = l
    BY <1>3, <1>4
  <2> QED
    BY <1>4, <2>1 DEF m
<1>5. CASE ~(l.ended \/ l.left = 0) /\ wait[t] # Blocked
  <2>1. m = [l EXCEPT !.count = l.count + c, !.removed = l.removed + 1]
    BY <1>3, <1>5
  <2>2. m \in LoopStates /\ m.count = l.count + c /\ m.net_count = l.net_count /\ m.left = l.left
        /\ m.woken = l.woken /\ m.removed = l.removed + 1 /\ ~m.ended
    <3>1. l.count + c \in Int /\ l.removed + 1 \in Nat
      BY <1>0
    <3> QED
      BY <1>5, <2>1, <3>1 DEF LoopStates
  <2> QED
    BY <1>5, <2>2 DEF m, c, Turn
<1>6. CASE ~(l.ended \/ l.left = 0) /\ wait[t] = Blocked /\ c > l.net_count + l.left
  <2>1. m = [l EXCEPT !.count = l.count + l.left, !.net_count = l.net_count + l.left,
                      !.left = 0, !.ended = TRUE]
    BY <1>3, <1>6
  <2>2. /\ m \in LoopStates
        /\ m.count = l.count + l.left /\ m.net_count = l.net_count + l.left /\ m.left = 0
        /\ m.woken = l.woken /\ m.removed = l.removed /\ m.ended
    <3>1. l.count + l.left \in Int /\ l.net_count + l.left \in Int
      BY <1>0
    <3> QED
      BY <2>1, <3>1 DEF LoopStates
  <2> QED
    BY <1>6, <2>2 DEF m, c, Turn
<1>7. CASE ~(l.ended \/ l.left = 0) /\ wait[t] = Blocked /\ ~(c > l.net_count + l.left)
  <2>1. m = [l EXCEPT !.count = l.count + delta, !.net_count = l.net_count + delta - c,
                      !.left = l.left - delta, !.woken = l.woken \cup {t},
                      !.removed = l.removed + 1]
    BY <1>3, <1>7
  <2>2. /\ m \in LoopStates
        /\ m.count = l.count + delta /\ m.net_count = l.net_count + delta - c
        /\ m.left = l.left - delta
        /\ m.woken = l.woken \cup {t} /\ m.removed = l.removed + 1 /\ ~m.ended
    <3>1. /\ l.count + delta \in Int /\ l.net_count + delta - c \in Int
          /\ l.woken \cup {t} \in SUBSET Threads /\ l.removed + 1 \in Nat
      BY <1>0, <1>2
    <3> QED
      BY <1>2, <1>7, <2>1, <3>1 DEF LoopStates
  <2>3. c <= l.net_count + l.left
    BY <1>0, <1>7
  <2>4. Turn(l, t, m)
    BY <1>1, <1>2, <1>7, <2>2, <2>3 DEF Turn, c
  <2> QED
    BY <1>7, <2>2, <2>4 DEF m
<1> QED
  BY <1>4, <1>5, <1>6, <1>7

LEMMA RemoveTurn ==
  ASSUME Types, NEW l \in LoopStates, NEW t \in Threads, l.left = 0
  PROVE  /\ RemoveLoop(l, t) \in LoopStates /\ RemoveLoop(l, t).left = 0
         /\ l.ended => RemoveLoop(l, t) = l
         /\ ~l.ended => Turn(l, t, RemoveLoop(l, t))
<1> DEFINE c == call[t].count
           m == RemoveLoop(l, t)
<1>0. c \in Nat /\ l.left \in Nat /\ l.count \in Int /\ l.net_count \in Int /\ l.removed \in Nat
      /\ l.woken \in SUBSET Threads /\ l.ended \in BOOLEAN
  BY DEF Types, Calls, LoopStates
<1>3. m = IF l.ended THEN l
          ELSE IF wait[t] # Blocked
          THEN [l EXCEPT !.count = l.count + c, !.removed = l.removed + 1]
          ELSE IF c > l.net_count THEN [l EXCEPT !.ended = TRUE]
          ELSE [l EXCEPT !.net_count = l.net_count - c, !.woken = l.woken \cup {t},
                         !.removed = l.removed + 1]
  BY DEF RemoveLoop, Skipped, thread_is_blocked
<1> HIDE DEF m, c
<1>4. CASE l.ended
  <2>1. m = l
    BY <1>3, <1>4
  <2> QED
    BY <1>4, <2>1 DEF m
<1>5. CASE ~l.ended /\ wait[t] # Blocked
  <2>1. m = [l EXCEPT !.count = l.count + c, !.removed = l.removed + 1]
    BY <1>3, <1>5
  <2>2. m \in LoopStates /\ m.count = l.count + c /\ m.net_count = l.net_count /\ m.left = l.left
        /\ m.woken = l.woken /\ m.removed = l.removed + 1 /\ ~m.ended
    <3>1. l.count + c \in Int /\ l.removed + 1 \in Nat
      BY <1>0
    <3> QED
      BY <1>5, <2>1, <3>1 DEF LoopStates
  <2> QED
    BY <1>5, <2>2 DEF m, c, Turn
<1>6. CASE ~l.ended /\ wait[t] = Blocked /\ c > l.net_count
  <2>1. m = [l EXCEPT !.ended = TRUE]
    BY <1>3, <1>6
  <2>2. /\ m \in LoopStates
        /\ m.count = l.count /\ m.net_count = l.net_count /\ m.left = 0
        /\ m.woken = l.woken /\ m.removed = l.removed /\ m.ended
    BY <1>0, <2>1 DEF LoopStates
  <2>3. /\ c > l.net_count + l.left /\ m.count = l.count + l.left
        /\ m.net_count = l.net_count + l.left
    BY <1>0, <1>6, <2>2
  <2>4. Turn(l, t, m)
    BY <1>6, <2>2, <2>3 DEF Turn, c
  <2> QED
    BY <1>6, <2>2, <2>4 DEF m
<1>7. CASE ~l.ended /\ wait[t] = Blocked /\ ~(c > l.net_count)
  <2>1. m = [l EXCEPT !.net_count = l.net_count - c, !.woken = l.woken \cup {t},
                      !.removed = l.removed + 1]
    BY <1>3, <1>7
  <2>2. /\ m \in LoopStates
        /\ m.count = l.count /\ m.net_count = l.net_count - c
        /\ m.left = l.left
        /\ m.woken = l.woken \cup {t} /\ m.removed = l.removed + 1 /\ ~m.ended
    <3>1. /\ l.net_count - c \in Int
          /\ l.woken \cup {t} \in SUBSET Threads /\ l.removed + 1 \in Nat
      BY <1>0
    <3> QED
      BY <1>7, <2>1, <3>1 DEF LoopStates
  <2>3. /\ c <= l.net_count + l.left
        /\ m.count = l.count + 0 /\ m.net_count = l.net_count + 0 - c
        /\ m.left = l.left - 0 /\ 0 = IF l.left < c THEN l.left ELSE c
    BY <1>0, <1>7, <2>2
  <2>4. Turn(l, t, m)
    BY <1>7, <2>2, <2>3 DEF Turn, c
  <2> QED
    BY <1>7, <2>2, <2>4 DEF m
<1> QED
  BY <1>4, <1>5, <1>6, <1>7

(* F have left the queue since the loop began in state x; those of them    *)
(* who still waited were woken.                                            *)
Sums(x, l, F) ==
  /\ l.woken = {t \in F : wait[t] = Blocked}
  /\ l.count - l.net_count = x.count - x.net_count + Total(F)
  /\ l.net_count + l.left = x.net_count + x.left - Total(l.woken)
  /\ l.net_count >= 0

(* A turn keeps that.                                                      *)
LEMMA TurnSums ==
  ASSUME Types, NEW x \in LoopStates, NEW l \in LoopStates, NEW m \in LoopStates,
         NEW F \in SUBSET Threads, NEW t \in Threads, t \notin F,
         Sums(x, l, F), Turn(l, t, m)
  PROVE  \/ ~m.ended /\ m.removed = l.removed + 1 /\ Sums(x, m, F \cup {t})
         \/ /\ m.ended /\ m.removed = l.removed /\ Sums(x, m, F)
            /\ wait[t] = Blocked /\ call[t].count > m.net_count /\ m.left = 0
<1> DEFINE c == call[t].count
           G == F \cup {t}
<1>2. Total(G) = Total(F) + c /\ Total(F) \in Nat /\ Total(G) \in Nat /\ c \in Nat
  BY TotalAdd
<1>3. l.woken = {u \in F : wait[u] = Blocked}
  BY DEF Sums
<1>10. /\ l.count - l.net_count = x.count - x.net_count + Total(F)
       /\ l.net_count + l.left = x.net_count + x.left - Total(l.woken)
       /\ l.net_count >= 0
  BY DEF Sums
<1>4. /\ l.count \in Int /\ l.net_count \in Int /\ l.left \in Nat
      /\ m.count \in Int /\ m.net_count \in Int /\ m.left \in Nat
      /\ x.count \in Int /\ x.net_count \in Int /\ x.left \in Nat
  BY DEF LoopStates
<1>5. l.woken \in SUBSET Threads /\ t \notin l.woken
  BY <1>3
<1>6. /\ Total(l.woken \cup {t}) = Total(l.woken) + c
      /\ Total(l.woken) \in Nat /\ Total(l.woken \cup {t}) \in Nat
  BY <1>5, TotalAdd
<1> HIDE DEF G, c
<1>7. CASE /\ wait[t] # Blocked
           /\ m.count = l.count + c /\ m.net_count = l.net_count /\ m.left = l.left
           /\ m.woken = l.woken /\ m.removed = l.removed + 1 /\ ~m.ended
  <2>2. m.woken = {u \in G : wait[u] = Blocked}
    BY <1>3, <1>7 DEF G
  <2>3. m.count - m.net_count = x.count - x.net_count + Total(G)
    <3>1. m.count = l.count + c /\ m.net_count = l.net_count
      BY <1>7
    <3> QED
      BY <1>2, <1>4, <1>10, <3>1
  <2>4. m.net_count + m.left = x.net_count + x.left - Total(m.woken) /\ m.net_count >= 0
    BY <1>7, <1>10
  <2> QED
    BY <1>7, <2>2, <2>3, <2>4 DEF Sums, G
<1>8. CASE /\ wait[t] = Blocked /\ c > l.net_count + l.left
           /\ m.count = l.count + l.left /\ m.net_count = l.net_count + l.left /\ m.left = 0
           /\ m.woken = l.woken /\ m.removed = l.removed /\ m.ended
  <2>2. m.woken = {u \in F : wait[u] = Blocked}
    BY <1>3, <1>8
  <2>3. m.count - m.net_count = x.count - x.net_count + Total(F)
    <3>1. m.count = l.count + l.left /\ m.net_count = l.net_count + l.left
      BY <1>8
    <3> QED
      BY <1>2, <1>4, <1>10, <3>1
  <2>4. m.net_count + m.left = x.net_count + x.left - Total(m.woken) /\ m.net_count >= 0
    <3>1. m.woken = l.woken /\ m.net_count = l.net_count + l.left /\ m.left = 0
      BY <1>8
    <3>2. m.net_count + m.left = l.net_count + l.left /\ m.net_count >= 0
      BY <1>4, <1>10, <3>1
    <3> QED
      BY <1>10, <3>1, <3>2
  <2>5. c > m.net_count
    BY <1>8
  <2> QED
    BY <1>8, <2>2, <2>3, <2>4, <2>5 DEF Sums, c
<1>9. CASE /\ wait[t] = Blocked /\ c <= l.net_count + l.left
           /\ \E d \in Nat :
                /\ d = IF l.left < c THEN l.left ELSE c
                /\ m.count = l.count + d /\ m.net_count = l.net_count + d - c
                /\ m.left = l.left - d
           /\ m.woken = l.woken \cup {t} /\ m.removed = l.removed + 1 /\ ~m.ended
  <2>0. PICK d \in Nat : /\ d = IF l.left < c THEN l.left ELSE c
                         /\ m.count = l.count + d /\ m.net_count = l.net_count + d - c
                         /\ m.left = l.left - d
    BY <1>9
  <2>2. m.woken = {u \in G : wait[u] = Blocked}
    BY <1>3, <1>9 DEF G
  <2>3. m.count - m.net_count = x.count - x.net_count + Total(G)
    <3>1. m.count - m.net_count = l.count - l.net_count + c
      BY <1>2, <1>4, <2>0
    <3> QED
      BY <1>2, <1>4, <1>10, <3>1
  <2>4. m.net_count + m.left = x.net_count + x.left - Total(m.woken)
    <3>1. m.net_count + m.left = l.net_count + l.left - c
      BY <1>2, <1>4, <2>0
    <3>2. Total(m.woken) = Total(l.woken) + c
      BY <1>6, <1>9
    <3> QED
      BY <1>2, <1>4, <1>6, <1>10, <3>1, <3>2
  <2>5. m.net_count >= 0
    <3>1. c <= l.net_count + l.left
      BY <1>9
    <3> QED
      BY <1>2, <1>4, <1>10, <2>0, <3>1
  <2> QED
    BY <1>9, <2>2, <2>3, <2>4, <2>5 DEF Sums, G
<1> QED
  BY <1>7, <1>8, <1>9 DEF Turn, c

(* After i turns: if the loop has ended, the first thread that is left     *)
(* waits for more than there is.                                           *)
PassInv(q, x, l, i) ==
  /\ l \in LoopStates
  /\ l.removed <= i
  /\ Sums(x, l, FirstOf(q, l.removed))
  /\ l.ended => /\ l.removed < i
                /\ wait[q[l.removed + 1]] = Blocked
                /\ call[q[l.removed + 1]].count > l.net_count
                /\ l.left = 0

(* The first n members of a queue, and the next                            *)
LEMMA FirstNext ==
  ASSUME NEW q \in Seq(Threads), IsInjective(q), NEW n \in Nat, n + 1 <= Len(q)
  PROVE  /\ q[n + 1] \in Threads /\ FirstOf(q, n) \in SUBSET Threads
         /\ FirstOf(q, n + 1) = FirstOf(q, n) \cup {q[n + 1]}
         /\ q[n + 1] \notin FirstOf(q, n)
<1>0. DOMAIN q = 1 .. Len(q) /\ Len(q) \in Nat /\ \A i \in 1 .. Len(q) : q[i] \in Threads
  BY LenProperties
<1>1. n + 1 \in 1 .. Len(q) /\ \A i \in 1 .. n : i \in 1 .. Len(q) /\ i # n + 1
  BY <1>0
<1>2. \A i \in 1 .. n + 1 : i \in 1 .. n \/ i = n + 1
  OBVIOUS
<1>3. \A i \in 1 .. n : i \in 1 .. n + 1
  OBVIOUS
<1>4. n + 1 \in 1 .. n + 1
  OBVIOUS
<1>5. FirstOf(q, n + 1) = FirstOf(q, n) \cup {q[n + 1]}
  BY <1>2, <1>3, <1>4 DEF FirstOf
<1>6. q[n + 1] \notin FirstOf(q, n)
  BY <1>0, <1>1 DEF FirstOf, IsInjective
<1>7. FirstOf(q, n) \in SUBSET Threads
  BY <1>0, <1>1 DEF FirstOf
<1> QED
  BY <1>0, <1>1, <1>5, <1>6, <1>7

LEMMA TurnKeeps ==
  ASSUME Types, NEW q \in Seq(Threads), IsInjective(q), NEW x \in LoopStates,
         NEW l, NEW m \in LoopStates, NEW i \in 1 .. Len(q), PassInv(q, x, l, i - 1),
         ~l.ended, l.removed = i - 1, Turn(l, q[i], m)
  PROVE  PassInv(q, x, m, i)
<1> DEFINE n == i - 1
<1>0. n \in Nat /\ n + 1 = i /\ n + 1 <= Len(q) /\ n <= i /\ n < i /\ i <= i
  BY LenProperties
<1>1. /\ q[i] \in Threads /\ FirstOf(q, n) \in SUBSET Threads
      /\ FirstOf(q, i) = FirstOf(q, n) \cup {q[i]} /\ q[i] \notin FirstOf(q, n)
  BY <1>0, FirstNext
<1>2. l \in LoopStates /\ Sums(x, l, FirstOf(q, n))
  BY DEF PassInv
<1>3. \/ ~m.ended /\ m.removed = l.removed + 1 /\ Sums(x, m, FirstOf(q, n) \cup {q[i]})
      \/ /\ m.ended /\ m.removed = l.removed /\ Sums(x, m, FirstOf(q, n))
         /\ wait[q[i]] = Blocked /\ call[q[i]].count > m.net_count /\ m.left = 0
  BY <1>1, <1>2, TurnSums
<1>4. \/ ~m.ended /\ m.removed = i /\ Sums(x, m, FirstOf(q, i))
      \/ /\ m.ended /\ m.removed = n /\ Sums(x, m, FirstOf(q, n))
         /\ wait[q[n + 1]] = Blocked /\ call[q[n + 1]].count > m.net_count /\ m.left = 0
  BY <1>0, <1>1, <1>3
<1> HIDE DEF n
<1> QED
  BY <1>0, <1>4 DEF PassInv

(* One turn later without a turn                                           *)
LEMMA RestKeeps ==
  ASSUME NEW q, NEW x, NEW l, NEW i \in Nat \ {0}, PassInv(q, x, l, i - 1)
  PROVE  PassInv(q, x, l, i)
<1>1. l.removed \in Nat
  BY DEF PassInv, LoopStates
<1>2. /\ l.removed <= i - 1 => l.removed <= i
      /\ l.removed < i - 1 => l.removed < i
  BY <1>1
<1> QED
  BY <1>2 DEF PassInv

(* The loop of release_sem_etc() goes through the queue.                   *)
LEMMA ReleaseRun ==
  ASSUME Types, NEW q \in Seq(Threads), NEW x \in LoopStates
  PROVE  \E g : /\ ReleasePass(x, q) = g[Len(q)] /\ g[0] = x
                /\ \A i \in 1 .. Len(q) : g[i] = ReleaseLoop(g[i - 1], q[i])
<1> DEFINE B == [p \in LoopStates \X Threads |-> ReleaseLoop(p[1], p[2])]
           Eq(h) == h = [i \in 0 .. Len(q) |->
                           IF i = 0 THEN x ELSE ReleaseLoop(h[i - 1], q[i])]
           g == CHOOSE h : Eq(h)
<1>0. Len(q) \in Nat /\ \A i \in 1 .. Len(q) : q[i] \in Threads
  BY LenProperties
<1>1. IsBody(B, LoopStates, Threads)
  BY ReleaseTurn DEF IsBody
<1>2. \A l \in LoopStates, t \in Threads : B[<<l, t>>] = ReleaseLoop(l, t)
  OBVIOUS
<1> HIDE DEF B
<1>9. PICK f : IsRun(f, q, LoopStates, B, x)
  BY <1>1, RunExists
<1>3. /\ f \in [0 .. Len(q) -> LoopStates] /\ f[0] = x
      /\ \A i \in 1 .. Len(q) : f[i] = B[<<f[i - 1], q[i]>>]
  BY <1>9 DEF IsRun
<1>4. \A i \in 1 .. Len(q) : f[i] = ReleaseLoop(f[i - 1], q[i])
  <2> SUFFICES ASSUME NEW i \in 1 .. Len(q) PROVE f[i] = ReleaseLoop(f[i - 1], q[i])
    OBVIOUS
  <2>1. i - 1 \in 0 .. Len(q)
    BY <1>0
  <2>2. f[i - 1] \in LoopStates
    BY <1>3, <2>1
  <2> QED
    BY <1>0, <1>2, <1>3, <2>2
<1>5. Eq(f)
  <2>1. \A i \in 0 .. Len(q) :
          f[i] = IF i = 0 THEN x ELSE ReleaseLoop(f[i - 1], q[i])
    BY <1>0, <1>3, <1>4
  <2> QED
    BY <1>3, <2>1
<1>6. Eq(g)
  <2>1. \E h : Eq(h)
    BY <1>5
  <2> HIDE DEF Eq
  <2> QED
    BY <2>1
<1>7. ReleasePass(x, q) = g[Len(q)]
  BY DEF ReleasePass
<1> HIDE DEF g
<1>8. g[0] = x /\ \A i \in 1 .. Len(q) : g[i] = ReleaseLoop(g[i - 1], q[i])
  <2>1. \A i \in 0 .. Len(q) :
          g[i] = IF i = 0 THEN x ELSE ReleaseLoop(g[i - 1], q[i])
    BY <1>6
  <2>2. 0 \in 0 .. Len(q) /\ \A i \in 1 .. Len(q) : i \in 0 .. Len(q) /\ i # 0
    BY <1>0
  <2> QED
    BY <2>1, <2>2
<1> QED
  BY <1>7, <1>8

(* The loop of remove_thread_from_sem() does, with nothing to release.     *)
LEMMA RemoveRun ==
  ASSUME Types, NEW q \in Seq(Threads), NEW x \in LoopStates, x.left = 0
  PROVE  \E g : /\ RemovePass(x, q) = g[Len(q)] /\ g[0] = x
                /\ \A i \in 1 .. Len(q) : g[i] = RemoveLoop(g[i - 1], q[i])
<1> DEFINE L == {l \in LoopStates : l.left = 0}
           B == [p \in L \X Threads |-> RemoveLoop(p[1], p[2])]
           Eq(h) == h = [i \in 0 .. Len(q) |->
                           IF i = 0 THEN x ELSE RemoveLoop(h[i - 1], q[i])]
           g == CHOOSE h : Eq(h)
<1>0. Len(q) \in Nat /\ \A i \in 1 .. Len(q) : q[i] \in Threads
  BY LenProperties
<1>1. IsBody(B, L, Threads)
  BY RemoveTurn DEF IsBody
<1>2. \A l \in L, t \in Threads : B[<<l, t>>] = RemoveLoop(l, t)
  OBVIOUS
<1> HIDE DEF B, L
<1>9. PICK f : IsRun(f, q, L, B, x)
  <2>1. x \in L
    BY DEF L
  <2> QED
    BY <1>1, <2>1, RunExists
<1>3. /\ f \in [0 .. Len(q) -> L] /\ f[0] = x
      /\ \A i \in 1 .. Len(q) : f[i] = B[<<f[i - 1], q[i]>>]
  BY <1>9 DEF IsRun
<1>4. \A i \in 1 .. Len(q) : f[i] = RemoveLoop(f[i - 1], q[i])
  <2> SUFFICES ASSUME NEW i \in 1 .. Len(q) PROVE f[i] = RemoveLoop(f[i - 1], q[i])
    OBVIOUS
  <2>1. i - 1 \in 0 .. Len(q)
    BY <1>0
  <2>2. f[i - 1] \in L
    BY <1>3, <2>1
  <2> QED
    BY <1>0, <1>2, <1>3, <2>2
<1>5. Eq(f)
  <2>1. \A i \in 0 .. Len(q) :
          f[i] = IF i = 0 THEN x ELSE RemoveLoop(f[i - 1], q[i])
    BY <1>0, <1>3, <1>4
  <2> QED
    BY <1>3, <2>1
<1>6. Eq(g)
  <2>1. \E h : Eq(h)
    BY <1>5
  <2> HIDE DEF Eq
  <2> QED
    BY <2>1
<1>7. RemovePass(x, q) = g[Len(q)]
  BY DEF RemovePass
<1> HIDE DEF g
<1>8. g[0] = x /\ \A i \in 1 .. Len(q) : g[i] = RemoveLoop(g[i - 1], q[i])
  <2>1. \A i \in 0 .. Len(q) :
          g[i] = IF i = 0 THEN x ELSE RemoveLoop(g[i - 1], q[i])
    BY <1>6
  <2>2. 0 \in 0 .. Len(q) /\ \A i \in 1 .. Len(q) : i \in 0 .. Len(q) /\ i # 0
    BY <1>0
  <2> QED
    BY <2>1, <2>2
<1> QED
  BY <1>7, <1>8

Fresh(x) == x.woken = {} /\ x.removed = 0 /\ ~x.ended /\ x.net_count >= 0

(* Before the first turn                                                   *)
LEMMA PassBegins ==
  ASSUME NEW q, NEW x \in LoopStates, Fresh(x)
  PROVE  PassInv(q, x, x, 0)
<1>1. FirstOf(q, 0) = {}
  BY DEF FirstOf
<1>2. Total({}) = 0
  BY TotalNobody
<1>3. x.count \in Int /\ x.net_count \in Int /\ x.left \in Nat
  BY DEF LoopStates
<1>4. /\ x.count - x.net_count = x.count - x.net_count + Total({})
      /\ x.net_count + x.left = x.net_count + x.left - Total({})
  BY <1>2, <1>3
<1>5. Sums(x, x, {})
  BY <1>4 DEF Sums, Fresh
<1> QED
  BY <1>1, <1>5 DEF PassInv, Fresh

(* A loop through a queue, with states L, that makes no more turns once it *)
(* is in one of the states D                                               *)
IsPass(g, q, L, D) ==
  /\ L \subseteq LoopStates /\ g[0] \in L /\ \A l \in L : l.ended => l \in D
  /\ \A i \in 1 .. Len(q) : g[i - 1] \in L =>
       /\ g[i] \in L
       /\ g[i - 1] \in D => g[i] = g[i - 1]
       /\ g[i - 1] \notin D => Turn(g[i - 1], q[i], g[i])

LEMMA PassKeeps ==
  ASSUME Types, NEW q \in Seq(Threads), IsInjective(q), NEW x, Fresh(x),
         NEW L, NEW D, NEW g, IsPass(g, q, L, D), g[0] = x
  PROVE  \A n \in 0 .. Len(q) : /\ g[n] \in L /\ PassInv(q, x, g[n], n)
                                /\ g[n] \in D \/ g[n].removed = n
<1> USE DEF IsPass
<1> DEFINE P == {i \in 0 .. Len(q) : /\ g[i] \in L /\ PassInv(q, x, g[i], i)
                                     /\ g[i] \in D \/ g[i].removed = i}
<1>0. Len(q) \in Nat
  BY LenProperties
<1>1. 0 \in P
  BY <1>0, PassBegins DEF Fresh
<1>2. ASSUME NEW i \in 1 .. Len(q), i - 1 \in P PROVE i \in P
  <2>1. i \in 0 .. Len(q) /\ i \in Nat \ {0}
    BY <1>0
  <2>2. g[i - 1] \in L /\ PassInv(q, x, g[i - 1], i - 1)
    BY <1>2
  <2>3. CASE g[i - 1] \in D
    <3>1. g[i] = g[i - 1]
      BY <2>2, <2>3
    <3>2. PassInv(q, x, g[i], i)
      BY <2>1, <2>2, <3>1, RestKeeps
    <3> QED
      BY <2>1, <2>2, <2>3, <3>1, <3>2
  <2>4. CASE g[i - 1] \notin D
    <3>1. ~g[i - 1].ended /\ g[i - 1].removed = i - 1
      BY <1>2, <2>2, <2>4
    <3>2. g[i] \in L /\ Turn(g[i - 1], q[i], g[i])
      BY <2>2, <2>4
    <3>3. x \in LoopStates /\ g[i] \in LoopStates
      BY <3>2
    <3>4. PassInv(q, x, g[i], i)
      BY <2>2, <3>1, <3>2, <3>3, TurnKeeps
    <3>5. g[i] \in D \/ g[i].removed = i
      <4>1. g[i - 1].removed \in Nat
        BY <2>2 DEF LoopStates
      <4>2. g[i].ended \/ g[i].removed = g[i - 1].removed + 1
        BY <3>2 DEF Turn
      <4> QED
        BY <2>1, <3>1, <3>2, <4>1, <4>2
    <3> QED
      BY <2>1, <3>2, <3>4, <3>5
  <2> QED
    BY <2>3, <2>4
<1>3. \A i \in 0 .. Len(q) : i \in P
  <2> HIDE DEF P
  <2> QED
    BY <1>0, <1>1, <1>2, CountUp
<1> QED
  BY <1>3

(* What release_sem_etc()'s loop, and remove_thread_from_sem()'s, come to  *)
LEMMA ReleasePassInv ==
  ASSUME Types, NEW q \in Seq(Threads), IsInjective(q), NEW x \in LoopStates, Fresh(x)
  PROVE  LET l == ReleasePass(x, q)
         IN PassInv(q, x, l, Len(q)) /\ (l.ended \/ l.left = 0 \/ l.removed = Len(q))
<1> DEFINE D == {l \in LoopStates : l.ended \/ l.left = 0}
<1>1. PICK g : /\ ReleasePass(x, q) = g[Len(q)] /\ g[0] = x
               /\ \A i \in 1 .. Len(q) : g[i] = ReleaseLoop(g[i - 1], q[i])
  BY ReleaseRun
<1>2. \A i \in 1 .. Len(q) : q[i] \in Threads
  BY LenProperties
<1>3. \A l \in LoopStates : l.ended => l \in D
  OBVIOUS
<1>4. ASSUME NEW i \in 1 .. Len(q), g[i - 1] \in LoopStates
      PROVE  /\ g[i] \in LoopStates
             /\ g[i - 1] \in D => g[i] = g[i - 1]
             /\ g[i - 1] \notin D => Turn(g[i - 1], q[i], g[i])
  BY <1>1, <1>2, <1>4, ReleaseTurn
<1>5. \A l \in D : l.ended \/ l.left = 0
  OBVIOUS
<1> HIDE DEF D
<1>6. \A n \in 0 .. Len(q) : /\ g[n] \in LoopStates /\ PassInv(q, x, g[n], n)
                             /\ g[n] \in D \/ g[n].removed = n
  <2>1. IsPass(g, q, LoopStates, D)
    BY <1>1, <1>3, <1>4 DEF IsPass
  <2> QED
    BY <1>1, <2>1, PassKeeps
<1>7. Len(q) \in 0 .. Len(q)
  BY LenProperties
<1> QED
  BY <1>1, <1>5, <1>6, <1>7

LEMMA RemovePassInv ==
  ASSUME Types, NEW q \in Seq(Threads), IsInjective(q), NEW x \in LoopStates, Fresh(x),
         x.left = 0
  PROVE  LET l == RemovePass(x, q)
         IN PassInv(q, x, l, Len(q)) /\ l.left = 0 /\ (l.ended \/ l.removed = Len(q))
<1> DEFINE L == {l \in LoopStates : l.left = 0}
           D == {l \in LoopStates : l.ended}
<1>1. PICK g : /\ RemovePass(x, q) = g[Len(q)] /\ g[0] = x
               /\ \A i \in 1 .. Len(q) : g[i] = RemoveLoop(g[i - 1], q[i])
  BY RemoveRun
<1>2. \A i \in 1 .. Len(q) : q[i] \in Threads
  BY LenProperties
<1>3. L \in SUBSET LoopStates /\ x \in L /\ \A l \in L : l.left = 0 /\ (l.ended => l \in D)
  OBVIOUS
<1>4. ASSUME NEW i \in 1 .. Len(q), g[i - 1] \in L
      PROVE  /\ g[i] \in L
             /\ g[i - 1] \in D => g[i] = g[i - 1]
             /\ g[i - 1] \notin D => Turn(g[i - 1], q[i], g[i])
  BY <1>1, <1>2, <1>4, RemoveTurn
<1>5. \A l \in D : l.ended
  OBVIOUS
<1> HIDE DEF D, L
<1>6. \A n \in 0 .. Len(q) : /\ g[n] \in L /\ PassInv(q, x, g[n], n)
                             /\ g[n] \in D \/ g[n].removed = n
  <2>1. IsPass(g, q, L, D)
    BY <1>1, <1>3, <1>4 DEF IsPass
  <2> QED
    BY <1>1, <2>1, PassKeeps
<1>7. Len(q) \in 0 .. Len(q)
  BY LenProperties
<1> QED
  BY <1>1, <1>3, <1>5, <1>6, <1>7

(* More threads ask for no less.                                           *)
LEMMA TotalSubset ==
  ASSUME Types, NEW T \in SUBSET Threads, NEW S \in SUBSET T
  PROVE  Total(S) <= Total(T) /\ Total(S) \in Nat /\ Total(T) \in Nat
<1>1. S \in SUBSET Threads /\ T \ S \in SUBSET Threads /\ S \cap (T \ S) = {} /\ S \cup (T \ S) = T
  OBVIOUS
<1>2. Total(S \cup (T \ S)) = Total(S) + Total(T \ S)
  BY <1>1, TotalUnion
<1>3. Total(S) \in Nat /\ Total(T \ S) \in Nat /\ Total(T) \in Nat
  BY <1>1, TotalType
<1> QED
  BY <1>1, <1>2, <1>3

(* B_RELEASE_ALL: a turn finds enough for the thread, and takes nothing    *)
(* from the semaphore.                                                     *)
LEMMA TurnAll ==
  ASSUME Types, NEW x \in LoopStates, NEW l \in LoopStates, NEW m \in LoopStates,
         NEW S \in SUBSET Threads, NEW F \in SUBSET S, NEW t \in S, t \notin F,
         x.left = Total(S), Sums(x, l, F), l.net_count = x.net_count, Turn(l, t, m)
  PROVE  ~m.ended /\ m.net_count = x.net_count
<1> DEFINE c == call[t].count
<1>1. /\ l.net_count \in Int /\ l.left \in Nat /\ m.net_count \in Int
      /\ x.net_count \in Int /\ x.left \in Nat
  BY DEF LoopStates
<1>2. CASE wait[t] # Blocked
  BY <1>2 DEF Turn
<1>3. CASE wait[t] = Blocked
  <2>1. l.woken \in SUBSET F
    BY DEF Sums
  <2>2. l.woken \in SUBSET Threads /\ t \in Threads /\ t \notin l.woken /\ l.woken \cup {t} \in SUBSET S
    BY <2>1
  <2>3. /\ Total(l.woken \cup {t}) = Total(l.woken) + c
        /\ Total(l.woken) \in Nat /\ Total(l.woken \cup {t}) \in Nat /\ c \in Nat
    BY <2>2, TotalAdd
  <2>4. Total(l.woken \cup {t}) <= Total(S) /\ Total(S) \in Nat
    BY <2>2, TotalSubset
  <2>5. l.net_count + l.left = x.net_count + x.left - Total(l.woken) /\ l.net_count >= 0
    BY DEF Sums
  <2> HIDE DEF c
  <2>6. l.left = x.left - Total(l.woken)
    BY <1>1, <2>3, <2>5
  <2>7. l.left >= c /\ ~(c > l.net_count + l.left)
    BY <1>1, <2>3, <2>4, <2>5, <2>6
  <2>8. /\ \E d \in Nat : /\ d = IF l.left < c THEN l.left ELSE c
                          /\ m.net_count = l.net_count + d - c
        /\ ~m.ended
    BY <1>3, <2>7 DEF Turn, c
  <2>9. m.net_count = l.net_count
    BY <1>1, <2>3, <2>7, <2>8
  <2> QED
    BY <2>8, <2>9
<1> QED
  BY <1>2, <1>3

LEMMA ReleaseAll ==
  ASSUME Types, NEW q \in Seq(Threads), IsInjective(q), NEW x \in LoopStates, Fresh(x),
         x.left = Total(Range(q))
  PROVE  ReleasePass(x, q).net_count = x.net_count
<1> DEFINE D == {l \in LoopStates : l.ended \/ l.left = 0}
<1>0. Len(q) \in Nat /\ DOMAIN q = 1 .. Len(q) /\ \A i \in 1 .. Len(q) : q[i] \in Threads
  BY LenProperties
<1>1. PICK g : /\ ReleasePass(x, q) = g[Len(q)] /\ g[0] = x
               /\ \A i \in 1 .. Len(q) : g[i] = ReleaseLoop(g[i - 1], q[i])
  BY ReleaseRun
<1>2. ASSUME NEW i \in 1 .. Len(q), g[i - 1] \in LoopStates
      PROVE  /\ g[i] \in LoopStates
             /\ g[i - 1] \in D => g[i] = g[i - 1]
             /\ g[i - 1] \notin D => Turn(g[i - 1], q[i], g[i])
  BY <1>0, <1>1, <1>2, ReleaseTurn
<1>3. \A l \in LoopStates : l.ended => l \in D
  OBVIOUS
<1> HIDE DEF D
<1>4. \A i \in 0 .. Len(q) : /\ g[i] \in LoopStates /\ PassInv(q, x, g[i], i)
                             /\ g[i] \in D \/ g[i].removed = i
  <2>1. IsPass(g, q, LoopStates, D)
    BY <1>1, <1>2, <1>3 DEF IsPass
  <2> QED
    BY <1>1, <2>1, PassKeeps
<1> DEFINE P == {i \in 0 .. Len(q) : g[i].net_count = x.net_count}
<1>5. 0 \in P
  BY <1>0, <1>1
<1>6. ASSUME NEW i \in 1 .. Len(q), i - 1 \in P PROVE i \in P
  <2>1. i \in 0 .. Len(q) /\ i - 1 \in 0 .. Len(q)
    BY <1>0
  <2>2. g[i - 1].net_count = x.net_count
    BY <1>6
  <2>3. g[i - 1] \in LoopStates /\ g[i] \in LoopStates /\ PassInv(q, x, g[i - 1], i - 1)
    BY <1>4, <2>1
  <2>4. CASE g[i - 1] \in D
    BY <1>2, <2>1, <2>2, <2>3, <2>4
  <2>5. CASE g[i - 1] \notin D
    <3> DEFINE F == FirstOf(q, i - 1)
    <3>1. Sums(x, g[i - 1], F)
      BY <1>4, <2>1, <2>3, <2>5 DEF PassInv
    <3>2. Range(q) \in SUBSET Threads /\ q[i] \in Range(q)
      BY <1>0 DEF Range
    <3>3. F \in SUBSET Range(q) /\ q[i] \notin F
      <4>1. \A j \in 1 .. i - 1 : j \in 1 .. Len(q) /\ j # i
        BY <1>0
      <4> QED
        BY <1>0, <4>1 DEF FirstOf, Range, IsInjective
    <3>4. Turn(g[i - 1], q[i], g[i])
      BY <1>2, <2>3, <2>5
    <3> HIDE DEF F
    <3>5. g[i].net_count = x.net_count
      BY <2>2, <2>3, <3>1, <3>2, <3>3, <3>4, TurnAll
    <3> QED
      BY <2>1, <3>5
  <2> QED
    BY <2>4, <2>5
<1>7. \A i \in 0 .. Len(q) : i \in P
  <2> HIDE DEF P
  <2> QED
    BY <1>0, <1>5, <1>6, CountUp
<1>8. Len(q) \in 0 .. Len(q)
  BY <1>0
<1> QED
  BY <1>1, <1>7, <1>8

(* The semaphore after a loop: F has left its queue, W has been woken.     *)
Rest(l, ifWaitingOnly) == IF ifWaitingOnly THEN 0 ELSE l.left

Passed(sem, m, F, W) ==
  /\ m \in SemEntries /\ m.id = sem.id /\ m.next_id = sem.next_id
  /\ IsInjective(m.queue)
  /\ F \in SUBSET Range(sem.queue) /\ Range(m.queue) = Range(sem.queue) \ F
  /\ W = {t \in F : wait[t] = Blocked}

(* The sums of a loop, with what is left over added to both counts        *)
LEMMA AfterSums ==
  ASSUME NEW sc \in Int, NEW sn \in Int, NEW lc \in Int, NEW ln \in Int, NEW left \in Nat,
         NEW n \in Nat, NEW r \in Nat, NEW tf \in Nat, NEW tw \in Nat, NEW tr \in Nat,
         lc - ln = sc - sn + tf, ln + left = sn + n - tw
  PROVE  /\ ln + r + tw = sn + n - (left - r)
         /\ sn = sc + (tf + tr) => ln + r = lc + r + tr
OBVIOUS

(* What After() makes of a semaphore, its queue and its counts             *)
LEMMA AfterPass ==
  ASSUME Types, NEW sem \in SemEntries, IsInjective(sem.queue), NEW n \in Nat,
         NEW x, x = Loop(sem, n),
         NEW l, PassInv(sem.queue, x, l, Len(sem.queue)), NEW w \in BOOLEAN
  PROVE  LET m == After(sem, l, w) IN
         /\ Passed(sem, m, FirstOf(sem.queue, l.removed), l.woken)
         /\ m.net_count = l.net_count + Rest(l, w) /\ m.net_count >= 0
         /\ m.net_count + Total(l.woken) = sem.net_count + n - (l.left - Rest(l, w))
         /\ sem.net_count = sem.count + Total(Range(sem.queue))
              => m.net_count = m.count + Total(Range(m.queue))
         /\ l.ended => /\ m.queue # <<>> /\ wait[Head(m.queue)] = Blocked
                       /\ call[Head(m.queue)].count > m.net_count
         /\ l.removed = Len(sem.queue) => m.queue = <<>>
<1> DEFINE q == sem.queue
           m == After(sem, l, w)
           F == FirstOf(q, l.removed)
           r == Rest(l, w)
<1>0. /\ q \in Seq(Threads) /\ IsInjective(q) /\ sem.count \in Int /\ sem.net_count \in Int
      /\ sem.id \in SemIDs /\ sem.next_id \in Nat
  BY DEF SemEntries
<1>1. /\ l \in LoopStates /\ l.removed <= Len(q) /\ Sums(x, l, F)
      /\ l.ended => /\ l.removed < Len(q) /\ wait[q[l.removed + 1]] = Blocked
                    /\ call[q[l.removed + 1]].count > l.net_count /\ l.left = 0
  BY DEF PassInv
<1>2. /\ l.count \in Int /\ l.net_count \in Int /\ l.left \in Nat /\ l.removed \in Nat
  BY <1>1 DEF LoopStates
<1>3. r \in Nat /\ (l.left = 0 => r = 0)
  BY <1>2 DEF Rest
<1>4. m = [sem EXCEPT !.count = l.count + r, !.net_count = l.net_count + r,
                      !.queue = RestOf(q, l.removed)]
  BY DEF After, Rest, RestOf
<1>5. l.removed \in 0 .. Len(q)
  <2>1. Len(q) \in Nat
    BY <1>0, LenProperties
  <2> QED
    BY <1>1, <1>2, <2>1
<1> HIDE DEF q, m, r
<1>6. /\ RestOf(q, l.removed) \in Seq(Threads) /\ IsInjective(RestOf(q, l.removed))
      /\ l.removed = Len(q) => RestOf(q, l.removed) = <<>>
      /\ l.removed < Len(q) => /\ RestOf(q, l.removed) # <<>>
                               /\ Head(RestOf(q, l.removed)) = q[l.removed + 1]
      /\ Range(q) = F \cup Range(RestOf(q, l.removed))
      /\ F \cap Range(RestOf(q, l.removed)) = {}
  <2>1. /\ RestOf(q, l.removed) \in Seq(Threads)
        /\ Len(RestOf(q, l.removed)) = Len(q) - l.removed
        /\ l.removed = Len(q) => RestOf(q, l.removed) = <<>>
        /\ l.removed < Len(q) => /\ RestOf(q, l.removed) # <<>>
                                 /\ Head(RestOf(q, l.removed)) = q[l.removed + 1]
        /\ Range(q) = FirstOf(q, l.removed) \cup Range(RestOf(q, l.removed))
        /\ FirstOf(q, l.removed) \cap Range(RestOf(q, l.removed)) = {}
        /\ IsInjective(RestOf(q, l.removed))
        /\ IsFiniteSet(FirstOf(q, l.removed)) /\ Cardinality(FirstOf(q, l.removed)) = l.removed
    BY <1>0, <1>5, SplitMembers, Zenon
  <2> QED
    BY <2>1
<1>7. x.count = sem.count /\ x.net_count = sem.net_count /\ x.left = n
  BY DEF Loop
<1>19. l.woken = {t \in F : wait[t] = Blocked}
  BY <1>1 DEF Sums
<1>8. /\ l.count - l.net_count = sem.count - sem.net_count + Total(F)
      /\ l.net_count + l.left = sem.net_count + n - Total(l.woken)
      /\ l.net_count >= 0
  BY <1>1, <1>7 DEF Sums
<1>9. Range(q) \in SUBSET Threads
  <2>1. DOMAIN q = 1 .. Len(q) /\ \A i \in 1 .. Len(q) : q[i] \in Threads
    BY <1>0, LenProperties
  <2> QED
    BY <2>1 DEF Range
<1>10. l.count + r \in Int /\ l.net_count + r \in Int
  BY <1>2, <1>3
<1>11. /\ m \in SemEntries /\ m.id = sem.id /\ m.next_id = sem.next_id
       /\ m.count = l.count + r /\ m.net_count = l.net_count + r
       /\ m.queue = RestOf(q, l.removed)
  <2> QED
    BY <1>4, <1>6, <1>10 DEF SemEntries
<1> HIDE DEF F
<1>12. /\ F \in SUBSET Threads /\ Range(m.queue) \in SUBSET Threads /\ l.woken \in SUBSET Threads
       /\ F \cap Range(m.queue) = {} /\ Range(q) = F \cup Range(m.queue)
       /\ F \in SUBSET Range(q) /\ Range(m.queue) = Range(q) \ F
  BY <1>6, <1>9, <1>11, <1>19
<1>13. /\ Total(Range(q)) = Total(F) + Total(Range(m.queue))
       /\ Total(F) \in Nat /\ Total(Range(m.queue)) \in Nat /\ Total(l.woken) \in Nat
       /\ Total(Range(q)) \in Nat
  BY <1>9, <1>12, TotalUnion, TotalType
<1>20. m.count = l.count + r /\ m.net_count = l.net_count + r
  BY <1>11
<1>21. /\ l.net_count + r + Total(l.woken) = sem.net_count + n - (l.left - r)
       /\ sem.net_count = sem.count + (Total(F) + Total(Range(m.queue)))
            => l.net_count + r = l.count + r + Total(Range(m.queue))
  <2> DEFINE sc == sem.count
             sn == sem.net_count
             lc == l.count
             ln == l.net_count
             left == l.left
             tf == Total(F)
             tw == Total(l.woken)
             tr == Total(Range(m.queue))
  <2>1. /\ sc \in Int /\ sn \in Int /\ lc \in Int /\ ln \in Int /\ left \in Nat
        /\ r \in Nat /\ tf \in Nat /\ tw \in Nat /\ tr \in Nat
        /\ lc - ln = sc - sn + tf /\ ln + left = sn + n - tw
    BY <1>0, <1>2, <1>3, <1>8, <1>13
  <2> HIDE DEF sc, sn, lc, ln, left, tf, tw, tr
  <2>2. /\ ln + r + tw = sn + n - (left - r)
        /\ sn = sc + (tf + tr) => ln + r = lc + r + tr
    BY <2>1, AfterSums
  <2> QED
    BY <2>2 DEF sc, sn, lc, ln, left, tf, tw, tr
<1>14. m.net_count >= 0
  BY <1>2, <1>3, <1>8, <1>11
<1>15. m.net_count + Total(l.woken) = sem.net_count + n - (l.left - r)
  BY <1>21, <1>20
<1>16. ASSUME sem.net_count = sem.count + Total(Range(q))
       PROVE  m.net_count = m.count + Total(Range(m.queue))
  BY <1>21, <1>20, <1>13, <1>16
<1>17. l.ended => /\ m.queue # <<>> /\ wait[Head(m.queue)] = Blocked
                  /\ call[Head(m.queue)].count > m.net_count
  <2>1. l.ended => m.net_count = l.net_count
    BY <1>1, <1>2, <1>3, <1>11
  <2> QED
    BY <1>1, <1>6, <1>11, <2>1
<1>18. Passed(sem, m, F, l.woken)
  BY <1>6, <1>11, <1>12, <1>19 DEF Passed, q
<1> QED
  BY <1>6, <1>11, <1>14, <1>15, <1>16, <1>17, <1>18 DEF m, q, r, F

-----------------------------------------------------------------------------
(* The table *)

(* A semaphore that exists is in its slot.                                 *)
LEMMA UsedSlot ==
  ASSUME Inv, NEW s \in Slots, sems[s].id # NONE
  PROVE  /\ sems[s].id \in Nat /\ SlotOf(sems[s].id) = s /\ Valid(sems[s].id)
         /\ sems[s].id = sems[s].next_id /\ s \notin Free /\ Deleters(s) = {}
<1>1. Types /\ SlotInv(s)
  BY DEF Inv
<1>2. sems[s].id = sems[s].next_id /\ SlotOf(sems[s].next_id) = s /\ sems[s].next_id \in Nat
      /\ s \notin Free /\ Deleters(s) = {}
  BY <1>1 DEF Types, SemEntries, SlotInv
<1> QED
  BY <1>2 DEF Valid

LEMMA ValidSlot ==
  ASSUME NEW id \in Nat, Valid(id)
  PROVE  SlotOf(id) \in Slots /\ sems[SlotOf(id)].id = id /\ sems[SlotOf(id)].id # NONE
<1>1. id # NONE
  BY DEF NONE
<1> QED
  BY <1>1, NextID DEF Valid

(* Nobody is in two queues, and no two semaphores have the same id.        *)
LEMMA OneQueue ==
  ASSUME Inv, NEW s \in Slots, NEW r \in Slots, s # r
  PROVE  /\ Queue(s) \cap Queue(r) = {}
         /\ sems[s].id # NONE => sems[s].id # sems[r].id
<1>1. sems[s].id # NONE => sems[s].id # sems[r].id
  BY UsedSlot
<1>2. sems[s].id = NONE => Queue(s) = {}
  <2>1. sems[s].id = NONE => sems[s].queue = <<>>
    BY DEF Inv, SlotInv
  <2>2. Range(<<>>) = {}
    BY DEF Range
  <2> QED
    BY <2>1, <2>2 DEF Queue
<1>3. \A t \in Queue(s) : call[t].id = sems[s].id
  BY DEF Inv, QueueInv
<1>4. \A t \in Queue(r) : call[t].id = sems[r].id
  BY DEF Inv, QueueInv
<1> QED
  BY <1>1, <1>2, <1>3, <1>4

LEMMA QueueType ==
  ASSUME Types, NEW s \in Slots
  PROVE  /\ sems[s] \in SemEntries /\ sems[s].queue \in Seq(Threads)
         /\ Queue(s) \in SUBSET Threads /\ Holders(s) \in SUBSET Threads
<1>1. sems[s] \in SemEntries /\ sems[s].queue \in Seq(Threads)
  BY DEF Types, SemEntries
<1>2. DOMAIN sems[s].queue = 1 .. Len(sems[s].queue)
      /\ \A i \in 1 .. Len(sems[s].queue) : sems[s].queue[i] \in Threads
  BY <1>1, LenProperties
<1>3. Queue(s) \in SUBSET Threads
  BY <1>2 DEF Queue, Range
<1> QED
  BY <1>1, <1>3 DEF Holders, Calling

(* The sums of the next state, for a set given in this one                 *)
LEMMA TotalQueue ==
  ASSUME NEW s, NEW Q \in SUBSET Threads, Queue(s)' = Q,
         \A t \in Q : call'[t].count = call[t].count
  PROVE  Total(Queue(s))' = Total(Q)
<1>1. Units(Queue(s))' = Units(Q)
  BY DEF Units, CountOf
<1> QED
  BY <1>1 DEF Total

LEMMA TotalHolders ==
  ASSUME NEW s, NEW H \in SUBSET Threads, Holders(s)' = H,
         \A t \in H : call'[t].count = call[t].count
  PROVE  Total(Holders(s))' = Total(H)
<1>1. Units(Holders(s))' = Units(H)
  BY DEF Units, CountOf
<1> QED
  BY <1>1 DEF Total

(* What a step that does not concern a slot leaves true of it              *)
LEMMA SlotKept ==
  ASSUME NEW r, SlotInv(r), sems'[r].id = sems[r].id, sems'[r].next_id = sems[r].next_id,
         sems[r].id = NONE => sems'[r].queue = <<>>, r \in Free' <=> r \in Free,
         Deleters(r)' = Deleters(r), \A t \in Deleters(r) : call'[t].id = call[t].id
  PROVE  SlotInv(r)'
<1>1. SlotOf(sems[r].next_id)' = SlotOf(sems[r].next_id)
  BY DEF SlotOf
<1> QED
  BY <1>1 DEF SlotInv

LEMMA CountKept ==
  ASSUME Types, NEW r \in Slots, CountInv(r), sems'[r].id = sems[r].id,
         sems'[r].net_count = sems[r].net_count, sems'[r].count = sems[r].count,
         Queue(r)' = Queue(r), \A t \in Queue(r) : call'[t].count = call[t].count
  PROVE  CountInv(r)'
<1>1. Queue(r) \in SUBSET Threads
  BY QueueType
<1>2. Total(Queue(r))' = Total(Queue(r))
  BY <1>1, TotalQueue
<1> QED
  BY <1>2 DEF CountInv

LEMMA UnitKept ==
  ASSUME Types, NEW r \in Slots, UnitInv(r), sems'[r].id = sems[r].id,
         sems'[r].net_count = sems[r].net_count, balance'[r] = balance[r],
         sems[r].id # NONE => Holders(r)' = Holders(r),
         \A t \in Holders(r) : call'[t].count = call[t].count
  PROVE  UnitInv(r)'
<1>1. CASE sems[r].id # NONE
  <2>1. Holders(r) \in SUBSET Threads
    BY QueueType
  <2>2. Total(Holders(r))' = Total(Holders(r))
    BY <1>1, <2>1, TotalHolders
  <2> QED
    BY <2>2 DEF UnitInv
<1>2. CASE sems[r].id = NONE
  BY <1>2 DEF UnitInv, NONE
<1> QED
  BY <1>1, <1>2

(* No thread changes the semaphore it waits for or its count, or goes      *)
(* anywhere but on to thread_block().                                      *)
CallsKept ==
  \A u \in Threads :
    /\ pc'[u] = pc[u] \/ (pc[u] = "release_other" /\ pc'[u] = "block")
    /\ call'[u].id = call[u].id /\ call'[u].count = call[u].count
    /\ pc'[u] = "release_other" => call'[u].release = call[u].release

LEMMA CallingKept ==
  ASSUME Types, CallsKept
  PROVE  Calling' = Calling /\ \A r : Deleters(r)' = Deleters(r)
<1>1. \A u \in Threads : /\ pc'[u] \in {"release_other", "block"} <=> pc[u] \in {"release_other", "block"}
                         /\ pc'[u] = "free_slot" <=> pc[u] = "free_slot"
                         /\ pc'[u] # "idle" <=> pc[u] # "idle"
  BY DEF CallsKept, Types, Labels
<1>2. Calling' = Calling
  BY <1>1 DEF Calling
<1>3. \A r : Deleters(r)' = Deleters(r)
  BY <1>1 DEF Deleters, CallsKept, SlotOf
<1> QED
  BY <1>2, <1>3

(* Units are added to a semaphore or taken from it, and threads are taken  *)
(* out of its queue and woken.                                             *)
LEMMA WakePreserves ==
  ASSUME Inv, Types', CallsKept, NEW s \in Slots, sems[s].id # NONE,
         NEW m, NEW F, NEW W, NEW status \in {B_OK, B_ERROR}, NEW b \in Int,
         Passed(sems[s], m, F, W),
         sems' = [sems EXCEPT ![s] = m], freeSems' = freeSems,
         wait' = thread_unblock(wait, W, status), balance' = [balance EXCEPT ![s] = b],
         m.net_count \in 0 .. MaxCount, m.net_count = m.count + Total(Range(m.queue)),
         b = m.net_count + (Total(Holders(s)) + IF status = B_OK THEN Total(W) ELSE 0)
  PROVE  Inv'
<1>0. Types
  BY DEF Inv
<1>1. /\ F \in SUBSET Queue(s) /\ W \in SUBSET F /\ Queue(s) \in SUBSET Threads
      /\ \A u \in F : u \in W <=> wait[u] = Blocked
      /\ Queue(s)' = Queue(s) \ F /\ Queue(s)' = Range(m.queue) /\ IsInjective(m.queue)
      /\ sems'[s] = m /\ m.id = sems[s].id /\ m.next_id = sems[s].next_id
      /\ balance'[s] = b
  <2>1. sems'[s] = m /\ balance'[s] = b
    BY <1>0 DEF Types
  <2>2. Queue(s)' = Range(m.queue)
    BY <2>1 DEF Queue
  <2>3. Queue(s) \in SUBSET Threads
    BY <1>0, QueueType
  <2> QED
    BY <2>1, <2>2, <2>3 DEF Passed, Queue
<1>2. \A u \in Threads : wait'[u] = IF u \in W THEN status ELSE wait[u]
  BY <1>0, <1>1 DEF thread_unblock, Types
<1>3. \A r \in Slots \ {s} : sems'[r] = sems[r] /\ balance'[r] = balance[r] /\ Queue(r)' = Queue(r)
  BY <1>0 DEF Types, Queue
<1>4. \A r \in Slots : sems'[r].id = sems[r].id /\ sems'[r].next_id = sems[r].next_id
  BY <1>1, <1>3
<1>5. Calling' = Calling /\ Free' = Free /\ \A r : Deleters(r)' = Deleters(r)
  BY <1>0, CallingKept DEF Free
<1>6. \A u \in Threads : /\ call'[u].id = call[u].id /\ call'[u].count = call[u].count
                         /\ pc[u] = "idle" => pc'[u] = "idle"
                         /\ SlotOf(call[u].id)' = SlotOf(call[u].id)
  BY <1>0 DEF CallsKept, Types, Labels, SlotOf
<1>7. \A r \in Slots \ {s} : W \cap Queue(r) = {} /\ sems[r].id # sems[s].id
  BY <1>1, OneQueue
<1>8. \A u \in W : /\ u \in Calling /\ call[u].id = sems[s].id /\ wait[u] = Blocked
                   /\ u \in Threads
  BY <1>1 DEF Inv, QueueInv
<1>9. \A r \in Slots : SlotInv(r)'
  <2> SUFFICES ASSUME NEW r \in Slots PROVE SlotInv(r)'
    OBVIOUS
  <2>1. SlotInv(r)
    BY DEF Inv
  <2>2. sems[r].id = NONE => sems'[r].queue = <<>>
    BY <1>3, <2>1 DEF SlotInv
  <2>3. \A t \in Deleters(r) : call'[t].id = call[t].id
    BY <1>6 DEF Deleters
  <2> QED
    BY <1>4, <1>5, <2>1, <2>2, <2>3, SlotKept
<1>10. \A t \in Threads : ThreadInv(t)'
  <2> SUFFICES ASSUME NEW t \in Threads PROVE ThreadInv(t)'
    OBVIOUS
  <2>1. ThreadInv(t)
    BY DEF Inv
  <2>2. wait'[t] = Blocked => wait[t] = Blocked
    BY <1>2, <1>8
  <2>3. /\ pc'[t] # "idle" => call'[t].id \in Nat
        /\ pc'[t] = "release_other" => call'[t].release \in Nat
    BY <1>6, <2>1 DEF ThreadInv, CallsKept
  <2>4. CASE t \in Calling
    <3>1. SlotOf(call[t].id) \in Slots
      BY <2>1, <2>4, NextID DEF ThreadInv, Calling
    <3> QED
      BY <1>4, <1>5, <1>6, <2>1, <2>2, <2>3, <2>4, <3>1 DEF ThreadInv
  <2>5. CASE t \notin Calling
    BY <1>5, <2>1, <2>2, <2>3, <2>5 DEF ThreadInv
  <2> QED
    BY <2>4, <2>5
<1>11. \A r \in Slots : QueueInv(r)'
  <2> SUFFICES ASSUME NEW r \in Slots PROVE QueueInv(r)'
    OBVIOUS
  <2>1. QueueInv(r)
    BY DEF Inv
  <2>2. IsInjective(sems'[r].queue)
    BY <1>1, <1>3, <2>1 DEF QueueInv
  <2>3. Queue(r)' \subseteq Queue(r) /\ Queue(r)' \cap W = {} /\ Queue(r) \in SUBSET Threads
    BY <1>0, <1>1, <1>3, <1>7, QueueType
  <2>4. \A t \in Queue(r)' : wait'[t] = wait[t] /\ call'[t].id = call[t].id
    BY <1>2, <1>6, <2>3
  <2> QED
    BY <1>4, <1>5, <2>1, <2>2, <2>3, <2>4 DEF QueueInv
<1>12. \A t \in Threads : BlockedInv(t)'
  <2> SUFFICES ASSUME NEW t \in Threads, wait'[t] = Blocked
               PROVE  Valid(call[t].id)' /\ t \in Queue(SlotOf(call[t].id))'
    BY DEF BlockedInv
  <2>1. wait[t] = Blocked /\ t \notin W
    BY <1>2, <1>8 DEF Blocked, B_OK, B_ERROR
  <2>2. Valid(call[t].id) /\ t \in Queue(SlotOf(call[t].id)) /\ call[t].id \in Nat
    BY <2>1 DEF Inv, BlockedInv, ThreadInv, Calling
  <2>3. SlotOf(call[t].id) \in Slots
    BY <2>2, NextID
  <2>4. t \notin F
    BY <1>1, <2>1
  <2>5. Valid(call[t].id)'
    BY <1>4, <1>6, <2>2, <2>3 DEF Valid
  <2>6. \A r \in Slots : t \in Queue(r) => t \in Queue(r)'
    BY <1>1, <1>3, <2>4
  <2>7. Queue(SlotOf(call[t].id))' = Range(sems'[SlotOf(call[t].id)'].queue)
    BY DEF Queue
  <2>8. t \in Range(sems'[SlotOf(call[t].id)].queue)
    BY <2>2, <2>3, <2>6 DEF Queue
  <2> QED
    BY <1>6, <2>5, <2>7, <2>8
<1>13. \A r \in Slots : CountInv(r)'
  <2> SUFFICES ASSUME NEW r \in Slots PROVE CountInv(r)'
    OBVIOUS
  <2>1. CASE r # s
    <3>1. \A t \in Queue(r) : call'[t].count = call[t].count
      BY <1>0, <1>6, QueueType
    <3>2. CountInv(r)
      BY DEF Inv
    <3> QED
      BY <1>0, <1>3, <2>1, <3>1, <3>2, CountKept
  <2>2. CASE r = s
    <3>1. Range(m.queue) \in SUBSET Threads
      BY <1>1
    <3>2. Total(Queue(s))' = Total(Range(m.queue))
      BY <1>1, <1>6, <3>1, TotalQueue
    <3> QED
      BY <1>1, <2>2, <3>2 DEF CountInv
  <2> QED
    BY <2>1, <2>2
<1>14. \A r \in Slots : UnitInv(r)'
  <2> SUFFICES ASSUME NEW r \in Slots PROVE UnitInv(r)'
    OBVIOUS
  <2>0. Holders(r) \in SUBSET Threads /\ UnitInv(r)
    BY <1>0, QueueType DEF Inv
  <2>1. CASE r # s
    <3>1. \A t \in Holders(r) : call'[t].count = call[t].count
      BY <1>6, <2>0
    <3>2. Holders(r)' = Holders(r)
      <4>1. \A t \in Calling : call[t].id = sems[r].id => wait'[t] = wait[t]
        BY <1>2, <1>7, <1>8, <2>1 DEF Calling
      <4> QED
        BY <1>4, <1>5, <1>6, <4>1 DEF Holders, Calling
    <3> QED
      BY <1>0, <1>3, <2>0, <2>1, <3>1, <3>2, UnitKept
  <2>2. CASE r = s
    <3> DEFINE H == IF status = B_OK THEN Holders(s) \cup W ELSE Holders(s)
    <3>1. Holders(s)' = H
      <4>1. \A t \in Calling : wait'[t] = B_OK <=> (wait[t] = B_OK \/ (t \in W /\ status = B_OK))
        BY <1>2, <1>8 DEF Calling, Blocked, B_OK, B_ERROR
      <4> QED
        BY <1>1, <1>4, <1>5, <1>6, <1>8, <4>1 DEF Holders, Calling
    <3>2. H \in SUBSET Threads /\ Holders(s) \cap W = {} /\ W \in SUBSET Threads
      BY <1>8, <2>0, <2>2 DEF Holders, Blocked, B_OK
    <3>3. Total(H) = Total(Holders(s)) + IF status = B_OK THEN Total(W) ELSE 0
      <4>1. Total(Holders(s) \cup W) = Total(Holders(s)) + Total(W)
        BY <1>0, <2>0, <2>2, <3>2, TotalUnion
      <4>2. Total(Holders(s)) \in Nat
        BY <1>0, <2>0, <2>2, TotalType
      <4> QED
        BY <4>1, <4>2
    <3> HIDE DEF H
    <3>4. Total(Holders(s))' = Total(H)
      BY <1>6, <3>1, <3>2, TotalHolders
    <3> QED
      BY <1>1, <2>2, <3>3, <3>4 DEF UnitInv
  <2> QED
    BY <2>1, <2>2
<1>15. IsInjective(freeSems)'
  BY DEF Inv
<1> QED
  BY <1>9, <1>10, <1>11, <1>12, <1>13, <1>14, <1>15 DEF Inv

(* A thread goes on within its call, or nothing happens.                   *)
LEMMA CallsPreserve ==
  ASSUME Inv, Types', CallsKept, UNCHANGED <<sems, freeSems, wait, balance>>
  PROVE  Inv'
<1>0. Types
  BY DEF Inv
<1>1. Calling' = Calling /\ Free' = Free /\ \A r : Deleters(r)' = Deleters(r) /\ Queue(r)' = Queue(r)
  BY <1>0, CallingKept DEF Free, Queue
<1>2. \A u \in Threads : /\ call'[u].id = call[u].id /\ call'[u].count = call[u].count
                         /\ pc[u] = "idle" => pc'[u] = "idle"
                         /\ SlotOf(call[u].id)' = SlotOf(call[u].id)
  BY <1>0 DEF CallsKept, Types, Labels, SlotOf
<1>3. \A r \in Slots : SlotInv(r)'
  <2> SUFFICES ASSUME NEW r \in Slots PROVE SlotInv(r)'
    OBVIOUS
  <2>1. SlotInv(r) /\ (sems[r].id = NONE => sems'[r].queue = <<>>)
    BY DEF Inv, SlotInv
  <2>2. \A t \in Deleters(r) : call'[t].id = call[t].id
    BY <1>2 DEF Deleters
  <2> QED
    BY <1>1, <2>1, <2>2, SlotKept
<1>4. \A t \in Threads : ThreadInv(t)'
  <2> SUFFICES ASSUME NEW t \in Threads PROVE ThreadInv(t)'
    OBVIOUS
  <2>1. ThreadInv(t)
    BY DEF Inv
  <2>2. pc'[t] = "release_other" => call'[t].release \in Nat
    BY <2>1 DEF ThreadInv, CallsKept
  <2> QED
    BY <1>1, <1>2, <2>1, <2>2 DEF ThreadInv
<1>5. \A r \in Slots : QueueInv(r)'
  <2> SUFFICES ASSUME NEW r \in Slots PROVE QueueInv(r)'
    OBVIOUS
  <2>1. QueueInv(r) /\ Queue(r) \in SUBSET Threads
    BY <1>0, QueueType DEF Inv
  <2> QED
    BY <1>1, <1>2, <2>1 DEF QueueInv
<1>6. \A t \in Threads : BlockedInv(t)'
  <2> SUFFICES ASSUME NEW t \in Threads PROVE BlockedInv(t)'
    OBVIOUS
  <2>1. BlockedInv(t)
    BY DEF Inv
  <2> QED
    BY <1>2, <2>1 DEF BlockedInv, Valid, Queue
<1>7. \A r \in Slots : CountInv(r)' /\ UnitInv(r)'
  <2> SUFFICES ASSUME NEW r \in Slots PROVE CountInv(r)' /\ UnitInv(r)'
    OBVIOUS
  <2>1. CountInv(r) /\ UnitInv(r) /\ Queue(r) \in SUBSET Threads /\ Holders(r) \in SUBSET Threads
    BY <1>0, QueueType DEF Inv
  <2>2. CountInv(r)'
    BY <1>0, <1>1, <1>2, <2>1, CountKept
  <2>3. Holders(r)' = Holders(r)
    BY <1>1, <1>2 DEF Holders, Calling
  <2>4. UnitInv(r)'
    BY <1>0, <1>2, <2>1, <2>3, UnitKept
  <2> QED
    BY <2>2, <2>4
<1> QED
  BY <1>3, <1>4, <1>5, <1>6, <1>7 DEF Inv

-----------------------------------------------------------------------------
(* Releasing *)

(* The loops begin with the semaphore's counts.                            *)
LEMMA LoopBegins ==
  ASSUME NEW sem \in SemEntries, sem.net_count >= 0, NEW n \in Nat
  PROVE  /\ Loop(sem, n) \in LoopStates /\ Fresh(Loop(sem, n)) /\ Loop(sem, n).left = n
         /\ Loop(sem, n).net_count = sem.net_count
BY DEF SemEntries, LoopStates, Fresh, Loop

LEMMA WakeTypes ==
  ASSUME Types, NEW s \in Slots, NEW m \in SemEntries, NEW W, NEW status \in Statuses,
         NEW b \in Int,
         sems' = [sems EXCEPT ![s] = m], freeSems' = freeSems,
         wait' = thread_unblock(wait, W, status), balance' = [balance EXCEPT ![s] = b],
         pc' \in [Threads -> Labels], call' \in [Threads -> Calls]
  PROVE  Types'
<1>1. sems' \in [Slots -> SemEntries]
  BY DEF Types
<1>2. wait' \in [Threads -> Statuses]
  BY DEF Types, thread_unblock
<1>3. balance' \in [Slots -> Int]
  BY DEF Types
<1> QED
  BY <1>1, <1>2, <1>3 DEF Types

(* The counts of a semaphore that exists                                   *)
LEMMA UsedCounts ==
  ASSUME Inv, NEW s \in Slots, sems[s].id # NONE
  PROVE  /\ sems[s] \in SemEntries /\ sems[s].count \in Int /\ sems[s].net_count \in Nat
         /\ sems[s].net_count <= MaxCount /\ MaxCount \in Nat
         /\ sems[s].net_count = sems[s].count + Total(Queue(s))
         /\ balance[s] = sems[s].net_count + Total(Holders(s))
         /\ sems[s].queue \in Seq(Threads) /\ IsInjective(sems[s].queue)
         /\ Total(Queue(s)) \in Nat /\ Total(Holders(s)) \in Nat
<1>0. Types /\ MaxCount \in Nat
  BY SemaphoreConstants DEF Inv
<1>1. CountInv(s) /\ UnitInv(s) /\ QueueInv(s)
  BY DEF Inv
<1>2. sems[s] \in SemEntries /\ sems[s].queue \in Seq(Threads) /\ IsInjective(sems[s].queue)
      /\ Queue(s) \in SUBSET Threads /\ Holders(s) \in SUBSET Threads
  BY <1>0, <1>1, QueueType DEF QueueInv
<1>3. sems[s].net_count \in 0 .. MaxCount /\ sems[s].count \in Int
  BY <1>1, <1>2 DEF CountInv, SemEntries
<1>4. Total(Queue(s)) \in Nat /\ Total(Holders(s)) \in Nat
  BY <1>0, <1>2, TotalType
<1>5. sems[s].net_count \in Nat /\ sems[s].net_count <= MaxCount
  BY <1>0, <1>3
<1> QED
  BY <1>0, <1>1, <1>2, <1>3, <1>4, <1>5 DEF CountInv, UnitInv

(* The arithmetic of ReleaseUnits                                          *)
LEMMA ReleaseSums ==
  ASSUME NEW net \in Nat, NEW n \in Nat, NEW left \in Nat, NEW rest \in Nat, NEW h \in Nat,
         NEW w \in Nat, NEW new \in Int, NEW max \in Nat, rest <= left, new >= 0,
         new + w = net + n - (left - rest), net + n <= max
  PROVE  new \in 0 .. max /\ net + h + n - (left - rest) = new + (h + w)
OBVIOUS

LEMMA ReleaseKeeps ==
  ASSUME Inv, NEW id \in Nat, NEW count \in Nat, NEW ifWaitingOnly \in BOOLEAN,
         ReleaseUnits(id, count, ifWaitingOnly), CallsKept, freeSems' = freeSems,
         pc' \in [Threads -> Labels], call' \in [Threads -> Calls]
  PROVE  Inv'
<1>0. Types
  BY DEF Inv
<1>1. CASE ~Valid(id)
  <2>1. UNCHANGED <<sems, wait, balance>>
    BY <1>1 DEF ReleaseUnits
  <2>2. Types'
    BY <1>0, <2>1 DEF Types
  <2> QED
    BY <2>1, <2>2, CallsPreserve
<1>2. CASE Valid(id)
  <2> DEFINE s == SlotOf(id)
             sem == sems[s]
             x == Loop(sem, count)
             l == ReleasePass(x, sem.queue)
             m == After(sem, l, ifWaitingOnly)
             F == FirstOf(sem.queue, l.removed)
             r == Rest(l, ifWaitingOnly)
             b == balance[s] + count - (l.left - r)
  <2>1. s \in Slots /\ sem.id # NONE
    BY <1>2, ValidSlot
  <2>2. /\ sem \in SemEntries /\ sem.count \in Int /\ sem.net_count \in Nat
        /\ sem.net_count <= MaxCount /\ MaxCount \in Nat
        /\ sem.net_count = sem.count + Total(Range(sem.queue))
        /\ balance[s] = sem.net_count + Total(Holders(s))
        /\ sem.queue \in Seq(Threads) /\ IsInjective(sem.queue)
        /\ Total(Holders(s)) \in Nat
    BY <2>1, UsedCounts DEF Queue
  <2>3. sem.net_count >= 0
    BY <2>2
  <2>4. x \in LoopStates /\ Fresh(x)
    BY <2>2, <2>3, LoopBegins
  <2>5. PassInv(sem.queue, x, l, Len(sem.queue))
    BY <1>0, <2>2, <2>4, ReleasePassInv
  <2>6. l.left \in Nat /\ l.woken \in SUBSET Threads
    BY <2>5 DEF PassInv, LoopStates
  <2>7. r \in Nat /\ r <= l.left /\ l.left - r = IF ifWaitingOnly THEN l.left ELSE 0
    BY <2>6 DEF Rest
  <2>8. /\ sem.net_count + count <= MaxCount
        /\ sems' = [sems EXCEPT ![s] = m]
        /\ wait' = thread_unblock(wait, l.woken, B_OK)
        /\ balance' = [balance EXCEPT ![s] = b]
    <3>1. /\ sems' = [sems EXCEPT ![s] = After(sems[s], l, ifWaitingOnly)]
          /\ balance' = [balance EXCEPT ![s] =
                           balance[s] + count - IF ifWaitingOnly THEN l.left ELSE 0]
          /\ wait' = thread_unblock(wait, l.woken, B_OK)
          /\ sem.net_count + count <= MaxCount
      BY <1>0, <1>2, <2>1 DEF ReleaseUnits, Types
    <3> QED
      BY <2>7, <3>1
  <2> HIDE DEF l, x, b, r, sem
  <2>9. /\ Passed(sem, m, F, l.woken)
        /\ m.net_count = l.net_count + r /\ m.net_count >= 0
        /\ m.net_count + Total(l.woken) = sem.net_count + count - (l.left - r)
        /\ m.net_count = m.count + Total(Range(m.queue))
    BY <1>0, <2>2, <2>5, AfterPass DEF x, r
  <2> HIDE DEF m, F
  <2>10. m \in SemEntries /\ m.net_count \in Int
    BY <2>9 DEF Passed, SemEntries
  <2>11. Total(l.woken) \in Nat
    BY <1>0, <2>6, TotalType
  <2>12. /\ m.net_count \in 0 .. MaxCount
         /\ sem.net_count + Total(Holders(s)) + count - (l.left - r)
              = m.net_count + (Total(Holders(s)) + Total(l.woken))
    <3> DEFINE net == sem.net_count
               left == l.left
               h == Total(Holders(s))
               w == Total(l.woken)
               new == m.net_count
    <3>1. /\ net \in Nat /\ left \in Nat /\ r \in Nat /\ h \in Nat /\ w \in Nat
          /\ new \in Int /\ MaxCount \in Nat /\ r <= left /\ new >= 0
          /\ new + w = net + count - (left - r) /\ net + count <= MaxCount
      BY <2>2, <2>6, <2>7, <2>8, <2>9, <2>10, <2>11
    <3> HIDE DEF net, left, h, w, new
    <3>2. new \in 0 .. MaxCount /\ net + h + count - (left - r) = new + (h + w)
      BY <3>1, ReleaseSums
    <3> QED
      BY <3>2 DEF net, left, h, w, new
  <2>13. b = m.net_count + (Total(Holders(s)) + IF B_OK = B_OK THEN Total(l.woken) ELSE 0)
         /\ b \in Int
    BY <2>2, <2>10, <2>11, <2>12 DEF b
  <2>14. Types'
    BY <1>0, <2>1, <2>8, <2>10, <2>13, WakeTypes DEF Statuses, WaitStatus
  <2> HIDE DEF s
  <2>15. Passed(sems[s], m, F, l.woken) /\ sems[s].id # NONE
    BY <2>1, <2>9 DEF sem
  <2> QED
    BY <2>1, <2>8, <2>9, <2>12, <2>13, <2>14, <2>15, WakePreserves
<1> QED
  BY <1>1, <1>2

LEMMA KnownID ==
  ASSUME NEW id \in KnownIDs
  PROVE  id \in Nat /\ id \in Int
BY SemaphoreConstants DEF KnownIDs, IDs

(* pc and call stay as they are                                            *)
LEMMA SameCalls ==
  ASSUME Types, UNCHANGED <<pc, call>>
  PROVE  CallsKept /\ pc' \in [Threads -> Labels] /\ call' \in [Threads -> Calls]
BY DEF CallsKept, Types

LEMMA ReleaseStep ==
  ASSUME Inv, NEW t \in Threads, NEW id \in KnownIDs, NEW count \in ReleaseCounts,
         NEW ifWaitingOnly \in BOOLEAN, release_sem_etc(t, id, count, ifWaitingOnly)
  PROVE  Inv'
<1>1. Types /\ id \in Nat /\ count \in Nat
  BY KnownID, SemaphoreConstants DEF Inv
<1>2. /\ ReleaseUnits(id, count, ifWaitingOnly) /\ freeSems' = freeSems
      /\ UNCHANGED <<pc, call>>
  BY DEF release_sem_etc
<1> QED
  BY <1>1, <1>2, SameCalls, ReleaseKeeps

LEMMA InterruptedStep ==
  ASSUME Inv, NEW t \in Threads, NEW id \in KnownIDs, NEW count \in AcquireCounts,
         NEW other \in KnownIDs, acquire_interrupted(t, id, count, other)
  PROVE  Inv'
<1>1. Types /\ other \in Nat
  BY KnownID DEF Inv
<1>2. ReleaseUnits(other, 1, FALSE) /\ freeSems' = freeSems /\ UNCHANGED <<pc, call>>
  BY DEF acquire_interrupted
<1>3. 1 \in Nat /\ FALSE \in BOOLEAN
  OBVIOUS
<1> QED
  BY <1>1, <1>2, <1>3, SameCalls, ReleaseKeeps

LEMMA ReleaseOtherStep ==
  ASSUME Inv, NEW t \in Threads, release_other(t)
  PROVE  Inv'
<1>1. Types /\ ThreadInv(t)
  BY DEF Inv
<1>2. /\ pc[t] = "release_other" /\ pc' = [pc EXCEPT ![t] = "block"]
      /\ call' = [call EXCEPT ![t].release = NONE]
      /\ ReleaseUnits(call[t].release, 1, FALSE) /\ freeSems' = freeSems
  BY DEF release_other, Goto
<1>3. call[t].release \in Nat
  BY <1>1, <1>2 DEF ThreadInv
<1>4. pc' \in [Threads -> Labels] /\ call' \in [Threads -> Calls]
  BY <1>1, <1>2 DEF Types, Labels, Calls, SemIDs
<1>5. CallsKept
  BY <1>1, <1>2 DEF CallsKept, Types, Calls
<1>6. 1 \in Nat /\ FALSE \in BOOLEAN
  OBVIOUS
<1> QED
  BY <1>2, <1>3, <1>4, <1>5, <1>6, ReleaseKeeps

(* B_RELEASE_ALL leaves net_count as it is.                                *)
LEMMA ReleaseAllStep ==
  ASSUME Inv, NEW t \in Threads, NEW id \in KnownIDs, NEW status \in {B_OK, B_ERROR},
         release_all(t, id, status)
  PROVE  Inv'
<1> DEFINE s == SlotOf(id)
           sem == sems[s]
           all == sem.net_count - sem.count
           x == Loop(sem, all)
           l == ReleasePass(x, sem.queue)
           m == After(sem, l, TRUE)
           F == FirstOf(sem.queue, l.removed)
           b == IF status = B_OK THEN balance[s] + all - l.left ELSE balance[s]
<1>0. Types /\ id \in Nat /\ Valid(id)
  BY KnownID DEF Inv, release_all
<1>1. s \in Slots /\ sem.id # NONE
  BY <1>0, ValidSlot
<1>2. /\ sem \in SemEntries /\ sem.count \in Int /\ sem.net_count \in Nat
      /\ sem.net_count <= MaxCount /\ MaxCount \in Nat
      /\ sem.net_count = sem.count + Total(Range(sem.queue))
      /\ balance[s] = sem.net_count + Total(Holders(s))
      /\ sem.queue \in Seq(Threads) /\ IsInjective(sem.queue)
      /\ Total(Holders(s)) \in Nat /\ Total(Range(sem.queue)) \in Nat
  BY <1>1, UsedCounts DEF Queue
<1>3. sem.net_count >= 0 /\ all = Total(Range(sem.queue)) /\ all \in Nat
  BY <1>2
<1>8. /\ sems' = [sems EXCEPT ![s] = m] /\ freeSems' = freeSems
      /\ wait' = thread_unblock(wait, l.woken, status)
      /\ balance' = [balance EXCEPT ![s] = b] /\ UNCHANGED <<pc, call>>
  BY <1>0, <1>1 DEF release_all, Types
<1> HIDE DEF all
<1>4. x \in LoopStates /\ Fresh(x) /\ x.left = all /\ x.net_count = sem.net_count
  BY <1>2, <1>3, LoopBegins
<1>5. /\ PassInv(sem.queue, x, l, Len(sem.queue)) /\ l.net_count = sem.net_count
  BY <1>0, <1>2, <1>3, <1>4, ReleasePassInv, ReleaseAll
<1>6. l.left \in Nat /\ l.woken \in SUBSET Threads
  BY <1>5 DEF PassInv, LoopStates
<1>7. Rest(l, TRUE) = 0 /\ TRUE \in BOOLEAN
  BY DEF Rest
<1> HIDE DEF l, x, b, sem
<1>9. /\ Passed(sem, m, F, l.woken)
      /\ m.net_count = l.net_count + 0
      /\ m.net_count + Total(l.woken) = sem.net_count + all - (l.left - 0)
      /\ m.net_count = m.count + Total(Range(m.queue))
  <2>1. \A w \in BOOLEAN :
          /\ Passed(sem, After(sem, l, w), F, l.woken)
          /\ After(sem, l, w).net_count = l.net_count + Rest(l, w)
          /\ After(sem, l, w).net_count + Total(l.woken)
               = sem.net_count + all - (l.left - Rest(l, w))
          /\ After(sem, l, w).net_count
               = After(sem, l, w).count + Total(Range(After(sem, l, w).queue))
    BY <1>0, <1>2, <1>3, <1>5, AfterPass DEF x
  <2> HIDE DEF F
  <2> QED
    BY <1>7, <2>1
<1> HIDE DEF m, F
<1>10. m \in SemEntries /\ m.net_count = sem.net_count
  BY <1>2, <1>5, <1>9 DEF Passed
<1>11. Total(l.woken) \in Nat
  BY <1>0, <1>6, TotalType
<1>12. m.net_count \in 0 .. MaxCount
  BY <1>2, <1>10
<1>13. /\ b \in Int
       /\ b = m.net_count + (Total(Holders(s)) + IF status = B_OK THEN Total(l.woken) ELSE 0)
  <2>1. all - l.left = Total(l.woken)
    <3> DEFINE net == sem.net_count
               left == l.left
               w == Total(l.woken)
    <3>1. m.net_count + w = net + all - (left - 0)
      BY <1>9
    <3>2. m.net_count = net /\ net \in Nat /\ left \in Nat /\ w \in Nat /\ all \in Nat
      BY <1>2, <1>3, <1>6, <1>10, <1>11
    <3> HIDE DEF net, left, w
    <3>3. all - left = w
      BY <3>1, <3>2
    <3> QED
      BY <3>3 DEF left, w
  <2> DEFINE h == Total(Holders(s))
             w == Total(l.woken)
             net == sem.net_count
             bal == balance[s]
             left == l.left
  <2>2. h \in Nat /\ w \in Nat /\ net \in Nat /\ bal = net + h /\ all - left = w
        /\ left \in Nat /\ all \in Nat /\ m.net_count = net
    BY <1>2, <1>3, <1>6, <1>10, <1>11, <2>1
  <2>4. b = IF status = B_OK THEN bal + all - left ELSE bal
    BY DEF b
  <2> HIDE DEF h, w, net, bal, left
  <2>3. b \in Int /\ b = net + (h + IF status = B_OK THEN w ELSE 0)
    BY <2>2, <2>4
  <2> QED
    BY <2>2, <2>3 DEF h, w
<1>14. Types' /\ CallsKept
  BY <1>0, <1>1, <1>8, <1>10, <1>13, WakeTypes, SameCalls DEF Statuses, WaitStatus
<1> HIDE DEF s
<1>15. Passed(sems[s], m, F, l.woken) /\ sems[s].id # NONE
  BY <1>1, <1>9 DEF sem
<1> QED
  BY <1>1, <1>8, <1>9, <1>12, <1>13, <1>14, <1>15, WakePreserves

-----------------------------------------------------------------------------
(* Acquiring *)

(* A thread that need not wait takes units nobody in the queue can count   *)
(* on.                                                                     *)
LEMMA AcquireStep ==
  ASSUME Inv, NEW t \in Threads, NEW id \in KnownIDs, NEW count \in AcquireCounts,
         acquire_at_once(t, id, count)
  PROVE  Inv'
<1> DEFINE s == SlotOf(id)
           sem == sems[s]
           m == [sem EXCEPT !.count = sem.count - count, !.net_count = sem.net_count - count]
           b == balance[s] - count
<1>0. Types /\ id \in Nat /\ count \in Nat /\ Valid(id) /\ sem.count - count >= 0
  BY KnownID, SemaphoreConstants DEF Inv, acquire_at_once, Acquirable
<1>1. s \in Slots /\ sem.id # NONE
  BY <1>0, ValidSlot
<1>2. /\ sem \in SemEntries /\ sem.count \in Int /\ sem.net_count \in Nat
      /\ sem.net_count <= MaxCount /\ MaxCount \in Nat
      /\ sem.net_count = sem.count + Total(Queue(s))
      /\ balance[s] = sem.net_count + Total(Holders(s))
      /\ sem.queue \in Seq(Threads) /\ IsInjective(sem.queue)
      /\ Total(Holders(s)) \in Nat /\ Total(Queue(s)) \in Nat
  BY <1>1, UsedCounts
<1>3. /\ sems' = [sems EXCEPT ![s] = m] /\ freeSems' = freeSems
      /\ balance' = [balance EXCEPT ![s] = b] /\ UNCHANGED <<pc, call, wait>>
  BY <1>0, <1>1 DEF acquire_at_once, Types
<1>4. wait' = thread_unblock(wait, {}, B_OK)
  BY <1>0, <1>3 DEF thread_unblock, Types
<1>5. sem.count - count \in Int /\ sem.net_count - count \in 0 .. MaxCount
  <2> DEFINE c == sem.count
             net == sem.net_count
             tq == Total(Queue(s))
  <2>1. /\ count \in Nat /\ c - count >= 0 /\ c \in Int /\ net \in Nat /\ net <= MaxCount
        /\ MaxCount \in Nat /\ net = c + tq /\ tq \in Nat
    BY <1>0, <1>2
  <2> HIDE DEF c, net, tq
  <2>2. c - count \in Int /\ net - count \in 0 .. MaxCount
    BY <2>1
  <2> QED
    BY <2>2 DEF c, net
<1>6. /\ m \in SemEntries /\ m.id = sem.id /\ m.next_id = sem.next_id /\ m.queue = sem.queue
      /\ m.count = sem.count - count /\ m.net_count = sem.net_count - count
  <2>1. sem.net_count - count \in Int
    BY <1>5
  <2> HIDE DEF sem
  <2> QED
    BY <1>2, <1>5, <2>1 DEF SemEntries
<1>7. Passed(sems[s], m, {}, {})
  BY <1>2, <1>6 DEF Passed
<1>8. Total({}) = 0
  BY TotalNobody
<1> HIDE DEF m, b, s
<1>9. m.net_count = m.count + Total(Range(m.queue))
  <2>1. Total(Range(m.queue)) = Total(Queue(s))
    BY <1>6 DEF Queue
  <2> QED
    BY <1>0, <1>2, <1>6, <2>1
<1>10. b = m.net_count + (Total(Holders(s)) + IF B_OK = B_OK THEN Total({}) ELSE 0) /\ b \in Int
  <2> DEFINE net == sem.net_count
             h == Total(Holders(s))
  <2>1. /\ b = balance[s] - count /\ balance[s] = net + h /\ m.net_count = net - count
        /\ net \in Nat /\ h \in Nat /\ count \in Nat
    BY <1>0, <1>2, <1>6 DEF b
  <2> HIDE DEF net, h
  <2>2. b = m.net_count + (h + 0) /\ b \in Int
    BY <2>1
  <2> QED
    BY <1>8, <2>2 DEF h
<1>11. Types' /\ CallsKept
  BY <1>0, <1>1, <1>3, <1>4, <1>6, <1>10, WakeTypes, SameCalls DEF Statuses, WaitStatus
<1>12. m.net_count \in 0 .. MaxCount
  BY <1>5, <1>6
<1> QED
  BY <1>1, <1>3, <1>4, <1>7, <1>9, <1>10, <1>11, <1>12, WakePreserves

(* A thread times out or is interrupted: it stays in the queue.            *)
LEMMA GiveUp ==
  ASSUME Inv, NEW t \in Threads, wait[t] = Blocked,
         NEW status \in {B_TIMED_OUT, B_INTERRUPTED},
         wait' = thread_unblock(wait, {t}, status),
         UNCHANGED <<sems, freeSems, pc, call, balance>>
  PROVE  Inv'
<1>0. Types
  BY DEF Inv
<1>1. \A u \in Threads : wait'[u] = IF u = t THEN status ELSE wait[u]
  BY <1>0 DEF Types, thread_unblock
<1>2. Types'
  BY <1>0 DEF Types, thread_unblock, Statuses, WaitStatus
<1>3. \A u \in Threads : /\ wait'[u] = Blocked => wait[u] = Blocked
                         /\ wait'[u] = B_OK <=> wait[u] = B_OK
  BY <1>1 DEF Blocked, B_OK, B_TIMED_OUT, B_INTERRUPTED
<1>4. /\ Calling' = Calling /\ Free' = Free
      /\ \A r : Deleters(r)' = Deleters(r) /\ Queue(r)' = Queue(r) /\ Holders(r)' = Holders(r)
  BY <1>3 DEF Calling, Free, Deleters, Queue, Holders, SlotOf
<1>5. \A r \in Slots : SlotInv(r)'
  <2> SUFFICES ASSUME NEW r \in Slots PROVE SlotInv(r)'
    OBVIOUS
  <2>1. SlotInv(r) /\ (sems[r].id = NONE => sems'[r].queue = <<>>)
    BY DEF Inv, SlotInv
  <2> QED
    BY <1>4, <2>1, SlotKept
<1>6. \A u \in Threads : ThreadInv(u)' /\ BlockedInv(u)'
  <2> SUFFICES ASSUME NEW u \in Threads PROVE ThreadInv(u)' /\ BlockedInv(u)'
    OBVIOUS
  <2>1. ThreadInv(u) /\ BlockedInv(u)
    BY DEF Inv
  <2>2. ThreadInv(u)'
    BY <1>3, <1>4, <2>1 DEF ThreadInv, SlotOf
  <2>3. BlockedInv(u)'
    BY <1>3, <2>1 DEF BlockedInv, Valid, Queue, SlotOf
  <2> QED
    BY <2>2, <2>3
<1>7. \A r \in Slots : QueueInv(r)'
  <2> SUFFICES ASSUME NEW r \in Slots PROVE QueueInv(r)'
    OBVIOUS
  <2>1. QueueInv(r) /\ Queue(r) \in SUBSET Threads
    BY <1>0, QueueType DEF Inv
  <2> QED
    BY <1>1, <1>4, <2>1 DEF QueueInv
<1>8. \A r \in Slots : CountInv(r)' /\ UnitInv(r)'
  <2> SUFFICES ASSUME NEW r \in Slots PROVE CountInv(r)' /\ UnitInv(r)'
    OBVIOUS
  <2>1. CountInv(r) /\ UnitInv(r)
    BY DEF Inv
  <2> QED
    BY <1>0, <1>4, <2>1, CountKept, UnitKept
<1> QED
  BY <1>2, <1>5, <1>6, <1>7, <1>8 DEF Inv

LEMMA TimeoutStep ==
  ASSUME Inv, NEW t \in Threads, timeout(t)
  PROVE  Inv'
<1>1. /\ wait[t] = Blocked /\ wait' = thread_unblock(wait, {t}, B_TIMED_OUT)
      /\ UNCHANGED <<sems, freeSems, pc, call, balance>>
  BY DEF timeout, thread_is_blocked, thread_block_timeout
<1> QED
  BY <1>1, GiveUp

LEMMA InterruptStep ==
  ASSUME Inv, NEW t \in Threads, interrupt(t)
  PROVE  Inv'
<1>1. /\ wait[t] = Blocked /\ wait' = thread_unblock(wait, {t}, B_INTERRUPTED)
      /\ UNCHANGED <<sems, freeSems, pc, call, balance>>
  BY DEF interrupt, thread_is_blocked
<1> QED
  BY <1>1, GiveUp

(* A thread that is in no call is in no queue and holds nothing.           *)
LEMMA NotCalling ==
  ASSUME Inv, NEW t \in Threads, t \notin Calling
  PROVE  wait[t] # Blocked /\ \A r \in Slots : t \notin Queue(r) /\ t \notin Holders(r)
BY DEF Inv, ThreadInv, QueueInv, Holders

(* The sum of a queue that a thread joins                                  *)
Joins(t, Q, s, c) ==
  /\ t \notin Q /\ Queue(s)' = Q \cup {t}
  /\ call'[t].count = c /\ \A u \in Q : call'[u].count = call[u].count

LEMMA TotalJoin ==
  ASSUME Types, NEW s, NEW Q \in SUBSET Threads, NEW t \in Threads, NEW c \in Nat,
         Joins(t, Q, s, c)
  PROVE  Total(Queue(s))' = Total(Q) + c
<1> USE DEF Joins
<1> DEFINE A == Units(Q)
           B == {t} \X (1 .. c)
<1>1. Units(Queue(s))' = A \cup B
  BY DEF Units, CountOf
<1>2. A \cap B = {}
  BY DEF Units
<1>3. IsFiniteSet(A) /\ Cardinality(A) = Total(Q) /\ Total(Q) \in Nat
  BY TotalType DEF Total
<1>4. IsFiniteSet({t}) /\ Cardinality({t}) = 1
  BY FS_Singleton
<1>5. IsFiniteSet(1 .. c) /\ Cardinality(1 .. c) = c
  <2>1. c \in Int /\ 1 \in Int
    OBVIOUS
  <2>2. IsFiniteSet(1 .. c) /\ Cardinality(1 .. c) = IF 1 > c THEN 0 ELSE c - 1 + 1
    BY <2>1, FS_Interval
  <2> QED
    BY <2>2
<1>6. IsFiniteSet(B) /\ Cardinality(B) = c
  <2>1. IsFiniteSet(B) /\ Cardinality(B) = Cardinality({t}) * Cardinality(1 .. c)
    BY <1>4, <1>5, FS_Product
  <2>2. 1 * c = c
    OBVIOUS
  <2> HIDE DEF B
  <2> QED
    BY <1>4, <1>5, <2>1, <2>2
<1> HIDE DEF A, B
<1>7. Cardinality(A \cup B) = Cardinality(A) + Cardinality(B) - Cardinality(A \cap B)
  BY <1>3, <1>6, FS_Union
<1>8. Cardinality(A \cap B) = 0
  BY <1>2, FS_EmptySet
<1>9. Total(Queue(s))' = Cardinality(A \cup B)
  BY <1>1 DEF Total
<1> QED
  BY <1>3, <1>6, <1>7, <1>8, <1>9

LEMMA EnqueueStep ==
  ASSUME Inv, NEW t \in Threads, NEW id \in KnownIDs, NEW count \in AcquireCounts,
         NEW other \in KnownIDs \cup {NONE}, acquire_enqueue(t, id, count, other)
  PROVE  Inv'
<1> DEFINE s == SlotOf(id)
           sem == sems[s]
           m == [sem EXCEPT !.count = sem.count - count, !.queue = Append(sem.queue, t)]
           label == IF other = NONE THEN "block" ELSE "release_other"
           arguments == [id |-> id, count |-> count, release |-> other]
<1>0. /\ Types /\ id \in Nat /\ count \in Nat /\ count > 0 /\ Valid(id) /\ pc[t] = "idle"
      /\ other \in SemIDs /\ (other # NONE => other \in Nat)
  <2>1. count \in Nat \ {0}
    BY SemaphoreConstants
  <2>2. count > 0
    BY <2>1
  <2> QED
    BY KnownID, <2>1, <2>2 DEF Inv, acquire_enqueue, SemIDs
<1>1. s \in Slots /\ sem.id = id /\ sem.id # NONE
  BY <1>0, ValidSlot
<1>2. /\ sem \in SemEntries /\ sem.count \in Int /\ sem.net_count \in Nat
      /\ sem.net_count <= MaxCount /\ MaxCount \in Nat
      /\ sem.net_count = sem.count + Total(Queue(s))
      /\ sem.queue \in Seq(Threads) /\ IsInjective(sem.queue)
      /\ Total(Queue(s)) \in Nat
  BY <1>1, UsedCounts
<1>3. /\ sems' = [sems EXCEPT ![s] = m] /\ freeSems' = freeSems /\ balance' = balance
      /\ wait' = [wait EXCEPT ![t] = Blocked] /\ pc' = [pc EXCEPT ![t] = label]
      /\ call' = [call EXCEPT ![t] = arguments]
  BY <1>0, <1>1 DEF acquire_enqueue, Types, thread_prepare_to_block, Goto
<1>4. t \notin Calling
  BY <1>0 DEF Calling
<1>5. \A r \in Slots : t \notin Queue(r) /\ t \notin Holders(r)
  BY <1>4, NotCalling
<1>6. /\ Append(sem.queue, t) \in Seq(Threads)
      /\ Range(Append(sem.queue, t)) = Range(sem.queue) \cup {t}
      /\ IsInjective(Append(sem.queue, t))
  <2>1. t \notin Range(sem.queue)
    BY <1>1, <1>5 DEF Queue
  <2> QED
    BY <1>2, <2>1, AppendMembers
<1>7. /\ m \in SemEntries /\ m.id = id /\ m.next_id = sem.next_id
      /\ m.queue = Append(sem.queue, t)
      /\ m.count = sem.count - count /\ m.net_count = sem.net_count
  <2>1. sem.count - count \in Int
    BY <1>0, <1>2
  <2> HIDE DEF sem
  <2> QED
    BY <1>1, <1>2, <1>6, <2>1 DEF SemEntries
<1>8. Types'
  <2> HIDE DEF m
  <2>1. sems' \in [Slots -> SemEntries]
    BY <1>0, <1>1, <1>3, <1>7 DEF Types
  <2>2. label \in Labels /\ arguments \in Calls
    BY <1>0 DEF Labels, Calls, SemIDs
  <2> HIDE DEF label, arguments
  <2>3. pc' \in [Threads -> Labels] /\ call' \in [Threads -> Calls]
    BY <1>0, <1>3, <2>2 DEF Types
  <2>4. wait' \in [Threads -> Statuses]
    BY <1>0, <1>3 DEF Types, Statuses, WaitStatus
  <2> QED
    BY <1>0, <1>3, <2>1, <2>3, <2>4 DEF Types
<1>9. /\ sems'[s] = m /\ \A r \in Slots \ {s} : sems'[r] = sems[r] /\ Queue(r)' = Queue(r)
      /\ wait'[t] = Blocked /\ pc'[t] = label /\ call'[t] = arguments
      /\ \A u \in Threads \ {t} : wait'[u] = wait[u] /\ pc'[u] = pc[u] /\ call'[u] = call[u]
  BY <1>0, <1>1, <1>3 DEF Types, Queue
<1>10. Queue(s)' = Queue(s) \cup {t}
  BY <1>6, <1>7, <1>9 DEF Queue
<1>11. \A r \in Slots : sems'[r].id = sems[r].id /\ sems'[r].next_id = sems[r].next_id
  BY <1>1, <1>7, <1>9
<1>12. Calling' = Calling \cup {t} /\ Free' = Free
  BY <1>3, <1>9 DEF Calling, Free
<1>13. call'[t].id = id /\ call'[t].count = count /\ call'[t].release = other
       /\ pc'[t] \notin {"idle", "free_slot"} /\ (pc'[t] = "release_other" => other # NONE)
  BY <1>9
<1>14. \A r : Deleters(r)' = Deleters(r)
  BY <1>0, <1>9, <1>13 DEF Deleters, SlotOf
<1> HIDE DEF m, label, arguments, sem
<1>15. \A r \in Slots : SlotInv(r)'
  <2> SUFFICES ASSUME NEW r \in Slots PROVE SlotInv(r)'
    OBVIOUS
  <2>1. SlotInv(r) /\ (sems[r].id = NONE => sems'[r].queue = <<>>)
    BY <1>1, <1>9 DEF Inv, SlotInv, sem
  <2>2. \A u \in Deleters(r) : call'[u].id = call[u].id
    BY <1>0, <1>9 DEF Deleters
  <2> QED
    BY <1>11, <1>12, <1>14, <2>1, <2>2, SlotKept
<1>16. \A u \in Threads : ThreadInv(u)'
  <2> SUFFICES ASSUME NEW u \in Threads PROVE ThreadInv(u)'
    OBVIOUS
  <2>1. CASE u # t
    <3>1. ThreadInv(u)
      BY DEF Inv
    <3>2. u \in Calling' <=> u \in Calling
      BY <1>12, <2>1
    <3>3. SlotOf(call[u].id)' = SlotOf(call[u].id)
      BY <1>9, <2>1 DEF SlotOf
    <3>4. u \in Calling => SlotOf(call[u].id) \in Slots
      BY <3>1, NextID DEF ThreadInv, Calling
    <3> QED
      BY <1>9, <1>11, <1>12, <2>1, <3>1, <3>2, <3>3, <3>4 DEF ThreadInv
  <2>2. CASE u = t
    <3>1. SlotOf(call[t].id)' = s
      BY <1>13 DEF SlotOf
    <3>2. id = sems'[s].next_id /\ s \notin Free'
      BY <1>1, <1>11, <1>12, UsedSlot DEF sem
    <3>3. id <= sems'[s].next_id
      BY <1>0, <3>2
    <3> QED
      BY <1>0, <1>12, <1>13, <2>2, <3>1, <3>2, <3>3 DEF ThreadInv
  <2> QED
    BY <2>1, <2>2
<1>17. \A r \in Slots : QueueInv(r)'
  <2> SUFFICES ASSUME NEW r \in Slots PROVE QueueInv(r)'
    OBVIOUS
  <2>1. QueueInv(r) /\ Queue(r) \in SUBSET Threads /\ t \notin Queue(r)
    BY <1>0, <1>5, QueueType DEF Inv
  <2>2. IsInjective(sems'[r].queue)
    BY <1>6, <1>7, <1>9, <2>1 DEF QueueInv
  <2>3. \A u \in Queue(r) : /\ u \in Calling' /\ call'[u].id = sems'[r].id
                            /\ wait'[u] \in {Blocked, B_TIMED_OUT, B_INTERRUPTED}
    BY <1>9, <1>11, <1>12, <2>1 DEF QueueInv
  <2>4. t \in Calling' /\ call'[t].id = sems'[s].id /\ wait'[t] = Blocked
    BY <1>7, <1>9, <1>12, <1>13
  <2> QED
    BY <1>9, <1>10, <2>2, <2>3, <2>4 DEF QueueInv
<1>18. \A u \in Threads : BlockedInv(u)'
  <2> SUFFICES ASSUME NEW u \in Threads, wait'[u] = Blocked
               PROVE  Valid(call[u].id)' /\ u \in Queue(SlotOf(call[u].id))'
    BY DEF BlockedInv
  <2>1. CASE u # t
    <3>1. Valid(call[u].id) /\ u \in Queue(SlotOf(call[u].id)) /\ call[u].id \in Nat
      BY <1>9, <2>1 DEF Inv, BlockedInv, ThreadInv, Calling
    <3>2. SlotOf(call[u].id) \in Slots /\ call'[u] = call[u]
      BY <1>9, <2>1, <3>1, NextID
    <3>3. Valid(call[u].id)'
      BY <1>11, <3>1, <3>2 DEF Valid, SlotOf
    <3>4. \A r \in Slots : Range(sems[r].queue) \subseteq Range(sems'[r].queue)
      BY <1>9, <1>10 DEF Queue
    <3>5. u \in Range(sems'[SlotOf(call[u].id)].queue)
      BY <3>1, <3>2, <3>4 DEF Queue
    <3> QED
      BY <3>2, <3>3, <3>5 DEF Queue, SlotOf
  <2>2. CASE u = t
    <3>1. call'[t].id = id /\ sems'[s].id = id /\ t \in Range(sems'[s].queue)
      BY <1>7, <1>9, <1>10, <1>13 DEF Queue
    <3> QED
      BY <2>2, <3>1 DEF Valid, Queue, SlotOf
  <2> QED
    BY <2>1, <2>2
<1>19. \A r \in Slots : CountInv(r)'
  <2> SUFFICES ASSUME NEW r \in Slots PROVE CountInv(r)'
    OBVIOUS
  <2>0. CountInv(r) /\ Queue(r) \in SUBSET Threads
    BY <1>0, QueueType DEF Inv
  <2>1. \A u \in Queue(r) : call'[u].count = call[u].count
    BY <1>5, <1>9, <2>0
  <2>2. CASE r # s
    BY <1>0, <1>9, <2>0, <2>1, <2>2, CountKept
  <2>3. CASE r = s
    <3>1. Total(Queue(r))' = Total(Queue(r)) + count
      <4>1. Joins(t, Queue(r), r, count)
        BY <1>5, <1>10, <1>13, <2>1, <2>3 DEF Joins
      <4> QED
        BY <1>0, <2>0, <4>1, TotalJoin
    <3>2. sems'[s].count = sem.count - count /\ sems'[s].net_count = sem.net_count
      BY <1>7, <1>9
    <3>3. sem.net_count = sem.count - count + (Total(Queue(s)) + count)
          /\ sem.net_count \in 0 .. MaxCount
      BY <1>0, <1>2
    <3> QED
      BY <2>3, <3>1, <3>2, <3>3 DEF CountInv
  <2> QED
    BY <2>2, <2>3
<1>20. \A r \in Slots : UnitInv(r)'
  <2> SUFFICES ASSUME NEW r \in Slots PROVE UnitInv(r)'
    OBVIOUS
  <2>1. UnitInv(r) /\ Holders(r) \in SUBSET Threads /\ t \notin Holders(r)
    BY <1>0, <1>5, QueueType DEF Inv
  <2>2. Holders(r)' = Holders(r)
    BY <1>4, <1>9, <1>11, <1>12 DEF Holders, Blocked, B_OK, Calling
  <2>3. sems'[r].net_count = sems[r].net_count
    BY <1>7, <1>9 DEF sem
  <2> QED
    BY <1>0, <1>3, <1>9, <1>11, <2>1, <2>2, <2>3, UnitKept
<1> QED
  BY <1>3, <1>8, <1>15, <1>16, <1>17, <1>18, <1>19, <1>20 DEF Inv

-----------------------------------------------------------------------------
(* Creating and deleting *)

(* Nobody asks for the next semaphore of a free slot yet.                  *)
LEMMA CreateStep ==
  ASSUME Inv, NEW t \in Threads, NEW count \in InitialCounts, create_sem_etc(t, count)
  PROVE  Inv'
<1>0. /\ Types /\ freeSems # <<>> /\ IsInjective(freeSems) /\ freeSems \in Seq(Slots)
      /\ count \in 0 .. MaxCount /\ MaxCount \in Nat
  BY SemaphoreConstants DEF Inv, create_sem_etc, Types
<1>1. /\ Tail(freeSems) \in Seq(Slots) /\ Head(freeSems) \in Free
      /\ Free = Range(Tail(freeSems)) \cup {Head(freeSems)}
      /\ IsInjective(Tail(freeSems)) /\ Head(freeSems) \notin Range(Tail(freeSems))
  BY <1>0, TailMembers DEF Free
<1>2. PICK s \in Slots : s = Head(freeSems)
  <2>1. Free \in SUBSET Slots
    <3>1. DOMAIN freeSems = 1 .. Len(freeSems)
          /\ \A i \in 1 .. Len(freeSems) : freeSems[i] \in Slots
      BY <1>0, LenProperties
    <3> QED
      BY <3>1 DEF Free, Range
  <2> QED
    BY <1>1, <2>1
<1>3. /\ s \in Free /\ Free' = Free \ {s} /\ IsInjective(freeSems') /\ freeSems' \in Seq(Slots)
      /\ UNCHANGED <<pc, call, wait>>
  BY <1>1, <1>2 DEF create_sem_etc, Free
<1> DEFINE m == [id |-> sems[s].next_id, count |-> count, net_count |-> count,
                 queue |-> <<>>, next_id |-> sems[s].next_id]
<1>4. sems' = [sems EXCEPT ![s] = m] /\ balance' = [balance EXCEPT ![s] = count]
  BY <1>2 DEF create_sem_etc
<1>5. sems[s].id = NONE /\ Deleters(s) = {}
  BY <1>3 DEF Inv, SlotInv
<1>6. sems[s].next_id \in Nat /\ count \in Int /\ <<>> \in Seq(Threads) /\ sems[s].next_id # NONE
  BY <1>0, EmptySeq DEF Types, SemEntries, NONE
<1>7. m \in SemEntries /\ SlotOf(sems[s].next_id) = s
  BY <1>6 DEF SemEntries, SemIDs, Inv, SlotInv
<1>8. /\ m.id = sems[s].next_id /\ m.next_id = sems[s].next_id /\ m.queue = <<>>
      /\ m.count = count /\ m.net_count = count
  OBVIOUS
<1> HIDE DEF m
<1>9. Types'
  BY <1>0, <1>3, <1>4, <1>6, <1>7 DEF Types
<1>10. /\ sems'[s] = m /\ balance'[s] = count
       /\ \A r \in Slots \ {s} : sems'[r] = sems[r] /\ balance'[r] = balance[r]
  BY <1>0, <1>4 DEF Types
<1>11. Calling' = Calling /\ \A r : Deleters(r)' = Deleters(r)
  BY <1>3 DEF Calling, Deleters, SlotOf
<1>12. Range(<<>>) = {} /\ IsInjective(<<>>)
  BY DEF Range, IsInjective
<1>13. Queue(s)' = {} /\ \A r \in Slots \ {s} : Queue(r)' = Queue(r)
  BY <1>8, <1>10, <1>12 DEF Queue
<1>14. \A r \in Slots : SlotInv(r)'
  <2> SUFFICES ASSUME NEW r \in Slots PROVE SlotInv(r)'
    OBVIOUS
  <2>1. CASE r # s
    <3>1. SlotInv(r) /\ (sems[r].id = NONE => sems'[r].queue = <<>>)
      BY <1>10, <2>1 DEF Inv, SlotInv
    <3>2. r \in Free' <=> r \in Free
      BY <1>3, <2>1
    <3> QED
      BY <1>3, <1>10, <1>11, <2>1, <3>1, <3>2, SlotKept
  <2>2. CASE r = s
    <3>1. /\ sems'[s].id = sems[s].next_id /\ sems'[s].next_id = sems[s].next_id
          /\ s \notin Free' /\ Deleters(s)' = {} /\ sems'[s].id # NONE
      BY <1>3, <1>5, <1>6, <1>8, <1>10, <1>11
    <3>2. SlotOf(sems[s].next_id)' = s
      BY <1>7, <3>1 DEF SlotOf
    <3> QED
      BY <2>2, <3>1, <3>2 DEF SlotInv, NONE
  <2> QED
    BY <2>1, <2>2
<1>15. \A u \in Threads : ThreadInv(u)'
  <2> SUFFICES ASSUME NEW u \in Threads PROVE ThreadInv(u)'
    OBVIOUS
  <2>1. ThreadInv(u)
    BY DEF Inv
  <2>2. u \in Calling => SlotOf(call[u].id) \in Slots
    BY <2>1, NextID DEF ThreadInv, Calling
  <2>3. \A r \in Slots : sems'[r].next_id = sems[r].next_id /\ (r \in Free' => r \in Free)
    BY <1>3, <1>8, <1>10
  <2>4. SlotOf(call[u].id)' = SlotOf(call[u].id)
    BY <1>3 DEF SlotOf
  <2> QED
    BY <1>3, <1>11, <2>1, <2>2, <2>3, <2>4 DEF ThreadInv
<1>16. \A r \in Slots : QueueInv(r)'
  <2> SUFFICES ASSUME NEW r \in Slots PROVE QueueInv(r)'
    OBVIOUS
  <2>1. CASE r # s
    <3>1. QueueInv(r)
      BY DEF Inv
    <3> QED
      BY <1>3, <1>10, <1>11, <1>13, <2>1, <3>1 DEF QueueInv
  <2>2. CASE r = s
    BY <1>8, <1>10, <1>12, <1>13, <2>2 DEF QueueInv
  <2> QED
    BY <2>1, <2>2
<1>17. \A u \in Threads : BlockedInv(u)'
  <2> SUFFICES ASSUME NEW u \in Threads, wait[u] = Blocked
               PROVE  Valid(call[u].id)' /\ u \in Queue(SlotOf(call[u].id))'
    BY <1>3 DEF BlockedInv
  <2>1. Valid(call[u].id) /\ u \in Queue(SlotOf(call[u].id)) /\ call[u].id \in Nat
    BY DEF Inv, BlockedInv, ThreadInv, Calling
  <2>2. PICK r \in Slots : r = SlotOf(call[u].id)
    BY <2>1, NextID
  <2>3. sems[r].id # NONE
    BY <2>1, <2>2 DEF Valid, NONE
  <2>4. sems'[r] = sems[r]
    BY <1>5, <1>10, <2>3
  <2>5. SlotOf(call[u].id)' = r
    BY <1>3, <2>2 DEF SlotOf
  <2> QED
    BY <1>3, <2>1, <2>2, <2>4, <2>5 DEF Valid, Queue
<1>18. \A r \in Slots : CountInv(r)'
  <2> SUFFICES ASSUME NEW r \in Slots PROVE CountInv(r)'
    OBVIOUS
  <2>0. CountInv(r)
    BY DEF Inv
  <2>1. CASE r # s
    BY <1>0, <1>3, <1>10, <1>13, <2>0, <2>1, CountKept
  <2>2. CASE r = s
    <3>1. Total(Queue(s))' = Total({})
      BY <1>13, TotalQueue
    <3>2. count = count + Total({})
      BY <1>6, TotalNobody
    <3> QED
      BY <1>0, <1>8, <1>10, <2>2, <3>1, <3>2 DEF CountInv
  <2> QED
    BY <2>1, <2>2
<1>19. \A r \in Slots : UnitInv(r)'
  <2> SUFFICES ASSUME NEW r \in Slots PROVE UnitInv(r)'
    OBVIOUS
  <2>0. UnitInv(r)
    BY DEF Inv
  <2>1. CASE r # s
    <3>1. Holders(r)' = Holders(r)
      BY <1>3, <1>10, <1>11, <2>1 DEF Holders
    <3> QED
      BY <1>0, <1>3, <1>10, <2>0, <2>1, <3>1, UnitKept
  <2>2. CASE r = s
    <3>1. ASSUME NEW u \in Calling, call[u].id = sems[s].next_id PROVE FALSE
      <4>1. ThreadInv(u) /\ u \in Threads
        BY DEF Inv, Calling
      <4>2. SlotOf(call[u].id) = s
        BY <1>7, <3>1
      <4>3. call[u].id < sems[s].next_id
        BY <1>3, <4>1, <4>2, <3>1 DEF ThreadInv
      <4> QED
        BY <1>6, <3>1, <4>3
    <3>2. Holders(s)' = {}
      BY <1>3, <1>8, <1>10, <1>11, <3>1 DEF Holders
    <3>3. Total(Holders(s))' = Total({})
      BY <3>2, TotalHolders
    <3>4. count = count + Total({})
      BY <1>6, TotalNobody
    <3> QED
      BY <1>8, <1>10, <2>2, <3>3, <3>4 DEF UnitInv
  <2> QED
    BY <2>1, <2>2
<1> QED
  BY <1>3, <1>9, <1>14, <1>15, <1>16, <1>17, <1>18, <1>19 DEF Inv

(* Membership in a list, in the ways the model writes it                   *)
LEMMA Members ==
  ASSUME NEW q \in Seq(Threads)
  PROVE  ToSet(q) = Range(q) /\ \A t : Contains(q, t) <=> t \in Range(q)
<1>1. DOMAIN q = 1 .. Len(q)
  BY LenProperties
<1> QED
  BY <1>1 DEF ToSet, Range, Contains

(* Everybody who waits is woken before the id becomes invalid.             *)
LEMMA DeleteStep ==
  ASSUME Inv, NEW t \in Threads, NEW id \in KnownIDs, delete_sem(t, id)
  PROVE  Inv'
<1>0. Types /\ id \in Nat /\ Valid(id) /\ pc[t] = "idle"
  BY KnownID DEF Inv, delete_sem
<1>1. PICK s \in Slots : s = SlotOf(id) /\ sems[s].id = id /\ sems[s].id # NONE
  BY <1>0, ValidSlot
<1>2. sems[s].next_id = id /\ s \notin Free /\ Deleters(s) = {}
  BY <1>1, UsedSlot
<1> DEFINE m == [sems[s] EXCEPT !.id = NONE, !.queue = <<>>, !.count = 0, !.net_count = 0]
           d == [call[t] EXCEPT !.id = id]
<1>3. /\ wait' = thread_unblock(wait, Queue(s), B_BAD_SEM_ID)
      /\ sems' = [sems EXCEPT ![s] = m] /\ balance' = [balance EXCEPT ![s] = 0]
      /\ pc' = [pc EXCEPT ![t] = "free_slot"] /\ call' = [call EXCEPT ![t] = d]
      /\ freeSems' = freeSems
  <2>1. ToSet(sems[s].queue) = Queue(s)
    BY <1>0, QueueType, Members DEF Queue
  <2> QED
    BY <1>0, <1>1, <2>1 DEF delete_sem, Types, Goto
<1>4. sems[s] \in SemEntries /\ call[t] \in Calls /\ <<>> \in Seq(Threads)
  BY <1>0, EmptySeq DEF Types
<1>5. /\ m \in SemEntries /\ m.id = NONE /\ m.queue = <<>> /\ m.next_id = id
      /\ d \in Calls /\ d.id = id
  <2>1. NONE \in SemIDs /\ id \in SemIDs /\ 0 \in Int
    BY <1>0 DEF SemIDs
  <2>2. m \in SemEntries /\ m.id = NONE /\ m.queue = <<>> /\ m.next_id = id
    BY <1>2, <1>4, <2>1 DEF SemEntries
  <2>3. d \in Calls /\ d.id = id
    BY <1>4, <2>1 DEF Calls
  <2> QED
    BY <2>2, <2>3
<1> HIDE DEF m, d
<1>6. Types'
  <2>1. sems' \in [Slots -> SemEntries] /\ balance' \in [Slots -> Int]
    BY <1>0, <1>3, <1>5 DEF Types
  <2>2. pc' \in [Threads -> Labels] /\ call' \in [Threads -> Calls]
    BY <1>0, <1>3, <1>5 DEF Types, Labels
  <2>3. wait' \in [Threads -> Statuses]
    BY <1>0, <1>3 DEF Types, thread_unblock, Statuses
  <2> QED
    BY <1>0, <1>3, <2>1, <2>2, <2>3 DEF Types
<1>7. /\ sems'[s] = m /\ pc'[t] = "free_slot" /\ call'[t] = d
      /\ \A r \in Slots \ {s} : /\ sems'[r] = sems[r] /\ balance'[r] = balance[r]
                                /\ Queue(r)' = Queue(r)
      /\ \A u \in Threads \ {t} : pc'[u] = pc[u] /\ call'[u] = call[u]
  BY <1>0, <1>3 DEF Types, Queue
<1>8. \A u \in Threads : /\ u \notin Queue(s) => wait'[u] = wait[u]
                         /\ u \in Queue(s) => wait'[u] # Blocked /\ wait'[u] # B_OK
                         /\ u \in Queue(s) => wait[u] # B_OK
                         /\ wait'[u] = Blocked => wait[u] = Blocked
  <2>1. \A u \in Threads : wait'[u] = IF u \in Queue(s) /\ wait[u] = Blocked
                                     THEN B_BAD_SEM_ID ELSE wait[u]
    BY <1>0, <1>3 DEF Types, thread_unblock
  <2>2. \A u \in Queue(s) : wait[u] # B_OK
    BY DEF Inv, QueueInv, Blocked, B_OK, B_TIMED_OUT, B_INTERRUPTED
  <2> QED
    BY <2>1, <2>2 DEF Blocked, B_OK, B_BAD_SEM_ID
<1>9. t \notin Calling /\ t \notin Calling' /\ Calling' = Calling /\ Free' = Free
  BY <1>0, <1>3, <1>7 DEF Calling, Free
<1>10. wait[t] # Blocked /\ \A r \in Slots : t \notin Queue(r) /\ t \notin Holders(r)
  BY <1>9, NotCalling
<1>11. Range(<<>>) = {} /\ IsInjective(<<>>)
  BY DEF Range, IsInjective
<1>12. Queue(s)' = {}
  BY <1>5, <1>7, <1>11 DEF Queue
<1>13. \A r \in Slots : SlotInv(r)'
  <2> SUFFICES ASSUME NEW r \in Slots PROVE SlotInv(r)'
    OBVIOUS
  <2>0. SlotInv(r)
    BY DEF Inv
  <2>1. CASE r # s
    <3>1. sems[r].id = NONE => sems'[r].queue = <<>>
      BY <1>7, <2>0, <2>1 DEF SlotInv
    <3>2. Deleters(r)' = Deleters(r) /\ t \notin Deleters(r)
      BY <1>0, <1>1, <1>5, <1>7, <2>1 DEF Deleters, SlotOf
    <3>3. \A u \in Deleters(r) : call'[u].id = call[u].id
      BY <1>7, <3>2 DEF Deleters
    <3> QED
      BY <1>7, <1>9, <2>0, <2>1, <3>1, <3>2, <3>3, SlotKept
  <2>2. CASE r = s
    <3>1. Deleters(s)' = {t}
      <4>1. \A u \in Threads \ {t} : ~(pc[u] = "free_slot" /\ SlotOf(call[u].id) = s)
        BY <1>2 DEF Deleters
      <4>2. \A u \in Threads \ {t} : ~(pc'[u] = "free_slot" /\ SlotOf(call[u].id)' = s)
        BY <1>7, <4>1 DEF SlotOf
      <4>3. SlotOf(call[t].id)' = s
        BY <1>1, <1>5, <1>7 DEF SlotOf
      <4> QED
        BY <1>7, <4>2, <4>3 DEF Deleters
    <3>2. /\ sems'[s].id = NONE /\ sems'[s].queue = <<>> /\ sems'[s].next_id = id
          /\ call'[t].id = id /\ s \notin Free'
      BY <1>2, <1>5, <1>7, <1>9
    <3>3. SlotOf(sems[s].next_id)' = s
      BY <1>1, <3>2 DEF SlotOf
    <3> QED
      BY <2>2, <3>1, <3>2, <3>3 DEF SlotInv, NONE
  <2> QED
    BY <2>1, <2>2
<1>14. \A u \in Threads : ThreadInv(u)'
  <2> SUFFICES ASSUME NEW u \in Threads PROVE ThreadInv(u)'
    OBVIOUS
  <2>1. ThreadInv(u)
    BY DEF Inv
  <2>2. \A r \in Slots : sems'[r].next_id = sems[r].next_id
    BY <1>2, <1>5, <1>7
  <2>3. CASE u # t
    <3>1. u \in Calling => SlotOf(call[u].id) \in Slots
      BY <2>1, NextID DEF ThreadInv, Calling
    <3>2. SlotOf(call[u].id)' = SlotOf(call[u].id)
      BY <1>7, <2>3 DEF SlotOf
    <3> QED
      BY <1>7, <1>8, <1>9, <2>1, <2>2, <2>3, <3>1, <3>2 DEF ThreadInv
  <2>4. CASE u = t
    BY <1>0, <1>5, <1>7, <1>8, <1>9, <1>10, <2>4 DEF ThreadInv
  <2> QED
    BY <2>3, <2>4
<1>15. \A r \in Slots : QueueInv(r)'
  <2> SUFFICES ASSUME NEW r \in Slots PROVE QueueInv(r)'
    OBVIOUS
  <2>1. CASE r # s
    <3>1. QueueInv(r) /\ Queue(r) \in SUBSET Threads /\ t \notin Queue(r)
          /\ Queue(r) \cap Queue(s) = {}
      BY <1>0, <1>10, <2>1, QueueType, OneQueue DEF Inv
    <3> QED
      BY <1>7, <1>8, <1>9, <2>1, <3>1 DEF QueueInv
  <2>2. CASE r = s
    BY <1>5, <1>7, <1>11, <1>12, <2>2 DEF QueueInv
  <2> QED
    BY <2>1, <2>2
<1>16. \A u \in Threads : BlockedInv(u)'
  <2> SUFFICES ASSUME NEW u \in Threads, wait'[u] = Blocked
               PROVE  Valid(call[u].id)' /\ u \in Queue(SlotOf(call[u].id))'
    BY DEF BlockedInv
  <2>1. wait[u] = Blocked /\ u \notin Queue(s) /\ u # t
    BY <1>8, <1>10
  <2>2. Valid(call[u].id) /\ u \in Queue(SlotOf(call[u].id)) /\ call[u].id \in Nat
    BY <2>1 DEF Inv, BlockedInv, ThreadInv, Calling
  <2>3. PICK r \in Slots : r = SlotOf(call[u].id)
    BY <2>2, NextID
  <2>4. sems'[r] = sems[r] /\ call'[u] = call[u]
    BY <1>7, <2>1, <2>2, <2>3
  <2>5. SlotOf(call[u].id)' = r
    BY <2>3, <2>4 DEF SlotOf
  <2> QED
    BY <2>2, <2>3, <2>4, <2>5 DEF Valid, Queue
<1>17. \A r \in Slots : CountInv(r)' /\ UnitInv(r)'
  <2> SUFFICES ASSUME NEW r \in Slots PROVE CountInv(r)' /\ UnitInv(r)'
    OBVIOUS
  <2>0. /\ CountInv(r) /\ UnitInv(r) /\ Queue(r) \in SUBSET Threads
        /\ Holders(r) \in SUBSET Threads /\ t \notin Queue(r) /\ t \notin Holders(r)
    BY <1>0, <1>10, QueueType DEF Inv
  <2>1. CASE r # s
    <3>1. CountInv(r)'
      BY <1>0, <1>7, <2>0, <2>1, CountKept
    <3>2. Holders(r)' = Holders(r)
      <4>1. \A u \in Calling : /\ u \in Threads /\ u # t
                               /\ wait'[u] = B_OK <=> wait[u] = B_OK
        BY <1>8, <1>9 DEF Calling
      <4> QED
        BY <1>7, <1>9, <2>1, <4>1 DEF Holders
    <3>3. UnitInv(r)'
      BY <1>0, <1>7, <2>0, <2>1, <3>2, UnitKept
    <3> QED
      BY <3>1, <3>3
  <2>2. CASE r = s
    BY <1>5, <1>7, <2>2 DEF CountInv, UnitInv, NONE
  <2> QED
    BY <2>1, <2>2
<1> QED
  BY <1>3, <1>6, <1>13, <1>14, <1>15, <1>16, <1>17 DEF Inv

(* The slot goes to the free list with an id nobody has seen.              *)
LEMMA FreeStep ==
  ASSUME Inv, NEW t \in Threads, free_sem_slot(t)
  PROVE  Inv'
<1>0. Types /\ pc[t] = "free_slot" /\ call[t].id \in Nat /\ sMaxSems \in Nat \ {0}
  BY SemaphoreConstants DEF Inv, free_sem_slot, ThreadInv
<1>1. PICK s \in Slots : s = SlotOf(call[t].id)
  BY <1>0, NextID
<1>2. t \in Deleters(s)
  BY <1>0, <1>1 DEF Deleters
<1>3. /\ sems[s].id = NONE /\ sems[s].next_id = call[t].id /\ s \notin Free
      /\ Deleters(s) = {t}
  BY <1>2 DEF Inv, SlotInv
<1>4. PICK n \in Nat : n = call[t].id + sMaxSems
  BY <1>0
<1>5. SlotOf(n) = s /\ call[t].id < n
  BY <1>0, <1>1, <1>4, NextID
<1> DEFINE m == [sems[s] EXCEPT !.next_id = n]
<1>6. /\ sems' = [sems EXCEPT ![s] = m] /\ freeSems' = Append(freeSems, s)
      /\ pc' = [pc EXCEPT ![t] = "idle"] /\ call' = [call EXCEPT ![t] = NoCall]
      /\ UNCHANGED <<wait, balance>>
  BY <1>0, <1>1, <1>4 DEF free_sem_slot, Types, Return, Goto
<1>7. sems[s] \in SemEntries
  BY <1>0 DEF Types
<1>8. /\ m \in SemEntries /\ m.id = sems[s].id /\ m.queue = sems[s].queue /\ m.next_id = n
      /\ m.count = sems[s].count /\ m.net_count = sems[s].net_count
  BY <1>7 DEF SemEntries
<1>9. NoCall \in Calls
  BY DEF NoCall, Calls, SemIDs
<1> HIDE DEF m
<1>10. freeSems' \in Seq(Slots) /\ IsInjective(freeSems') /\ Free' = Free \cup {s}
  BY <1>0, <1>3, <1>6, AppendMembers DEF Free, Inv, Types
<1>11. Types'
  BY <1>0, <1>6, <1>8, <1>9, <1>10 DEF Types, Labels
<1>12. /\ sems'[s] = m /\ pc'[t] = "idle"
       /\ \A r \in Slots \ {s} : sems'[r] = sems[r]
       /\ \A u \in Threads \ {t} : pc'[u] = pc[u] /\ call'[u] = call[u]
  BY <1>0, <1>6 DEF Types
<1>13. t \notin Calling /\ t \notin Calling' /\ Calling' = Calling
  BY <1>0, <1>12 DEF Calling
<1>14. wait[t] # Blocked /\ \A r \in Slots : t \notin Queue(r) /\ t \notin Holders(r)
  BY <1>13, NotCalling
<1>15. \A r \in Slots : /\ Queue(r)' = Queue(r) /\ sems'[r].id = sems[r].id
                        /\ sems'[r].queue = sems[r].queue
                        /\ sems'[r].count = sems[r].count /\ sems'[r].net_count = sems[r].net_count
  BY <1>8, <1>12 DEF Queue
<1>16. \A r \in Slots : SlotInv(r)'
  <2> SUFFICES ASSUME NEW r \in Slots PROVE SlotInv(r)'
    OBVIOUS
  <2>0. SlotInv(r)
    BY DEF Inv
  <2>1. CASE r # s
    <3>1. sems[r].id = NONE => sems'[r].queue = <<>>
      BY <1>15, <2>0 DEF SlotInv
    <3>2. Deleters(r)' = Deleters(r) /\ t \notin Deleters(r)
      BY <1>1, <1>12, <2>1 DEF Deleters, SlotOf
    <3>3. \A u \in Deleters(r) : call'[u].id = call[u].id
      BY <1>12, <3>2 DEF Deleters
    <3> QED
      BY <1>10, <1>12, <2>0, <2>1, <3>1, <3>2, <3>3, SlotKept
  <2>2. CASE r = s
    <3>1. Deleters(s)' = {}
      <4>1. \A u \in Threads \ {t} : ~(pc[u] = "free_slot" /\ SlotOf(call[u].id) = s)
        BY <1>3 DEF Deleters
      <4>2. \A u \in Threads \ {t} : ~(pc'[u] = "free_slot" /\ SlotOf(call[u].id)' = s)
        BY <1>12, <4>1 DEF SlotOf
      <4> QED
        BY <1>12, <4>2 DEF Deleters
    <3>2. SlotOf(sems[s].next_id)' = s
      BY <1>5, <1>8, <1>12 DEF SlotOf
    <3>3. sems'[s].id = NONE /\ sems'[s].queue = <<>>
      BY <1>3, <1>15, <2>0, <2>2 DEF SlotInv
    <3> QED
      BY <2>2, <3>1, <3>2, <3>3 DEF SlotInv, NONE
  <2> QED
    BY <2>1, <2>2
<1>17. \A u \in Threads : ThreadInv(u)'
  <2> SUFFICES ASSUME NEW u \in Threads PROVE ThreadInv(u)'
    OBVIOUS
  <2>1. ThreadInv(u)
    BY DEF Inv
  <2>2. CASE u = t
    BY <1>6, <1>12, <1>13, <1>14, <2>2 DEF ThreadInv
  <2>3. CASE u # t /\ u \in Calling
    <3>1. PICK r \in Slots : r = SlotOf(call[u].id)
      BY <2>1, <2>3, NextID DEF ThreadInv, Calling
    <3>2. SlotOf(call[u].id)' = r /\ call'[u] = call[u]
      BY <1>12, <2>3, <3>1 DEF SlotOf
    <3>3. call[u].id <= sems[r].next_id /\ (r \in Free => call[u].id < sems[r].next_id)
          /\ call[u].count > 0 /\ call[u].id \in Nat
      BY <2>1, <2>3, <3>1 DEF ThreadInv, Calling
    <3>4. CASE r # s
      BY <1>6, <1>10, <1>12, <1>13, <2>1, <2>3, <3>2, <3>3, <3>4 DEF ThreadInv
    <3>5. CASE r = s
      <4>1. call[u].id < n /\ call[u].id <= n
        BY <1>0, <1>3, <1>5, <3>3, <3>5
      <4> QED
        BY <1>6, <1>8, <1>12, <1>13, <2>1, <2>3, <3>2, <3>3, <3>5, <4>1 DEF ThreadInv
    <3> QED
      BY <3>4, <3>5
  <2>4. CASE u # t /\ u \notin Calling
    BY <1>6, <1>12, <1>13, <2>1, <2>4 DEF ThreadInv
  <2> QED
    BY <2>2, <2>3, <2>4
<1>18. \A r \in Slots : QueueInv(r)'
  <2> SUFFICES ASSUME NEW r \in Slots PROVE QueueInv(r)'
    OBVIOUS
  <2>1. QueueInv(r) /\ Queue(r) \in SUBSET Threads
    BY <1>0, QueueType DEF Inv
  <2> QED
    BY <1>6, <1>12, <1>13, <1>14, <1>15, <2>1 DEF QueueInv
<1>19. \A u \in Threads : BlockedInv(u)'
  <2> SUFFICES ASSUME NEW u \in Threads, wait[u] = Blocked
               PROVE  Valid(call[u].id)' /\ u \in Queue(SlotOf(call[u].id))'
    BY <1>6 DEF BlockedInv
  <2>1. Valid(call[u].id) /\ u \in Queue(SlotOf(call[u].id)) /\ call[u].id \in Nat
    BY DEF Inv, BlockedInv, ThreadInv, Calling
  <2>2. PICK r \in Slots : r = SlotOf(call[u].id)
    BY <2>1, NextID
  <2>3. call'[u] = call[u]
    BY <1>12, <1>14
  <2>4. SlotOf(call[u].id)' = r
    BY <2>2, <2>3 DEF SlotOf
  <2> QED
    BY <1>15, <2>1, <2>2, <2>3, <2>4 DEF Valid, Queue
<1>20. \A r \in Slots : CountInv(r)' /\ UnitInv(r)'
  <2> SUFFICES ASSUME NEW r \in Slots PROVE CountInv(r)' /\ UnitInv(r)'
    OBVIOUS
  <2>0. /\ CountInv(r) /\ UnitInv(r) /\ Queue(r) \in SUBSET Threads
        /\ Holders(r) \in SUBSET Threads /\ t \notin Queue(r) /\ t \notin Holders(r)
    BY <1>0, <1>14, QueueType DEF Inv
  <2>1. \A u \in Threads \ {t} : call'[u].count = call[u].count
    BY <1>12
  <2>2. CountInv(r)'
    BY <1>0, <1>15, <2>0, <2>1, CountKept
  <2>3. Holders(r)' = Holders(r)
    BY <1>6, <1>12, <1>13, <1>15 DEF Holders, Calling
  <2>4. UnitInv(r)'
    BY <1>0, <1>6, <1>15, <2>0, <2>1, <2>3, UnitKept
  <2> QED
    BY <2>2, <2>4
<1> QED
  BY <1>10, <1>11, <1>16, <1>17, <1>18, <1>19, <1>20 DEF Inv

-----------------------------------------------------------------------------
(* Returning *)

(* A thread leaves its call, and the semaphore's queue if it was still in  *)
(* it; those who can go on are woken.                                      *)
Leaves(t, s, m, F, W, b) ==
  /\ pc[t] = "block" /\ wait[t] # Blocked /\ SlotOf(call[t].id) = s
  /\ Passed(sems[s], m, F, W) /\ t \notin Queue(s) \ F
  /\ sems[s].id = NONE => m.queue = <<>>
  /\ sems[s].id # NONE =>
       /\ m.net_count \in 0 .. MaxCount
       /\ m.net_count = m.count + Total(Range(m.queue))
       /\ b = m.net_count + (Total(Holders(s) \ {t}) + Total(W))
  /\ sems' = [sems EXCEPT ![s] = m] /\ freeSems' = freeSems
  /\ wait' = [thread_unblock(wait, W, B_OK) EXCEPT ![t] = B_OK]
  /\ balance' = [balance EXCEPT ![s] = b]
  /\ pc' = [pc EXCEPT ![t] = "idle"] /\ call' = [call EXCEPT ![t] = NoCall]

LEMMA LeavePreserves ==
  ASSUME Inv, NEW t \in Threads, NEW s \in Slots, NEW m, NEW F, NEW W, NEW b \in Int,
         Leaves(t, s, m, F, W, b)
  PROVE  Inv'
<1>0. Types /\ pc[t] = "block" /\ wait[t] # Blocked /\ SlotOf(call[t].id) = s
  BY DEF Inv, Leaves
<1>1. /\ F \in SUBSET Queue(s) /\ W \in SUBSET F /\ Queue(s) \in SUBSET Threads
      /\ \A u \in F : u \in W <=> wait[u] = Blocked
      /\ Queue(s)' = Queue(s) \ F /\ Queue(s)' = Range(m.queue) /\ IsInjective(m.queue)
      /\ sems'[s] = m /\ m.id = sems[s].id /\ m.next_id = sems[s].next_id
      /\ balance'[s] = b /\ m \in SemEntries
  <2>1. sems'[s] = m /\ balance'[s] = b
    BY <1>0 DEF Types, Leaves
  <2>2. Queue(s)' = Range(m.queue)
    BY <2>1 DEF Queue
  <2>3. Queue(s) \in SUBSET Threads
    BY <1>0, QueueType
  <2> QED
    BY <2>1, <2>2, <2>3 DEF Passed, Queue, Leaves
<1>2. t \notin W /\ \A u \in Threads \ {t} : wait'[u] = IF u \in W THEN B_OK ELSE wait[u]
  BY <1>0, <1>1 DEF thread_unblock, Types, Leaves
<1>3. \A r \in Slots \ {s} : sems'[r] = sems[r] /\ balance'[r] = balance[r] /\ Queue(r)' = Queue(r)
  BY <1>0 DEF Types, Queue, Leaves
<1>4. \A r \in Slots : sems'[r].id = sems[r].id /\ sems'[r].next_id = sems[r].next_id
  BY <1>1, <1>3
<1>5. /\ wait'[t] = B_OK /\ pc'[t] = "idle"
      /\ \A u \in Threads \ {t} : pc'[u] = pc[u] /\ call'[u] = call[u]
  BY <1>0 DEF Types, Leaves, thread_unblock
<1>6. Calling' = Calling \ {t} /\ t \in Calling /\ Free' = Free
  BY <1>0, <1>5 DEF Calling, Free, Leaves
<1>7. \A r : Deleters(r)' = Deleters(r) /\ t \notin Deleters(r)
  BY <1>0, <1>5 DEF Deleters, SlotOf
<1>8. \A u \in W : /\ u \in Calling /\ call[u].id = sems[s].id /\ wait[u] = Blocked
                   /\ u \in Threads
  BY <1>1 DEF Inv, QueueInv
<1>9. Types'
  <2>1. sems' \in [Slots -> SemEntries] /\ balance' \in [Slots -> Int]
    BY <1>0, <1>1 DEF Types, Leaves
  <2>2. NoCall \in Calls
    BY DEF NoCall, Calls, SemIDs
  <2>3. pc' \in [Threads -> Labels] /\ call' \in [Threads -> Calls]
    BY <1>0, <2>2 DEF Types, Labels, Leaves
  <2>4. wait' \in [Threads -> Statuses]
    BY <1>0 DEF Types, thread_unblock, Statuses, WaitStatus, Leaves
  <2> QED
    BY <1>0, <2>1, <2>3, <2>4 DEF Types, Leaves
<1>10. \A r \in Slots \ {s} : /\ t \notin Queue(r) /\ t \notin Holders(r)
                              /\ W \cap Queue(r) = {}
                              /\ sems[r].id # NONE => sems[r].id # sems[s].id
  <2> SUFFICES ASSUME NEW r \in Slots \ {s}
               PROVE  /\ t \notin Queue(r) /\ t \notin Holders(r) /\ W \cap Queue(r) = {}
                      /\ sems[r].id # NONE => sems[r].id # sems[s].id
    OBVIOUS
  <2>1. call[t].id # sems[r].id
    <3>1. call[t].id \in Nat
      BY <1>0 DEF Inv, ThreadInv
    <3>2. call[t].id # NONE
      BY <3>1 DEF NONE
    <3> QED
      BY <1>0, <3>2, UsedSlot
  <2>2. t \notin Queue(r)
    BY <2>1 DEF Inv, QueueInv
  <2>3. t \notin Holders(r)
    BY <2>1 DEF Holders
  <2> QED
    BY <1>1, <2>2, <2>3, OneQueue
<1>11. t \notin Queue(s)'
  BY <1>1 DEF Leaves
<1>12. \A r \in Slots : SlotInv(r)'
  <2> SUFFICES ASSUME NEW r \in Slots PROVE SlotInv(r)'
    OBVIOUS
  <2>1. SlotInv(r)
    BY DEF Inv
  <2>2. sems[r].id = NONE => sems'[r].queue = <<>>
    BY <1>1, <1>3, <2>1 DEF SlotInv, Leaves
  <2>3. \A u \in Deleters(r) : call'[u].id = call[u].id
    BY <1>5, <1>7 DEF Deleters
  <2> QED
    BY <1>4, <1>6, <1>7, <2>1, <2>2, <2>3, SlotKept
<1>13. \A u \in Threads : ThreadInv(u)'
  <2> SUFFICES ASSUME NEW u \in Threads PROVE ThreadInv(u)'
    OBVIOUS
  <2>1. ThreadInv(u)
    BY DEF Inv
  <2>2. CASE u = t
    BY <1>5, <1>6, <2>2 DEF ThreadInv, Blocked, B_OK
  <2>3. CASE u # t
    <3>1. (wait'[u] = Blocked => wait[u] = Blocked) /\ (u \in Calling' <=> u \in Calling)
      BY <1>2, <1>6, <1>8, <2>3
    <3>2. u \in Calling => SlotOf(call[u].id) \in Slots
      BY <2>1, NextID DEF ThreadInv, Calling
    <3>3. SlotOf(call[u].id)' = SlotOf(call[u].id)
      BY <1>5, <2>3 DEF SlotOf
    <3> QED
      BY <1>4, <1>5, <1>6, <2>1, <2>3, <3>1, <3>2, <3>3 DEF ThreadInv
  <2> QED
    BY <2>2, <2>3
<1>14. \A r \in Slots : QueueInv(r)'
  <2> SUFFICES ASSUME NEW r \in Slots PROVE QueueInv(r)'
    OBVIOUS
  <2>1. QueueInv(r)
    BY DEF Inv
  <2>2. IsInjective(sems'[r].queue)
    BY <1>1, <1>3, <2>1 DEF QueueInv
  <2>3. /\ Queue(r)' \subseteq Queue(r) /\ Queue(r)' \cap W = {} /\ Queue(r) \in SUBSET Threads
        /\ t \notin Queue(r)'
    BY <1>0, <1>1, <1>3, <1>10, <1>11, QueueType
  <2>4. \A u \in Queue(r)' : wait'[u] = wait[u] /\ call'[u] = call[u] /\ u # t
    BY <1>2, <1>5, <2>3
  <2> QED
    BY <1>4, <1>6, <2>1, <2>2, <2>3, <2>4 DEF QueueInv
<1>15. \A u \in Threads : BlockedInv(u)'
  <2> SUFFICES ASSUME NEW u \in Threads, wait'[u] = Blocked
               PROVE  Valid(call[u].id)' /\ u \in Queue(SlotOf(call[u].id))'
    BY DEF BlockedInv
  <2>1. wait[u] = Blocked /\ u \notin W /\ u # t
    BY <1>2, <1>5 DEF Blocked, B_OK
  <2>2. Valid(call[u].id) /\ u \in Queue(SlotOf(call[u].id)) /\ call[u].id \in Nat
    BY <2>1 DEF Inv, BlockedInv, ThreadInv, Calling
  <2>3. PICK r \in Slots : r = SlotOf(call[u].id)
    BY <2>2, NextID
  <2>4. u \notin F
    BY <1>1, <2>1
  <2>5. call'[u] = call[u] /\ SlotOf(call[u].id)' = r
    BY <1>5, <2>1, <2>3 DEF SlotOf
  <2>6. u \in Queue(r)'
    BY <1>1, <1>3, <2>2, <2>3, <2>4
  <2> QED
    BY <1>4, <2>2, <2>3, <2>5, <2>6 DEF Valid, Queue
<1>16. \A r \in Slots : CountInv(r)'
  <2> SUFFICES ASSUME NEW r \in Slots PROVE CountInv(r)'
    OBVIOUS
  <2>1. CASE r # s
    <3>1. \A u \in Queue(r) : call'[u].count = call[u].count
      BY <1>0, <1>5, <1>10, <2>1, QueueType
    <3>2. CountInv(r)
      BY DEF Inv
    <3> QED
      BY <1>0, <1>3, <2>1, <3>1, <3>2, CountKept
  <2>2. CASE r = s
    <3>1. Range(m.queue) \in SUBSET Threads /\ t \notin Range(m.queue)
      BY <1>1, <1>11
    <3>2. \A u \in Range(m.queue) : call'[u].count = call[u].count
      BY <1>5, <3>1
    <3>3. Total(Queue(s))' = Total(Range(m.queue))
      BY <1>1, <3>1, <3>2, TotalQueue
    <3> QED
      BY <1>1, <2>2, <3>3 DEF CountInv, Leaves
  <2> QED
    BY <2>1, <2>2
<1>17. \A r \in Slots : UnitInv(r)'
  <2> SUFFICES ASSUME NEW r \in Slots PROVE UnitInv(r)'
    OBVIOUS
  <2>0. Holders(r) \in SUBSET Threads /\ UnitInv(r)
    BY <1>0, QueueType DEF Inv
  <2>1. CASE r # s
    <3>1. \A u \in Holders(r) : call'[u].count = call[u].count
      BY <1>5, <1>10, <2>0, <2>1
    <3>2. sems[r].id # NONE => Holders(r)' = Holders(r)
      <4> SUFFICES ASSUME sems[r].id # NONE PROVE Holders(r)' = Holders(r)
        OBVIOUS
      <4>1. \A u \in Calling \ {t} : call[u].id = sems[r].id => wait'[u] = wait[u]
        BY <1>2, <1>8, <1>10, <2>1 DEF Calling
      <4>2. t \notin Holders(r) /\ t \notin Holders(r)'
        BY <1>6, <1>10, <2>1 DEF Holders
      <4> QED
        BY <1>4, <1>5, <1>6, <4>1, <4>2 DEF Holders, Calling
    <3> QED
      BY <1>0, <1>3, <2>0, <2>1, <3>1, <3>2, UnitKept
  <2>2. CASE r = s /\ sems[s].id # NONE
    <3> DEFINE A == Holders(s) \ {t}
    <3>1. Holders(s)' = A \cup W
      <4>1. \A u \in Calling \ {t} : wait'[u] = B_OK <=> (wait[u] = B_OK \/ u \in W)
        BY <1>2 DEF Calling
      <4> QED
        BY <1>2, <1>4, <1>5, <1>6, <1>8, <4>1 DEF Holders, Calling
    <3>2. /\ A \in SUBSET Threads /\ W \in SUBSET Threads /\ A \cap W = {}
          /\ A \cup W \in SUBSET Threads /\ t \notin A \cup W
      BY <1>2, <1>8, <2>0, <2>2 DEF Holders, Blocked, B_OK
    <3> HIDE DEF A
    <3>3. Total(A \cup W) = Total(A) + Total(W)
      BY <1>0, <3>2, TotalUnion
    <3>4. \A u \in A \cup W : call'[u].count = call[u].count
      BY <1>5, <3>2
    <3>5. Total(Holders(s))' = Total(A \cup W)
      <4>1. PICK H \in SUBSET Threads : H = A \cup W
        BY <3>2
      <4> QED
        BY <3>1, <3>4, <4>1, TotalHolders
    <3> QED
      BY <1>1, <2>2, <3>3, <3>5 DEF UnitInv, Leaves, A
  <2>3. CASE r = s /\ sems[s].id = NONE
    BY <1>4, <2>3 DEF UnitInv, NONE
  <2> QED
    BY <2>1, <2>2, <2>3
<1>18. IsInjective(freeSems)'
  BY DEF Inv, Leaves
<1> QED
  BY <1>9, <1>12, <1>13, <1>14, <1>15, <1>16, <1>17, <1>18 DEF Inv

(* remove_thread_from_sem(): the units the thread was counted for are      *)
(* there again, and the first thread of the queue, if there is one, waits  *)
(* for more than there is.                                                 *)
LEMMA Removal ==
  ASSUME Inv, NEW t \in Threads, NEW s \in Slots, t \in Queue(s), wait[t] # Blocked
  PROVE  LET r == Removed(sems[s], t)
             m == r.sem
         IN /\ \E F : Passed(sems[s], m, F, r.woken) /\ t \in F
            /\ m.net_count \in 0 .. MaxCount
            /\ m.net_count = m.count + Total(Range(m.queue))
            /\ m.net_count + Total(r.woken) = sems[s].net_count
            /\ m.queue # <<>> => /\ wait[Head(m.queue)] = Blocked
                                 /\ call[Head(m.queue)].count > m.net_count
<1> DEFINE sem == sems[s]
           c == call[t].count
           without == [sem EXCEPT !.count = sem.count + c, !.queue = RemoveFirst(sem.queue, t)]
           x == Loop(without, 0)
           l == RemovePass(x, without.queue)
           m == After(without, l, TRUE)
<1>0. Types /\ c \in Nat
  BY DEF Inv, Types, Calls
<1>1. sem.id # NONE
  <2>1. sem.id = NONE => sem.queue = <<>>
    BY DEF Inv, SlotInv
  <2>2. Range(<<>>) = {}
    BY DEF Range
  <2> QED
    BY <2>1, <2>2 DEF Queue
<1>2. /\ sem \in SemEntries /\ sem.count \in Int /\ sem.net_count \in Nat
      /\ sem.net_count <= MaxCount /\ MaxCount \in Nat
      /\ sem.net_count = sem.count + Total(Queue(s))
      /\ sem.queue \in Seq(Threads) /\ IsInjective(sem.queue)
      /\ Total(Queue(s)) \in Nat
  BY <1>1, UsedCounts
<1>3. /\ RemoveFirst(sem.queue, t) \in Seq(Threads) /\ IsInjective(RemoveFirst(sem.queue, t))
      /\ Range(RemoveFirst(sem.queue, t)) = Queue(s) \ {t}
  BY <1>2, RemoveFirstMembers DEF Queue
<1>4. Removed(sem, t) = [sem |-> m, woken |-> l.woken]
  BY DEF Removed
<1>5. sem.count + c \in Int
  BY <1>0, <1>2
<1>6. /\ without \in SemEntries /\ without.id = sem.id /\ without.next_id = sem.next_id
      /\ without.count = sem.count + c /\ without.net_count = sem.net_count
      /\ without.queue = RemoveFirst(sem.queue, t)
  <2> HIDE DEF sem, c
  <2> QED
    BY <1>2, <1>3, <1>5 DEF SemEntries
<1> HIDE DEF without
<1>7. /\ Queue(s) \ {t} \in SUBSET Threads /\ (Queue(s) \ {t}) \cup {t} = Queue(s)
      /\ t \notin Queue(s) \ {t}
  BY <1>0, QueueType
<1>8. Total(Queue(s)) = Total(Queue(s) \ {t}) + c /\ Total(Queue(s) \ {t}) \in Nat
  BY <1>0, <1>7, TotalAdd
<1>9. without.net_count = without.count + Total(Range(without.queue))
  <2>1. Total(Range(without.queue)) = Total(Queue(s) \ {t})
    BY <1>3, <1>6
  <2> QED
    BY <1>0, <1>2, <1>6, <1>8, <2>1
<1>10. without.net_count >= 0 /\ 0 \in Nat
  BY <1>2, <1>6
<1>11. x \in LoopStates /\ Fresh(x) /\ x.left = 0
  BY <1>6, <1>10, LoopBegins
<1>12. without.queue \in Seq(Threads) /\ IsInjective(without.queue)
  BY <1>3, <1>6
<1>13. /\ PassInv(without.queue, x, l, Len(without.queue))
       /\ l.left = 0 /\ (l.ended \/ l.removed = Len(without.queue))
  BY <1>0, <1>11, <1>12, RemovePassInv
<1>14. l.woken \in SUBSET Threads
  BY <1>13 DEF PassInv, LoopStates
<1>15. Total(l.woken) \in Nat
  BY <1>0, <1>14, TotalType
<1> HIDE DEF l
<1> DEFINE F == FirstOf(without.queue, l.removed)
<1>16. /\ Passed(without, m, F, l.woken) /\ m.net_count >= 0
       /\ m.net_count + Total(l.woken) = without.net_count + 0 - (l.left - Rest(l, TRUE))
       /\ m.net_count = m.count + Total(Range(m.queue))
       /\ l.ended => /\ m.queue # <<>> /\ wait[Head(m.queue)] = Blocked
                     /\ call[Head(m.queue)].count > m.net_count
       /\ l.removed = Len(without.queue) => m.queue = <<>>
  <2>1. \A w \in BOOLEAN :
          /\ Passed(without, After(without, l, w), F, l.woken)
          /\ After(without, l, w).net_count >= 0
          /\ After(without, l, w).net_count + Total(l.woken)
               = without.net_count + 0 - (l.left - Rest(l, w))
          /\ After(without, l, w).net_count
               = After(without, l, w).count + Total(Range(After(without, l, w).queue))
          /\ l.ended => /\ After(without, l, w).queue # <<>>
                        /\ wait[Head(After(without, l, w).queue)] = Blocked
                        /\ call[Head(After(without, l, w).queue)].count
                             > After(without, l, w).net_count
          /\ l.removed = Len(without.queue) => After(without, l, w).queue = <<>>
    BY <1>0, <1>6, <1>9, <1>10, <1>12, <1>13, AfterPass
  <2> HIDE DEF F
  <2> QED
    BY <2>1
<1> HIDE DEF m, F, x
<1>17. Rest(l, TRUE) = 0 /\ m \in SemEntries
  BY <1>16 DEF Rest, Passed
<1>18. m.net_count \in Int
  BY <1>17 DEF SemEntries
<1>19. m.net_count + Total(l.woken) = sem.net_count /\ m.net_count \in 0 .. MaxCount
  <2> DEFINE net == sem.net_count
             new == m.net_count
             w == Total(l.woken)
  <2>1. without.net_count = net /\ l.left = 0 /\ Rest(l, TRUE) = 0
    BY <1>6, <1>13, <1>17
  <2>2. new + w = net + 0 - (0 - 0)
    BY <1>16, <2>1
  <2>3. /\ net \in Nat /\ net <= MaxCount /\ MaxCount \in Nat /\ new \in Int /\ new >= 0
        /\ w \in Nat
    BY <1>2, <1>15, <1>16, <1>18
  <2> HIDE DEF net, new, w
  <2>4. new + w = net /\ new \in 0 .. MaxCount
    BY <2>2, <2>3
  <2> QED
    BY <2>4 DEF net, new, w
<1>20. Passed(sem, m, F \cup {t}, l.woken)
  <2>1. F \in SUBSET (Queue(s) \ {t}) /\ Range(m.queue) = (Queue(s) \ {t}) \ F
    BY <1>3, <1>6, <1>16 DEF Passed
  <2>2. l.woken = {u \in F \cup {t} : wait[u] = Blocked}
    BY <1>16 DEF Passed
  <2>3. F \cup {t} \in SUBSET Range(sem.queue) /\ Range(m.queue) = Range(sem.queue) \ (F \cup {t})
    BY <2>1 DEF Queue
  <2>4. /\ m \in SemEntries /\ m.id = sem.id /\ m.next_id = sem.next_id /\ IsInjective(m.queue)
    BY <1>6, <1>16 DEF Passed
  <2> HIDE DEF sem
  <2> QED
    BY <2>2, <2>3, <2>4 DEF Passed
<1> QED
  <2>1. Removed(sems[s], t).sem = m /\ Removed(sems[s], t).woken = l.woken
    BY <1>4
  <2>2. Passed(sems[s], m, F \cup {t}, l.woken) /\ t \in F \cup {t}
    BY <1>20
  <2>3. \E G : Passed(sems[s], m, G, l.woken) /\ t \in G
    BY <2>2
  <2> QED
    BY <1>13, <1>16, <1>19, <2>1, <2>3

LEMMA ReturnStep ==
  ASSUME Inv, NEW t \in Threads, acquire_return(t)
  PROVE  Inv'
<1>0. Types /\ pc[t] = "block" /\ wait[t] # Blocked /\ call[t].id \in Nat /\ call[t].count \in Nat
  BY DEF Inv, ThreadInv, acquire_return, thread_is_blocked, Types, Calls
<1>1. PICK s \in Slots : s = SlotOf(call[t].id)
  BY <1>0, NextID
<1>2. sems[s].queue \in Seq(Threads) /\ Holders(s) \in SUBSET Threads /\ sems[s] \in SemEntries
      /\ (Contains(sems[s].queue, t) <=> t \in Queue(s))
  BY <1>0, QueueType, Members DEF Queue
<1>3. /\ freeSems' = freeSems /\ pc' = [pc EXCEPT ![t] = "idle"]
      /\ call' = [call EXCEPT ![t] = NoCall]
  BY DEF acquire_return, Return, Goto
<1>4. t \in Calling /\ balance[s] \in Int
  BY <1>0, <1>1 DEF Calling, Types
<1>5. CASE t \in Queue(s)
  <2> DEFINE r == Removed(sems[s], t)
             m == r.sem
  <2>1. PICK F : Passed(sems[s], m, F, r.woken) /\ t \in F
    BY <1>0, <1>5, Removal
  <2>2. /\ m.net_count \in 0 .. MaxCount
        /\ m.net_count = m.count + Total(Range(m.queue))
        /\ m.net_count + Total(r.woken) = sems[s].net_count
    BY <1>0, <1>5, Removal
  <2>3. wait[t] # B_OK
    BY <1>5 DEF Inv, QueueInv, Blocked, B_OK, B_TIMED_OUT, B_INTERRUPTED
  <2>4. /\ sems' = [sems EXCEPT ![s] = m]
        /\ wait' = [thread_unblock(wait, r.woken, B_OK) EXCEPT ![t] = B_OK]
        /\ balance' = [balance EXCEPT ![s] = balance[s]]
    <3>1. balance' = balance
      BY <2>3 DEF acquire_return
    <3>2. /\ sems' = [sems EXCEPT ![s] = m]
          /\ wait' = [thread_unblock(wait, r.woken, B_OK) EXCEPT ![t] = B_OK]
      BY <1>1, <1>2, <1>5 DEF acquire_return
    <3> QED
      BY <1>0, <3>1, <3>2 DEF Types
  <2> HIDE DEF r
  <2>5. sems[s].id # NONE
    <3>1. sems[s].id = NONE => sems[s].queue = <<>>
      BY DEF Inv, SlotInv
    <3>2. Range(<<>>) = {}
      BY DEF Range
    <3> QED
      BY <1>5, <3>1, <3>2 DEF Queue
  <2>6. balance[s] = m.net_count + (Total(Holders(s) \ {t}) + Total(r.woken))
    <3>1. Holders(s) \ {t} = Holders(s)
      BY <2>3 DEF Holders
    <3>2. /\ sems[s].net_count \in Nat /\ Total(Holders(s)) \in Nat
          /\ balance[s] = sems[s].net_count + Total(Holders(s))
      BY <2>5, UsedCounts
    <3>3. r.woken \in SUBSET Threads /\ m \in SemEntries
      <4>1. Queue(s) \in SUBSET Threads
        BY <1>0, QueueType
      <4> QED
        BY <2>1, <4>1 DEF Passed, Queue
    <3>4. Total(r.woken) \in Nat /\ m.net_count \in Int
      BY <1>0, <3>3, TotalType DEF SemEntries
    <3> DEFINE net == sems[s].net_count
               new == m.net_count
               w == Total(r.woken)
               h == Total(Holders(s))
    <3>5. net \in Nat /\ h \in Nat /\ w \in Nat /\ new \in Int /\ new + w = net
      BY <2>2, <3>2, <3>4
    <3>6. balance[s] = net + h
      BY <3>2
    <3> HIDE DEF net, new, w, h
    <3>7. net + h = new + (h + w)
      BY <3>5
    <3> QED
      BY <3>1, <3>6, <3>7 DEF net, new, w, h
  <2>7. Leaves(t, s, m, F, r.woken, balance[s])
    BY <1>0, <1>1, <1>3, <2>1, <2>2, <2>4, <2>5, <2>6 DEF Leaves
  <2> QED
    BY <1>4, <2>7, LeavePreserves
<1>6. CASE t \notin Queue(s)
  <2> DEFINE b == IF wait[t] = B_OK /\ Valid(call[t].id) THEN balance[s] - call[t].count
                  ELSE balance[s]
  <2>1. b \in Int
    BY <1>0, <1>4
  <2>2. /\ sems' = sems /\ wait' = [thread_unblock(wait, {}, B_OK) EXCEPT ![t] = B_OK]
        /\ balance' = [balance EXCEPT ![s] = b]
    BY <1>0, <1>1, <1>2, <1>6 DEF acquire_return, Types
  <2>3. sems' = [sems EXCEPT ![s] = sems[s]]
    BY <1>0, <2>2 DEF Types
  <2>4. Passed(sems[s], sems[s], {}, {})
    BY <1>2 DEF Passed, Inv, QueueInv
  <2> HIDE DEF b
  <2>5. ASSUME sems[s].id # NONE
        PROVE  /\ sems[s].net_count \in 0 .. MaxCount
               /\ sems[s].net_count = sems[s].count + Total(Range(sems[s].queue))
               /\ b = sems[s].net_count + (Total(Holders(s) \ {t}) + Total({}))
    <3>1. /\ sems[s].net_count \in Nat /\ sems[s].net_count <= MaxCount /\ MaxCount \in Nat
          /\ sems[s].net_count = sems[s].count + Total(Range(sems[s].queue))
          /\ balance[s] = sems[s].net_count + Total(Holders(s)) /\ Total(Holders(s)) \in Nat
      BY <2>5, UsedCounts DEF Queue
    <3>2. Holders(s) \ {t} \in SUBSET Threads /\ t \notin Holders(s) \ {t}
      BY <1>2
    <3>3. Total({}) = 0
      BY TotalNobody
    <3>4. CASE t \in Holders(s)
      <4>1. (Holders(s) \ {t}) \cup {t} = Holders(s)
        BY <3>4
      <4>2. Total(Holders(s)) = Total(Holders(s) \ {t}) + call[t].count
            /\ Total(Holders(s) \ {t}) \in Nat
        BY <1>0, <3>2, <4>1, TotalAdd
      <4>3. b = balance[s] - call[t].count
        BY <1>1, <3>4 DEF b, Holders, Valid
      <4> QED
        BY <1>0, <3>1, <3>3, <4>2, <4>3
    <3>5. CASE t \notin Holders(s)
      <4>1. Holders(s) \ {t} = Holders(s)
        BY <3>5
      <4>2. b = balance[s]
        BY <1>1, <1>4, <3>5 DEF b, Holders, Valid
      <4> QED
        BY <3>1, <3>3, <4>1, <4>2
    <3> QED
      BY <3>4, <3>5
  <2>6. sems[s].id = NONE => sems[s].queue = <<>>
    BY DEF Inv, SlotInv
  <2>7. Leaves(t, s, sems[s], {}, {}, b)
    BY <1>0, <1>1, <1>3, <1>6, <2>2, <2>3, <2>4, <2>5, <2>6 DEF Leaves
  <2> QED
    BY <2>1, <2>7, LeavePreserves
<1> QED
  BY <1>5, <1>6

-----------------------------------------------------------------------------
(* The invariant *)

(* haiku_sem_init() puts every slot into the free list.                    *)
LEMMA InitStep ==
  ASSUME Init
  PROVE  Inv
<1>0. sMaxSems \in Nat \ {0}
  BY SemaphoreConstants
<1>1. <<>> \in Seq(Threads) /\ Range(<<>>) = {} /\ IsInjective(<<>>)
  BY EmptySeq DEF Range, IsInjective
<1>2. \A s \in Slots : s \in Nat /\ SlotOf(s) = s
  BY NextID DEF Slots
<1>3. freeSems \in Seq(Slots) /\ IsInjective(freeSems)
  <2>1. freeSems = [i \in 1 .. sMaxSems |-> i - 1]
    BY DEF Init
  <2>2. \A i \in 1 .. sMaxSems : i - 1 \in Slots
    BY <1>0 DEF Slots
  <2>3. freeSems \in [1 .. sMaxSems -> Slots]
    BY <2>1, <2>2
  <2>4. freeSems \in Seq(Slots)
    BY <1>0, <2>3, IsASeq
  <2>5. IsInjective(freeSems)
    BY <1>0, <2>1 DEF IsInjective
  <2> QED
    BY <2>4, <2>5
<1>4. \A s \in Slots : /\ sems[s].id = NONE /\ sems[s].next_id = s /\ sems[s].queue = <<>>
                       /\ Queue(s) = {}
  BY <1>1 DEF Init, Queue
<1>5. \A t \in Threads : pc[t] = "idle" /\ wait[t] = B_OK /\ call[t] = NoCall
  BY DEF Init
<1>6. Types
  <2>1. sems \in [Slots -> SemEntries]
    BY <1>1, <1>2 DEF Init, SemEntries, SemIDs
  <2>2. call \in [Threads -> Calls]
    BY DEF Init, Calls, NoCall, SemIDs
  <2> QED
    BY <1>3, <2>1, <2>2 DEF Init, Types, Labels, Statuses, WaitStatus
<1>7. \A s \in Slots : SlotInv(s)
  BY <1>2, <1>4, <1>5 DEF SlotInv, Deleters
<1>8. \A t \in Threads : ThreadInv(t) /\ BlockedInv(t)
  BY <1>5 DEF ThreadInv, BlockedInv, Calling, Blocked, B_OK
<1>9. \A s \in Slots : QueueInv(s) /\ CountInv(s) /\ UnitInv(s)
  BY <1>1, <1>4 DEF QueueInv, CountInv, UnitInv
<1> QED
  BY <1>3, <1>6, <1>7, <1>8, <1>9 DEF Inv

LEMMA StutterStep ==
  ASSUME Inv, UNCHANGED vars
  PROVE  Inv'
<1>1. Types /\ UNCHANGED <<sems, freeSems, pc, call, wait, balance>>
  BY DEF Inv, vars
<1>2. Types' /\ CallsKept
  BY <1>1 DEF Types, CallsKept
<1> QED
  BY <1>1, <1>2, CallsPreserve

LEMMA NextStep ==
  ASSUME Inv, [Next]_vars
  PROVE  Inv'
<1>1. CASE UNCHANGED vars
  BY <1>1, StutterStep
<1>2. ASSUME NEW t \in Threads,
             \/ \E count \in InitialCounts : create_sem_etc(t, count)
             \/ free_sem_slot(t) \/ release_other(t) \/ acquire_return(t)
             \/ timeout(t) \/ interrupt(t)
      PROVE  Inv'
  BY <1>2, CreateStep, FreeStep, ReleaseOtherStep, ReturnStep, TimeoutStep, InterruptStep
<1>3. ASSUME NEW t \in Threads, NEW id \in KnownIDs,
             \/ delete_sem(t, id)
             \/ \E status \in {B_OK, B_ERROR} : release_all(t, id, status)
             \/ \E count \in ReleaseCounts, ifWaitingOnly \in BOOLEAN :
                  release_sem_etc(t, id, count, ifWaitingOnly)
      PROVE  Inv'
  BY <1>3, DeleteStep, ReleaseAllStep, ReleaseStep
<1>4. ASSUME NEW t \in Threads, NEW id \in KnownIDs, NEW count \in AcquireCounts,
             \/ acquire_at_once(t, id, count)
             \/ \E other \in KnownIDs : acquire_interrupted(t, id, count, other)
             \/ \E other \in KnownIDs \cup {NONE} : acquire_enqueue(t, id, count, other)
      PROVE  Inv'
  BY <1>4, AcquireStep, InterruptedStep, EnqueueStep
<1> QED
  BY <1>1, <1>2, <1>3, <1>4 DEF Next

(* Every semaphore and every thread is as Inv says, at all times.          *)
THEOREM SemaphoreInvariant == Spec => []Inv
<1>1. Init => Inv
  BY InitStep
<1>2. Inv /\ [Next]_vars => Inv'
  BY NextStep
<1> QED
  BY <1>1, <1>2, PTL DEF Spec

(* net_count is "count + acquisition count of all blocked threads" (struct *)
(* sem_entry), and neither negative nor beyond the bound on releases.      *)
THEOREM NetCountExact == Spec => []NetCount
<1>1. ASSUME Inv, NEW s \in UsedSlots
      PROVE  /\ sems[s].net_count \in 0 .. MaxCount
             /\ sems[s].net_count = sems[s].count + Total(ToSet(sems[s].queue))
  <2>1. s \in Slots /\ sems[s].id # NONE
    BY DEF UsedSlots
  <2>2. ToSet(sems[s].queue) = Queue(s)
    BY <1>1, <2>1, QueueType, Members DEF Inv, Queue
  <2> QED
    BY <1>1, <2>1, <2>2 DEF Inv, CountInv
<1>2. Inv => NetCount
  BY <1>1 DEF NetCount
<1> QED
  BY <1>2, SemaphoreInvariant, PTL

(* No interleaving of releases, timeouts, interruptions and removals from  *)
(* the queue loses a unit of a semaphore, or makes one up: release_all()   *)
(* with an error gives nothing away, and a failed acquisition keeps        *)
(* nothing.                                                                *)
THEOREM NoUnitLost == Spec => []UnitsConserved
<1>1. Inv => UnitsConserved
  BY DEF Inv, UnitInv, UnitsConserved, UsedSlots, Holders
<1> QED
  BY <1>1, SemaphoreInvariant, PTL

(* delete_sem() and the reuse of a slot leave nobody behind: a thread that *)
(* is blocked is in the queue of the semaphore it waits for, which exists, *)
(* and no queue holds a thread that waits for another semaphore.           *)
THEOREM NobodyOrphaned == Spec => []NoOrphanedWaiter
<1>1. ASSUME Inv, NEW t \in Calling, thread_is_blocked(wait, t)
      PROVE  Valid(call[t].id) /\ Contains(sems[SlotOf(call[t].id)].queue, t)
  <2>1. t \in Threads /\ wait[t] = Blocked
    BY <1>1 DEF Calling, thread_is_blocked
  <2>2. Valid(call[t].id) /\ t \in Queue(SlotOf(call[t].id)) /\ call[t].id \in Nat
    BY <1>1, <2>1 DEF Inv, BlockedInv, ThreadInv, Calling
  <2>3. SlotOf(call[t].id) \in Slots
    BY <2>2, NextID
  <2> QED
    BY <1>1, <2>2, <2>3, QueueType, Members DEF Inv, Queue
<1>2. ASSUME Inv, NEW s \in Slots, NEW t \in ToSet(sems[s].queue)
      PROVE  call[t].id = sems[s].id
  <2>1. ToSet(sems[s].queue) = Queue(s)
    BY <1>2, QueueType, Members DEF Inv, Queue
  <2> QED
    BY <1>2, <2>1 DEF Inv, QueueInv
<1>3. Inv => NoOrphanedWaiter
  BY <1>1, <1>2 DEF NoOrphanedWaiter
<1> QED
  BY <1>3, SemaphoreInvariant, PTL

(* Only the return from thread_block() ends a call.                        *)
LEMMA OnlyReturnEnds ==
  ASSUME Inv, Next, NEW t \in Threads, pc[t] = "block", pc'[t] = "idle"
  PROVE  acquire_return(t)
<1>0. Types
  BY DEF Inv
<1>1. ASSUME NEW u \in Threads,
             \/ \E count \in InitialCounts : create_sem_etc(u, count)
             \/ timeout(u) \/ interrupt(u)
             \/ \E id \in KnownIDs :
                  \/ \E status \in {B_OK, B_ERROR} : release_all(u, id, status)
                  \/ \E count \in ReleaseCounts, ifWaitingOnly \in BOOLEAN :
                       release_sem_etc(u, id, count, ifWaitingOnly)
                  \/ \E count \in AcquireCounts :
                       \/ acquire_at_once(u, id, count)
                       \/ \E other \in KnownIDs : acquire_interrupted(u, id, count, other)
      PROVE  pc' = pc
  BY <1>1 DEF create_sem_etc, timeout, interrupt, release_all, release_sem_etc,
              acquire_at_once, acquire_interrupted
<1>2. ASSUME NEW u \in Threads,
             \/ free_sem_slot(u) \/ release_other(u)
             \/ \E id \in KnownIDs :
                  \/ delete_sem(u, id)
                  \/ \E count \in AcquireCounts, other \in KnownIDs \cup {NONE} :
                       acquire_enqueue(u, id, count, other)
      PROVE  /\ pc[u] # "block" \/ pc'[u] # "idle"
             /\ \A v \in Threads \ {u} : pc'[v] = pc[v]
  BY <1>0, <1>2 DEF free_sem_slot, release_other, delete_sem, acquire_enqueue, Return, Goto, Types
<1>3. ASSUME NEW u \in Threads, acquire_return(u)
      PROVE  \A v \in Threads \ {u} : pc'[v] = pc[v]
  BY <1>0, <1>3 DEF acquire_return, Return, Goto, Types
<1> QED
  BY <1>1, <1>2, <1>3 DEF Next

(* remove_thread_from_sem(): a thread that times out or is interrupted     *)
(* while it is in the queue leaves nobody blocked at the head of the queue *)
(* who could go on.                                                        *)
THEOREM RemovalWakes == Spec => FailedAcquisitionWakes
<1>1. ASSUME Inv, Next, NEW t \in Threads, NEW s \in Slots, pc[t] = "block", pc'[t] = "idle",
             Contains(sems[s].queue, t)
      PROVE  HeadMustWait(s)'
  <2>0. Types /\ acquire_return(t) /\ wait[t] # Blocked
    BY <1>1, OnlyReturnEnds DEF Inv, acquire_return, thread_is_blocked
  <2>1. t \in Queue(s) /\ sems[s] \in SemEntries /\ Queue(s) \in SUBSET Threads
    BY <1>1, <2>0, QueueType, Members DEF Queue
  <2>2. SlotOf(call[t].id) = s
    <3>1. sems[s].id = NONE => sems[s].queue = <<>>
      BY <1>1 DEF Inv, SlotInv
    <3>2. Range(<<>>) = {}
      BY DEF Range
    <3>3. sems[s].id # NONE
      BY <2>1, <3>1, <3>2 DEF Queue
    <3>4. call[t].id = sems[s].id
      BY <1>1, <2>1 DEF Inv, QueueInv
    <3> QED
      BY <1>1, <3>3, <3>4, UsedSlot
  <2> DEFINE m == Removed(sems[s], t).sem
  <2>3. /\ sems' = [sems EXCEPT ![s] = m] /\ call' = [call EXCEPT ![t] = NoCall]
    BY <1>1, <2>0, <2>2 DEF acquire_return, Return
  <2>4. PICK F : Passed(sems[s], m, F, Removed(sems[s], t).woken) /\ t \in F
    BY <1>1, <2>0, <2>1, Removal
  <2>5. m.queue # <<>> => /\ wait[Head(m.queue)] = Blocked
                          /\ call[Head(m.queue)].count > m.net_count
    BY <1>1, <2>0, <2>1, Removal
  <2> HIDE DEF m
  <2>6. sems'[s] = m
    BY <2>0, <2>3 DEF Types
  <2>7. m.queue \in Seq(Threads) /\ t \notin Range(m.queue) /\ Range(m.queue) \subseteq Threads
    BY <2>1, <2>4 DEF Passed, SemEntries, Queue
  <2>8. ASSUME m.queue # <<>> PROVE call'[Head(m.queue)].count > m.net_count
    <3>1. Head(m.queue) \in Range(m.queue)
      BY <2>7, <2>8, TailMembers
    <3>2. call'[Head(m.queue)] = call[Head(m.queue)]
      BY <2>0, <2>3, <2>7, <3>1 DEF Types
    <3> QED
      BY <2>5, <2>8, <3>2
  <2> QED
    BY <2>6, <2>8 DEF HeadMustWait, CountOf
<1>2. Inv /\ [Next]_vars
        => [\A t \in Threads, s \in Slots :
              pc[t] = "block" /\ pc'[t] = "idle" /\ Contains(sems[s].queue, t)
                => HeadMustWait(s)']_vars
  BY <1>1
<1> QED
  BY <1>2, SemaphoreInvariant, PTL DEF Spec, FailedAcquisitionWakes

=============================================================================
