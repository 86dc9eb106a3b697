--------------------------- MODULE UserMutexProofs ---------------------------
(***************************************************************************)
(* Proofs about UserMutex, for any number of threads and of entries: the   *)
(* table hands out one live entry per address, a mutex and the units of a  *)
(* semaphore are neither lost nor duplicated, and no waiter is forgotten.  *)
(***************************************************************************)
EXTENDS UserMutex, QueueLemmas

Words == {MUTEX, COND}
WaitOps == {"lock", "relock", "cond_wait", "sem_wait"}
UnblockOps == {"unlock", "cond_wait", "signal", "broadcast"}
Ops == WaitOps \cup UnblockOps \cup {NULL, "sem_post"}
Errors == {B_TIMED_OUT, B_INTERRUPTED}
Labels == {"idle", "critical", "get", "prepare", "add", "clear", "switch", "wait",
           "leave", "check_waiting", "put", "unblock_get", "unblock", "notify",
           "no_waiter", "finish", "get_to_post", "sem_release"}

(* user_mutex_switch_lock() after it has begun to wait for the condition   *)
(* variable, and before it blocks                                          *)
SwitchLabels == {"switch", "unblock_get", "unblock", "notify", "no_waiter", "finish"}

Calls == [op : Ops, status : {NULL, B_OK} \cup Errors,
          ptr : [Addresses -> Entries \cup {NULL}],
          dying : {<<>>} \cup (Addresses \X Entries), seen : SUBSET Threads]

Types ==
  /\ word \in [Words -> SUBSET {LOCKED, WAITING}]
  /\ sem \in Int /\ sem >= -1
  /\ balance \in 0 .. MaxUnits
  /\ waiter_count \in Int
  /\ table \in [Addresses -> Entries \cup {NULL}]
  /\ ref_count \in [Entries -> 0 .. Cardinality(Threads)]
  /\ queue \in [Entries -> Seq(Threads)]
  /\ pc \in [Threads -> Labels]
  /\ call \in [Threads -> Calls]

(* What the label of a thread says of its call: what it does, how its wait *)
(* ended, and which entries it holds a reference to                        *)
Local(t) ==
  /\ pc[t] \in {"idle", "critical"} <=> call[t].op = NULL
  /\ pc[t] \in {"idle", "critical", "get", "get_to_post"} => Held(t) = {}
  /\ pc[t] \in {"get", "prepare", "add", "wait"} =>
       call[t].op \in WaitOps /\ call[t].status = NULL
  /\ pc[t] \in {"prepare", "add", "clear", "wait", "leave", "check_waiting"} =>
       Target(t) \in Held(t)
  /\ pc[t] = "clear" => call[t].op \in {"lock", "relock", "cond_wait"}
  /\ pc[t] = "clear" \/ (pc[t] = "put" /\ call[t].op \in WaitOps) => call[t].status # NULL
  /\ pc[t] = "leave" => call[t].op \in WaitOps
  /\ pc[t] \in {"leave", "check_waiting"} => call[t].status \in Errors
  /\ pc[t] = "check_waiting" => call[t].op \in {"lock", "relock"}
  /\ pc[t] = "switch" => call[t].op = "cond_wait"
  /\ call[t].op = "cond_wait" /\ pc[t] \in SwitchLabels \cup {"clear"} =>
       call[t].status \in {NULL, B_OK} /\ COND \in Held(t)
  /\ pc[t] = "clear" /\ call[t].op = "cond_wait" => call[t].status = B_OK
  /\ call[t].op = "cond_wait" /\
       pc[t] \in {"prepare", "add", "clear", "switch", "unblock_get"} => MUTEX \notin Held(t)
  /\ pc[t] \in {"unblock_get", "unblock", "notify"} => call[t].op \in UnblockOps
  /\ pc[t] = "unblock_get" /\ call[t].op # "cond_wait" => Held(t) = {}
  /\ pc[t] \in {"no_waiter", "finish"} => call[t].op \in UnblockOps \cup {"sem_post"}
  /\ pc[t] \in {"get_to_post", "sem_release"} => call[t].op = "sem_post"
  /\ pc[t] \in {"unblock", "notify", "no_waiter", "finish", "sem_release"} =>
       Unblocked(t) \in Held(t)
  /\ call[t].op \in {"unlock", "signal", "broadcast", "sem_post"} => call[t].status = NULL

(* The queue of an entry holds those who wait for its address, once each.  *)
QueueInv(e) ==
  /\ IsInjective(queue[e])
  /\ \A t \in Range(queue[e]) :
       /\ Entry(t, Target(t)) = e /\ call[t].op \in WaitOps
       /\ call[t].status # B_OK
       /\ \/ pc[t] \in {"wait", "leave"}
          \/ call[t].op = "cond_wait" /\ pc[t] \in SwitchLabels

(* The references to the entry of an address *)
Referrers(a) == {t \in Threads : Entry(t, a) # NULL}

TableInv ==
  /\ \A t \in Threads, a \in Addresses : Entry(t, a) # NULL => table[a] = Entry(t, a)
  /\ \A a \in Addresses : table[a] # NULL =>
       ref_count[table[a]] = Cardinality(Referrers(a))
  /\ \A a, b \in Addresses : table[a] = table[b] /\ table[a] # NULL => a = b

(* The rw_lock of an entry, and what its writer finds *)
WriterInv(e) ==
  /\ \A t, u \in Writers(e) : t = u
  /\ Writers(e) # {} => Readers(e) = {}
  /\ \A t \in Writers(e) : pc[t] = "no_waiter" => queue[e] = <<>>

(* The mutex is with one thread at most, and with one if it is locked.     *)
Owners == MutexHolders \cup HandedOff
MutexInv ==
  /\ \A t, u \in Owners : t = u
  /\ MutexHolders \cap HandedOff = {}
  /\ LOCKED \in word[MUTEX] <=> Owners # {}

SemHolders == {t \in Threads : call[t].op = "sem_wait" /\ Acquired(t)}
SemInv ==
  balance = (IF sem > 0 THEN sem ELSE 0) + Cardinality(UnitsBeingPosted)
              + Cardinality(SemHolders)

CondUsers == {t \in Threads : call[t].op \in {"cond_wait", "relock"}}
CondInv == waiter_count = Cardinality(CondUsers)

(* A thread that sleeps, or will once it has added itself to the queue,    *)
(* has said so in the word, and somebody will unblock it.                  *)
Waits(t) == pc[t] = "add" \/ (Queued(t) /\ pc[t] # "leave")
Unblockers == {u \in Threads : Unblocked(u) = MUTEX /\ pc[u] \in {"unblock_get", "unblock"}}
WaitInv(t) ==
  Waits(t) =>
    /\ Target(t) = SEM => sem = -1
    /\ Target(t) # SEM => WAITING \in word[Target(t)]
    /\ Target(t) = MUTEX => LOCKED \in word[MUTEX] \/ Unblockers # {}

Inv ==
  /\ Types
  /\ \A t \in Threads : Local(t)
  /\ \A e \in Entries : QueueInv(e)
  /\ TableInv
  /\ \A e \in Entries : WriterInv(e)
  /\ MutexInv
  /\ SemInv
  /\ CondInv
  /\ \A t \in Threads : WaitInv(t)

-----------------------------------------------------------------------------
(* Records *)

(* A call changes its status ... *)
LEMMA StatusCall ==
  ASSUME Types, NEW t \in Threads, NEW s \in {NULL, B_OK} \cup Errors,
         call' = [call EXCEPT ![t].status = s]
  PROVE  /\ call' \in [Threads -> Calls]
         /\ \A u \in Threads : u # t => call'[u] = call[u]
         /\ call'[t].op = call[t].op /\ call'[t].status = s /\ call'[t].ptr = call[t].ptr
<1>1. call[t] \in Calls /\ call \in [Threads -> Calls]
  BY DEF Types
<1>2. [call[t] EXCEPT !.status = s] \in Calls
  BY <1>1 DEF Calls
<1>3. call' = [call EXCEPT ![t] = [call[t] EXCEPT !.status = s]]
  OBVIOUS
<1>4. call'[t] = [call[t] EXCEPT !.status = s]
  BY <1>1, <1>3
<1> QED
  BY <1>1, <1>2, <1>3, <1>4 DEF Calls

(* ... begins, in user space ... *)
LEMMA EnterCall ==
  ASSUME Types, NEW t \in Threads, NEW op \in Ops, NEW s \in {NULL, B_OK},
         NEW seen \in SUBSET Threads, NEW c, c.op = op, c.status = s, c.ptr = NoPtr,
         c = [op |-> op, status |-> s, ptr |-> NoPtr, dying |-> <<>>, seen |-> seen],
         call' = [call EXCEPT ![t] = c]
  PROVE  /\ call' \in [Threads -> Calls]
         /\ \A u \in Threads : u # t => call'[u] = call[u]
         /\ call'[t].op = op /\ call'[t].status = s /\ call'[t].ptr = NoPtr
         /\ Held(t)' = {}
<1>1. c \in Calls
  BY DEF Calls, NoPtr
<1>2. call'[t] = c
  BY DEF Types
<1>3. Held(t)' = {}
  BY <1>2 DEF Held, Entry, NoPtr
<1> QED
  BY <1>1, <1>2, <1>3 DEF Types

(* ... or gets ...                                                         *)
LEMMA GetCall ==
  ASSUME Types, NEW t \in Threads, NEW p \in [Addresses -> Entries \cup {NULL}],
         call' = [call EXCEPT ![t].ptr = p]
  PROVE  /\ call' \in [Threads -> Calls]
         /\ \A u \in Threads : u # t => call'[u] = call[u]
         /\ call'[t].op = call[t].op /\ call'[t].status = call[t].status
         /\ call'[t].ptr = p /\ call'[t].seen = call[t].seen
<1>1. call[t] \in Calls /\ call \in [Threads -> Calls]
  BY DEF Types
<1>2. [call[t] EXCEPT !.ptr = p] \in Calls
  BY <1>1 DEF Calls
<1>3. call' = [call EXCEPT ![t] = [call[t] EXCEPT !.ptr = p]]
  OBVIOUS
<1>4. call'[t] = [call[t] EXCEPT !.ptr = p]
  BY <1>1, <1>3
<1> QED
  BY <1>1, <1>2, <1>3, <1>4 DEF Calls

(* ... or puts a reference.                                                *)
LEMMA PutCall ==
  ASSUME Types, NEW t \in Threads, NEW p \in [Addresses -> Entries \cup {NULL}],
         NEW d \in {<<>>} \cup (Addresses \X Entries),
         call' = [call EXCEPT ![t].ptr = p, ![t].dying = d]
  PROVE  /\ call' \in [Threads -> Calls]
         /\ \A u \in Threads : u # t => call'[u] = call[u]
         /\ call'[t].op = call[t].op /\ call'[t].status = call[t].status
         /\ call'[t].ptr = p /\ call'[t].seen = call[t].seen
<1>1. call[t] \in Calls /\ call \in [Threads -> Calls]
  BY DEF Types
<1>2. [call[t] EXCEPT !.ptr = p, !.dying = d] \in Calls
  BY <1>1 DEF Calls
<1>3. call' = [call EXCEPT ![t] = [call[t] EXCEPT !.ptr = p, !.dying = d]]
  BY <1>1
<1>4. call'[t] = [call[t] EXCEPT !.ptr = p, !.dying = d]
  BY <1>1, <1>3
<1> QED
  BY <1>1, <1>2, <1>3, <1>4 DEF Calls

USE DEF NULL, B_OK, B_TIMED_OUT, B_INTERRUPTED, LOCKED, WAITING, MUTEX, COND, SEM

-----------------------------------------------------------------------------
(* The step of one thread *)

(* Nothing happens to the other threads. *)
Alone(t) ==
  \A u \in Threads : u # t =>
    /\ pc'[u] = pc[u] /\ call'[u] = call[u]
    /\ \A e \in Entries : u \in Range(queue'[e]) <=> u \in Range(queue[e])

(* What a thread is, for the others, depends on its pc, its call and the   *)
(* queues.                                                                 *)
LEMMA RolesOfOthers ==
  ASSUME NEW t \in Threads, Alone(t), NEW u \in Threads, u # t
  PROVE  /\ pc'[u] = pc[u] /\ call'[u] = call[u]
         /\ Target(u)' = Target(u) /\ Unblocked(u)' = Unblocked(u)
         /\ \A a \in Addresses : Entry(u, a)' = Entry(u, a)
         /\ Held(u)' = Held(u)
         /\ Queued(u)' <=> Queued(u)
         /\ u \in MutexHolders' <=> u \in MutexHolders
         /\ u \in HandedOff' <=> u \in HandedOff
         /\ u \in UnitsBeingPosted' <=> u \in UnitsBeingPosted
         /\ u \in SemHolders' <=> u \in SemHolders
         /\ u \in CondUsers' <=> u \in CondUsers
         /\ u \in Unblockers' <=> u \in Unblockers
         /\ Waits(u)' <=> Waits(u)
         /\ \A e \in Entries : /\ u \in Writers(e)' <=> u \in Writers(e)
                               /\ u \in Readers(e)' <=> u \in Readers(e)
<1>1. pc'[u] = pc[u] /\ call'[u] = call[u]
  BY DEF Alone
<1>2. Queued(u)' <=> Queued(u)
  BY DEF Alone, Queued
<1>3. /\ Target(u)' = Target(u) /\ Unblocked(u)' = Unblocked(u)
      /\ \A a : Entry(u, a)' = Entry(u, a)
      /\ Acquired(u)' <=> Acquired(u)
  BY <1>1, <1>2 DEF Target, Unblocked, Entry, Acquired
<1>4. Held(u)' = Held(u) /\ (Waits(u)' <=> Waits(u))
  BY <1>1, <1>2, <1>3 DEF Held, Waits
<1>5. /\ u \in MutexHolders' <=> u \in MutexHolders
      /\ u \in SemHolders' <=> u \in SemHolders
  BY <1>1, <1>3 DEF MutexHolders, SemHolders
<1>6. /\ u \in HandedOff' <=> u \in HandedOff
      /\ u \in UnitsBeingPosted' <=> u \in UnitsBeingPosted
      /\ u \in CondUsers' <=> u \in CondUsers
      /\ u \in Unblockers' <=> u \in Unblockers
  BY <1>1, <1>3 DEF HandedOff, UnitsBeingPosted, CondUsers, Unblockers
<1>7. \A e \in Entries : /\ u \in Writers(e)' <=> u \in Writers(e)
                         /\ u \in Readers(e)' <=> u \in Readers(e)
  <2>1. Entry(u, Target(u))' = Entry(u, Target(u)) /\ Entry(u, Unblocked(u))' = Entry(u, Unblocked(u))
    BY <1>1, <1>3 DEF Entry
  <2> QED
    BY <1>1, <2>1 DEF Writers, Readers
<1> QED
  BY <1>1, <1>2, <1>3, <1>4, <1>5, <1>6, <1>7

(* The size of a set in which only t may come or go                        *)
In(t, S) == IF t \in S THEN 1 ELSE 0
LEMMA CardinalityChange ==
  ASSUME NEW S \in SUBSET Threads, NEW T \in SUBSET Threads, NEW t \in Threads,
         \A u \in Threads : u # t => (u \in T <=> u \in S)
  PROVE  /\ Cardinality(S) \in Nat /\ Cardinality(T) \in Nat
         /\ Cardinality(T) = Cardinality(S) - In(t, S) + In(t, T)
         /\ Cardinality(S) >= In(t, S) /\ Cardinality(T) >= In(t, T)
<1>1. IsFiniteSet(S) /\ IsFiniteSet(T)
  BY UserMutexConstants, FS_Subset
<1>2. Cardinality(S) \in Nat /\ Cardinality(T) \in Nat
  BY <1>1, FS_CardinalityType
<1>4. Cardinality(S \ {t}) \in Nat /\ Cardinality(T \ {t}) \in Nat
  BY <1>1, FS_Subset, FS_CardinalityType
<1>5. S \ {t} = T \ {t}
  OBVIOUS
<1>7. /\ Cardinality(S) = Cardinality(S \ {t}) + In(t, S)
      /\ Cardinality(T) = Cardinality(T \ {t}) + In(t, T)
  <2>1. ASSUME NEW R, IsFiniteSet(R)
        PROVE  Cardinality(R) = Cardinality(R \ {t}) + In(t, R)
    <3>0. Cardinality(R) \in Nat
      BY <2>1, FS_CardinalityType
    <3>1. CASE t \in R
      <4>1. Cardinality(R \ {t}) = Cardinality(R) - 1
        BY <2>1, <3>1, FS_RemoveElement
      <4> QED
        BY <3>0, <3>1, <4>1 DEF In
    <3>2. CASE t \notin R
      <4>1. R \ {t} = R
        BY <3>2
      <4> QED
        BY <3>0, <3>2, <4>1 DEF In
    <3> QED
      BY <3>1, <3>2
  <2> QED
    BY <1>1, <2>1
<1>8. In(t, S) \in 0 .. 1 /\ In(t, T) \in 0 .. 1
  BY DEF In
<1> QED
  BY <1>2, <1>4, <1>5, <1>7, <1>8

-----------------------------------------------------------------------------
(* The parts of the invariant, through the step of one thread *)

(* The mutex stays where it is, or t takes it, or t gives it up.           *)
LEMMA MutexPart ==
  ASSUME MutexInv, NEW t \in Threads, Alone(t),
         \/ /\ t \in MutexHolders' <=> t \in MutexHolders
            /\ t \in HandedOff' <=> t \in HandedOff
            /\ LOCKED \in word'[MUTEX] <=> LOCKED \in word[MUTEX]
         \/ /\ LOCKED \notin word[MUTEX] /\ LOCKED \in word'[MUTEX]
            /\ t \in MutexHolders' <=> t \notin HandedOff'
         \/ /\ LOCKED \notin word'[MUTEX]
            /\ t \in Owners /\ t \notin MutexHolders' /\ t \notin HandedOff'
  PROVE  MutexInv'
<1>1. \A u \in Threads : u # t => /\ u \in MutexHolders' <=> u \in MutexHolders
                                  /\ u \in HandedOff' <=> u \in HandedOff
  BY RolesOfOthers
<1>2. /\ MutexHolders \subseteq Threads /\ HandedOff \subseteq Threads
      /\ MutexHolders' \subseteq Threads /\ HandedOff' \subseteq Threads
  BY DEF MutexHolders, HandedOff
<1> QED
  BY <1>1, <1>2 DEF MutexInv, Owners

(* The units of the semaphore                                              *)
Value(n) == IF n > 0 THEN n ELSE 0
LEMMA SemPart ==
  ASSUME Types, SemInv, NEW t \in Threads, Alone(t), sem' \in Int, balance' \in Int,
         balance' - Value(sem') - In(t, UnitsBeingPosted') - In(t, SemHolders')
           = balance - Value(sem) - In(t, UnitsBeingPosted) - In(t, SemHolders)
  PROVE  SemInv'
<1>0. sem \in Int /\ balance \in Int
  BY DEF Types
<1>1. \A u \in Threads : u # t => /\ u \in UnitsBeingPosted' <=> u \in UnitsBeingPosted
                                  /\ u \in SemHolders' <=> u \in SemHolders
  BY RolesOfOthers
<1>2. /\ UnitsBeingPosted \in SUBSET Threads /\ SemHolders \in SUBSET Threads
      /\ UnitsBeingPosted' \in SUBSET Threads /\ SemHolders' \in SUBSET Threads
  BY DEF UnitsBeingPosted, SemHolders
<1>3. /\ Cardinality(UnitsBeingPosted) \in Nat /\ Cardinality(UnitsBeingPosted') \in Nat
      /\ Cardinality(UnitsBeingPosted')
           = Cardinality(UnitsBeingPosted) - In(t, UnitsBeingPosted) + In(t, UnitsBeingPosted')
  BY <1>1, <1>2, CardinalityChange
<1>4. /\ Cardinality(SemHolders) \in Nat /\ Cardinality(SemHolders') \in Nat
      /\ Cardinality(SemHolders')
           = Cardinality(SemHolders) - In(t, SemHolders) + In(t, SemHolders')
  BY <1>1, <1>2, CardinalityChange
<1>5. /\ In(t, SemHolders) \in Int /\ In(t, SemHolders') \in Int
      /\ In(t, UnitsBeingPosted) \in Int /\ In(t, UnitsBeingPosted') \in Int
      /\ Value(sem) \in Int /\ Value(sem') \in Int
  BY <1>0 DEF In, Value
<1>6. balance = Value(sem) + Cardinality(UnitsBeingPosted) + Cardinality(SemHolders)
  BY DEF SemInv, Value
<1>7. balance' = Value(sem') + Cardinality(UnitsBeingPosted') + Cardinality(SemHolders')
  BY <1>0, <1>3, <1>4, <1>6 DEF In, Value
<1> QED
  BY <1>7 DEF SemInv, Value

(* waiter_count of the condition variable                                  *)
LEMMA CondPart ==
  ASSUME Types, CondInv, NEW t \in Threads, Alone(t), waiter_count' \in Int,
         waiter_count' - In(t, CondUsers') = waiter_count - In(t, CondUsers)
  PROVE  CondInv'
<1>1. \A u \in Threads : u # t => (u \in CondUsers' <=> u \in CondUsers)
  BY RolesOfOthers
<1>2. CondUsers \in SUBSET Threads /\ CondUsers' \in SUBSET Threads
  BY DEF CondUsers
<1>3. /\ Cardinality(CondUsers) \in Nat /\ Cardinality(CondUsers') \in Nat
      /\ Cardinality(CondUsers') = Cardinality(CondUsers) - In(t, CondUsers) + In(t, CondUsers')
  BY <1>1, <1>2, CardinalityChange
<1>4. In(t, CondUsers) \in Int /\ In(t, CondUsers') \in Int /\ waiter_count \in Int
  BY DEF In, Types
<1> QED
  BY <1>3, <1>4 DEF CondInv

(* The queues                                                              *)
LEMMA QueuePart ==
  ASSUME \A e \in Entries : QueueInv(e), NEW t \in Threads, Alone(t), Types',
         \A e \in Entries :
           /\ IsInjective(queue'[e])
           /\ t \in Range(queue'[e]) =>
                /\ Entry(t, Target(t))' = e /\ call'[t].op \in WaitOps
                /\ call'[t].status # B_OK
                /\ \/ pc'[t] \in {"wait", "leave"}
                   \/ call'[t].op = "cond_wait" /\ pc'[t] \in SwitchLabels
  PROVE  \A e \in Entries : QueueInv(e)'
<1> SUFFICES ASSUME NEW e \in Entries PROVE QueueInv(e)'
  OBVIOUS
<1>1. Range(queue'[e]) \subseteq Threads
  <2>1. queue'[e] \in Seq(Threads)
    BY DEF Types
  <2> QED
    BY <2>1, RangeOfSeq
<1>2. ASSUME NEW u \in Range(queue'[e]), u # t
      PROVE  /\ Entry(u, Target(u))' = e /\ call'[u].op \in WaitOps
             /\ call'[u].status # B_OK
             /\ \/ pc'[u] \in {"wait", "leave"}
                \/ call'[u].op = "cond_wait" /\ pc'[u] \in SwitchLabels
  <2>1. u \in Threads /\ u \in Range(queue[e]) /\ pc'[u] = pc[u] /\ call'[u] = call[u]
    BY <1>1, <1>2 DEF Alone
  <2>2. Entry(u, Target(u))' = Entry(u, Target(u))
    BY <2>1 DEF Entry, Target
  <2> QED
    BY <2>1, <2>2 DEF QueueInv
<1> QED
  BY <1>2 DEF QueueInv

(* The table, if no reference is got or put                                *)
LEMMA TableFrame ==
  ASSUME TableInv, NEW t \in Threads, Alone(t), UNCHANGED <<table, ref_count>>,
         \A a \in Addresses : Entry(t, a)' = Entry(t, a)
  PROVE  TableInv'
<1>1. \A u \in Threads, a \in Addresses : Entry(u, a)' = Entry(u, a)
  BY RolesOfOthers
<1>2. \A a \in Addresses : Referrers(a)' = Referrers(a)
  BY <1>1 DEF Referrers
<1> QED
  BY <1>1, <1>2 DEF TableInv

(* The rw_locks of the entries                                             *)
LEMMA WriterPart ==
  ASSUME NEW e \in Entries, WriterInv(e), NEW t \in Threads, Alone(t),
         t \in Writers(e)' => t \in Writers(e) \/ WriteLockable(e),
         t \in Readers(e)' => t \in Readers(e) \/ ReadLockable(e),
         pc'[t] = "no_waiter" /\ t \in Writers(e)' => queue'[e] = <<>>,
         queue[e] = <<>> /\ (Writers(e) \ {t} # {}) => queue'[e] = <<>>
  PROVE  WriterInv(e)'
<1>1. \A u \in Threads : u # t => /\ u \in Writers(e)' <=> u \in Writers(e)
                                  /\ u \in Readers(e)' <=> u \in Readers(e)
                                  /\ pc'[u] = pc[u]
  BY RolesOfOthers
<1>2. /\ Writers(e) \subseteq Threads /\ Readers(e) \subseteq Threads
      /\ Writers(e)' \subseteq Threads /\ Readers(e)' \subseteq Threads
      /\ t \notin Writers(e)' \/ t \notin Readers(e)'
  BY DEF Writers, Readers
<1> QED
  BY <1>1, <1>2 DEF WriterInv, WriteLockable, ReadLockable

(* Those who wait for an address                                           *)
Waiters(a) == {u \in Threads : Waits(u) /\ Target(u) = a}

(* A waiter keeps the entry of its address in the table.                   *)
LEMMA WaitersHaveEntry ==
  ASSUME Inv, NEW u \in Threads, Waits(u)
  PROVE  LET e == table[Target(u)] IN
         /\ Target(u) \in Addresses /\ e \in Entries /\ e # NULL
         /\ Entry(u, Target(u)) = e
         /\ pc[u] = "add" => u \in Readers(e)
         /\ pc[u] # "add" => u \in Range(queue[e])
<1>0. Target(u) \in Addresses /\ NULL \notin Entries
  BY UserMutexConstants DEF Target, Addresses
<1>1. CASE pc[u] = "add"
  <2>1. Target(u) \in Held(u)
    BY <1>1 DEF Inv, Local
  <2>2. Entry(u, Target(u)) = table[Target(u)] /\ table[Target(u)] # NULL
    BY <1>0, <2>1 DEF Inv, TableInv, Held
  <2>3. table[Target(u)] \in Entries
    BY <1>0, <2>2 DEF Inv, Types
  <2> QED
    BY <1>0, <1>1, <2>2, <2>3 DEF Readers
<1>2. CASE pc[u] # "add"
  <2>1. PICK e \in Entries : u \in Range(queue[e])
    BY <1>2 DEF Waits, Queued
  <2>2. Entry(u, Target(u)) = e /\ e # NULL
    BY <1>0, <2>1 DEF Inv, QueueInv
  <2>3. table[Target(u)] = e
    BY <1>0, <2>2 DEF Inv, TableInv
  <2> QED
    BY <1>0, <1>2, <2>1, <2>2, <2>3
<1> QED
  BY <1>1, <1>2

(* With the write lock and an empty queue nobody waits.                    *)
LEMMA NobodyWaiting ==
  ASSUME Inv, NEW a \in Addresses,
         table[a] = NULL \/ (queue[table[a]] = <<>> /\ Readers(table[a]) = {})
  PROVE  Waiters(a) = {}
<1> SUFFICES ASSUME NEW u \in Threads, Waits(u), Target(u) = a
             PROVE  FALSE
  BY DEF Waiters
<1>1. Range(<<>>) = {}
  BY DEF Range
<1> QED
  BY <1>1, WaitersHaveEntry

(* The promise made to waiters                                             *)
LEMMA WaitPart ==
  ASSUME \A u \in Threads : WaitInv(u), NEW t \in Threads, Alone(t), WaitInv(t)',
         sem = -1 => sem' = -1 \/ Waiters(SEM) \subseteq {t},
         \A a \in Words : WAITING \in word[a] =>
           WAITING \in word'[a] \/ Waiters(a) \subseteq {t},
         LOCKED \in word[MUTEX] \/ Unblockers # {} =>
           LOCKED \in word'[MUTEX] \/ Unblockers' # {} \/ Waiters(MUTEX) \subseteq {t}
  PROVE  \A u \in Threads : WaitInv(u)'
<1> SUFFICES ASSUME NEW u \in Threads, u # t, Waits(u)'
             PROVE  WaitInv(u)'
  BY DEF WaitInv
<1>1. Waits(u) /\ Target(u)' = Target(u)
  BY RolesOfOthers
<1>2. u \in Waiters(Target(u))
  BY <1>1 DEF Waiters
<1>3. Target(u) \in {SEM} \cup Words
  BY DEF Target, Words
<1> QED
  BY <1>1, <1>2, <1>3 DEF WaitInv, Words

(* What a step of t must respect of each part, if it leaves the table and  *)
(* the queues alone                                                        *)
KeepsQueue(t) ==
  Queued(t) => /\ call'[t].op = call[t].op /\ call'[t].status # B_OK
               /\ \/ pc'[t] \in {"wait", "leave"}
                  \/ call'[t].op = "cond_wait" /\ pc'[t] \in SwitchLabels
KeepsLocks(t) ==
  /\ pc'[t] # "no_waiter"
  /\ \A e \in Entries : /\ t \in Writers(e)' => t \in Writers(e) \/ WriteLockable(e)
                        /\ t \in Readers(e)' => t \in Readers(e) \/ ReadLockable(e)
KeepsMutex(t) ==
  \/ /\ t \in MutexHolders' <=> t \in MutexHolders
     /\ t \in HandedOff' <=> t \in HandedOff
     /\ LOCKED \in word'[MUTEX] <=> LOCKED \in word[MUTEX]
  \/ /\ LOCKED \notin word[MUTEX] /\ LOCKED \in word'[MUTEX]
     /\ t \in MutexHolders' <=> t \notin HandedOff'
  \/ /\ LOCKED \notin word'[MUTEX]
     /\ t \in Owners /\ t \notin MutexHolders' /\ t \notin HandedOff'
KeepsUnits(t) ==
  balance' - Value(sem') - In(t, UnitsBeingPosted') - In(t, SemHolders')
    = balance - Value(sem) - In(t, UnitsBeingPosted) - In(t, SemHolders)
KeepsCond(t) ==
  waiter_count' - In(t, CondUsers') = waiter_count - In(t, CondUsers)
KeepsPromise(t) ==
  /\ WaitInv(t)'
  /\ sem = -1 => sem' = -1 \/ Waiters(SEM) \subseteq {t}
  /\ \A a \in Words : WAITING \in word[a] => WAITING \in word'[a] \/ Waiters(a) \subseteq {t}
  /\ LOCKED \in word[MUTEX] \/ Unblockers # {} =>
       LOCKED \in word'[MUTEX] \/ Unblockers' # {} \/ Waiters(MUTEX) \subseteq {t}

(* The label of a thread that nothing happens to goes on fitting its call. *)
LEMMA LocalPart ==
  ASSUME Inv, NEW t \in Threads, Alone(t), Local(t)'
  PROVE  \A u \in Threads : Local(u)'
<1> SUFFICES ASSUME NEW u \in Threads, u # t PROVE Local(u)'
  OBVIOUS
<1>1. /\ pc'[u] = pc[u] /\ call'[u] = call[u] /\ Held(u)' = Held(u)
      /\ Target(u)' = Target(u) /\ Unblocked(u)' = Unblocked(u)
  BY RolesOfOthers
<1> QED
  BY <1>1 DEF Inv, Local

(* A step that does not touch the other threads keeps the invariant, if it *)
(* keeps each part.                                                        *)
LEMMA OwnStep ==
  ASSUME Inv, NEW t \in Threads, Types', Alone(t), Local(t)', TableInv',
         \A e \in Entries :
           /\ IsInjective(queue'[e])
           /\ t \in Range(queue'[e]) =>
                /\ Entry(t, Target(t))' = e /\ call'[t].op \in WaitOps
                /\ call'[t].status # B_OK
                /\ \/ pc'[t] \in {"wait", "leave"}
                   \/ call'[t].op = "cond_wait" /\ pc'[t] \in SwitchLabels,
         \A e \in Entries : WriterInv(e)',
         KeepsMutex(t), KeepsUnits(t), KeepsCond(t), KeepsPromise(t)
  PROVE  Inv'
<1>1. \A u \in Threads : Local(u)'
  BY LocalPart
<1>2. \A e \in Entries : QueueInv(e)'
  BY QueuePart DEF Inv
<1>5. MutexInv'
  BY MutexPart DEF Inv, KeepsMutex
<1>6. SemInv'
  <2>1. sem' \in Int /\ balance' \in Int
    BY DEF Types
  <2> QED
    BY <2>1, SemPart DEF Inv, KeepsUnits
<1>7. CondInv'
  <2>1. waiter_count' \in Int
    BY DEF Types
  <2> QED
    BY <2>1, CondPart DEF Inv, KeepsCond
<1>8. \A u \in Threads : WaitInv(u)'
  BY WaitPart DEF Inv, KeepsPromise
<1> QED
  BY <1>1, <1>2, <1>5, <1>6, <1>7, <1>8 DEF Inv

(* A step that leaves the queues alone keeps what they say.                *)
LEMMA QueuesKept ==
  ASSUME Inv, NEW t \in Threads, UNCHANGED queue, KeepsQueue(t),
         Queued(t) => Entry(t, Target(t))' = Entry(t, Target(t))
  PROVE  \A e \in Entries :
           /\ IsInjective(queue'[e])
           /\ t \in Range(queue'[e]) =>
                /\ Entry(t, Target(t))' = e /\ call'[t].op \in WaitOps
                /\ call'[t].status # B_OK
                /\ \/ pc'[t] \in {"wait", "leave"}
                   \/ call'[t].op = "cond_wait" /\ pc'[t] \in SwitchLabels
<1>1. ASSUME NEW e \in Entries, t \in Range(queue'[e])
      PROVE  /\ Entry(t, Target(t))' = e /\ call'[t].op \in WaitOps
             /\ call'[t].status # B_OK
             /\ \/ pc'[t] \in {"wait", "leave"}
                \/ call'[t].op = "cond_wait" /\ pc'[t] \in SwitchLabels
  <2>1. Queued(t) /\ t \in Range(queue[e])
    BY <1>1 DEF Queued
  <2>2. call'[t].op = call[t].op
    BY <2>1 DEF KeepsQueue
  <2> QED
    BY <2>1, <2>2 DEF Inv, QueueInv, KeepsQueue
<1> QED
  BY <1>1 DEF Inv, QueueInv

(* A step that also leaves the table alone                                 *)
LEMMA QuietStep ==
  ASSUME Inv, NEW t \in Threads, Types', Alone(t), Local(t)',
         UNCHANGED <<queue, table, ref_count>>,
         \A a \in Addresses : Entry(t, a)' = Entry(t, a),
         KeepsQueue(t), KeepsLocks(t), KeepsMutex(t), KeepsUnits(t), KeepsCond(t),
         KeepsPromise(t)
  PROVE  Inv'
<1>1. Queued(t) => Entry(t, Target(t))' = Entry(t, Target(t))
  <2>1. Queued(t) => Target(t)' = Target(t) /\ Target(t) \in Addresses
    BY DEF Target, Addresses, KeepsQueue
  <2> QED
    BY <2>1 DEF Entry
<1>2. \A e \in Entries :
        /\ IsInjective(queue'[e])
        /\ t \in Range(queue'[e]) =>
             /\ Entry(t, Target(t))' = e /\ call'[t].op \in WaitOps
             /\ call'[t].status # B_OK
             /\ \/ pc'[t] \in {"wait", "leave"}
                \/ call'[t].op = "cond_wait" /\ pc'[t] \in SwitchLabels
  BY <1>1, QueuesKept
<1>3. TableInv'
  BY TableFrame DEF Inv
<1>4. \A e \in Entries : WriterInv(e)'
  BY WriterPart DEF Inv, KeepsLocks
<1> QED
  BY <1>2, <1>3, <1>4, OwnStep

(* Who is in a queue                                                       *)
LEMMA QueuedLabels ==
  ASSUME Inv, NEW t \in Threads, Queued(t)
  PROVE  /\ call[t].op \in WaitOps /\ call[t].status # B_OK
         /\ \/ pc[t] \in {"wait", "leave"}
            \/ call[t].op = "cond_wait" /\ pc[t] \in SwitchLabels
BY DEF Inv, QueueInv, Queued

-----------------------------------------------------------------------------
(* The invariant holds initially.                                          *)
LEMMA Initially ==
  ASSUME Init
  PROVE  Inv
<1> USE UserMutexConstants DEF Init
<1>0. Cardinality({}) = 0 /\ Cardinality(Threads) \in Nat /\ Range(<<>>) = {}
  BY FS_EmptySet, FS_CardinalityType DEF Range
<1>1. \A t \in Threads : /\ pc[t] = "idle" /\ call[t].op = NULL /\ call[t].status = NULL
                         /\ \A a \in Addresses : Entry(t, a) = NULL
  BY DEF Call, Entry, NoPtr
<1>2. \A t \in Threads : Held(t) = {} /\ ~Queued(t)
  BY <1>0, <1>1 DEF Held, Queued
<1>3. Types
  <2>1. call \in [Threads -> Calls]
    BY DEF Call, Calls, Ops, WaitOps, UnblockOps, NoPtr
  <2>2. /\ pc \in [Threads -> Labels] /\ table \in [Addresses -> Entries \cup {NULL}]
        /\ word \in [Words -> SUBSET {LOCKED, WAITING}]
    BY DEF Labels, NoPtr, Words
  <2>3. /\ sem \in Int /\ sem >= -1 /\ balance \in 0 .. MaxUnits
        /\ waiter_count \in Int
    OBVIOUS
  <2>4. /\ ref_count \in [Entries -> 0 .. Cardinality(Threads)]
        /\ queue \in [Entries -> Seq(Threads)]
    BY <1>0
  <2> QED
    BY <2>1, <2>2, <2>3, <2>4 DEF Types
<1>4. ASSUME NEW t \in Threads PROVE Local(t) /\ ~Waits(t)
  BY <1>1, <1>2 DEF Local, SwitchLabels, UnblockOps, Waits
<1>5. ASSUME NEW e \in Entries PROVE QueueInv(e)
  BY <1>0 DEF QueueInv, IsInjective
<1>6. TableInv
  BY <1>1 DEF TableInv, NoPtr
<1>7. ASSUME NEW e \in Entries PROVE WriterInv(e)
  BY <1>1 DEF WriterInv, Writers
<1>8. MutexHolders = {} /\ HandedOff = {} /\ SemHolders = {} /\ UnitsBeingPosted = {}
        /\ CondUsers = {}
  BY <1>1, <1>2
     DEF MutexHolders, HandedOff, SemHolders, UnitsBeingPosted, CondUsers, Acquired
<1>9. MutexInv
  BY <1>8 DEF MutexInv, Owners
<1>10. SemInv /\ CondInv
  BY <1>0, <1>8 DEF SemInv, CondInv
<1> QED
  BY <1>3, <1>4, <1>5, <1>6, <1>7, <1>9, <1>10 DEF Inv, WaitInv

-----------------------------------------------------------------------------
(* A thread that holds no reference goes on with another call.             *)
LEMMA Enters ==
  ASSUME Inv, NEW t \in Threads, Held(t) = {}, pc[t] \in {"idle", "critical", "put"},
         NEW op \in Ops, NEW s \in {NULL, B_OK}, NEW seen \in SUBSET Threads,
         NEW label \in Labels,
         pc' = [pc EXCEPT ![t] = label],
         call' = [call EXCEPT ![t] = [op |-> op, status |-> s, ptr |-> NoPtr,
                                      dying |-> <<>>, seen |-> seen]],
         UNCHANGED queue
  PROVE  /\ pc' \in [Threads -> Labels] /\ pc'[t] = label
         /\ call' \in [Threads -> Calls] /\ call'[t].op = op /\ call'[t].status = s
         /\ Held(t)' = {} /\ \A a \in Addresses : Entry(t, a)' = Entry(t, a)
         /\ ~Queued(t) /\ ~Queued(t)'
         /\ Alone(t) /\ KeepsQueue(t)
<1>0. Types
  BY DEF Inv
<1>1. /\ call' \in [Threads -> Calls]
      /\ \A u \in Threads : u # t => call'[u] = call[u]
      /\ call'[t].op = op /\ call'[t].status = s /\ call'[t].ptr = NoPtr
      /\ Held(t)' = {}
  BY <1>0, EnterCall
<1>2. /\ pc' \in [Threads -> Labels] /\ pc'[t] = label
      /\ \A u \in Threads : u # t => pc'[u] = pc[u]
  BY <1>0 DEF Types
<1>3. ~Queued(t)
  BY QueuedLabels DEF SwitchLabels
<1>4. ~Queued(t)'
  BY <1>3 DEF Queued
<1>5. \A a \in Addresses : Entry(t, a)' = Entry(t, a)
  BY <1>1 DEF Held
<1> QED
  BY <1>1, <1>2, <1>3, <1>4, <1>5 DEF Alone, KeepsQueue

(* A thread goes on in the kernel, perhaps with another status.            *)
LEMMA Moves ==
  ASSUME Inv, NEW t \in Threads, NEW label \in Labels, NEW s \in {NULL, B_OK} \cup Errors,
         pc' = [pc EXCEPT ![t] = label], UNCHANGED queue,
         \/ call' = call /\ s = call[t].status
         \/ call' = [call EXCEPT ![t].status = s]
  PROVE  /\ pc' \in [Threads -> Labels] /\ pc'[t] = label
         /\ call' \in [Threads -> Calls] /\ call'[t].op = call[t].op /\ call'[t].status = s
         /\ Held(t)' = Held(t) /\ \A a \in Addresses : Entry(t, a)' = Entry(t, a)
         /\ Target(t)' = Target(t) /\ Unblocked(t)' = Unblocked(t)
         /\ Queued(t)' <=> Queued(t)
         /\ Alone(t)
<1>0. Types
  BY DEF Inv
<1>1. /\ call' \in [Threads -> Calls]
      /\ \A u \in Threads : u # t => call'[u] = call[u]
      /\ call'[t].op = call[t].op /\ call'[t].status = s /\ call'[t].ptr = call[t].ptr
  <2>1. CASE call' = call /\ s = call[t].status
    BY <1>0, <2>1 DEF Types
  <2>2. CASE call' = [call EXCEPT ![t].status = s]
    BY <1>0, <2>2, StatusCall
  <2> QED
    BY <2>1, <2>2
<1>2. /\ pc' \in [Threads -> Labels] /\ pc'[t] = label
      /\ \A u \in Threads : u # t => pc'[u] = pc[u]
  BY <1>0 DEF Types
<1>3. /\ \A a \in Addresses : Entry(t, a)' = Entry(t, a)
      /\ Target(t)' = Target(t) /\ Unblocked(t)' = Unblocked(t)
  BY <1>1 DEF Entry, Target, Unblocked
<1>4. Held(t)' = Held(t) /\ (Queued(t)' <=> Queued(t))
  BY <1>3 DEF Held, Queued
<1> QED
  BY <1>1, <1>2, <1>3, <1>4 DEF Alone

-----------------------------------------------------------------------------
(* Mutexes in user space *)

(* __mutex_lock(): the word is set with an atomic, or the kernel called.   *)
LEMMA StepMutexLock ==
  ASSUME Inv, NEW t \in Threads, mutex_lock(t)
  PROVE  Inv'
<1>0. /\ Types /\ pc[t] = "idle" /\ call[t].op = NULL /\ Held(t) = {}
      /\ UNCHANGED <<sem, use, waiter_count, table, ref_count, queue, balance>>
  BY DEF Inv, Local, mutex_lock, kernel
<1>1. PICK op \in {NULL, "lock"}, label \in {"critical", "get"} :
        /\ pc' = [pc EXCEPT ![t] = label]
        /\ call' = [call EXCEPT ![t] = Call(op)]
        /\ \/ /\ op = NULL /\ label = "critical" /\ word[MUTEX] = {}
              /\ word' = [word EXCEPT ![MUTEX] = {LOCKED}]
           \/ op = "lock" /\ label = "get" /\ word' = word
  BY DEF mutex_lock, Enter, Goto
<1>2. /\ pc' \in [Threads -> Labels] /\ pc'[t] = label
      /\ call' \in [Threads -> Calls] /\ call'[t].op = op /\ call'[t].status = NULL
      /\ Held(t)' = {} /\ \A a \in Addresses : Entry(t, a)' = Entry(t, a)
      /\ ~Queued(t) /\ ~Queued(t)'
      /\ Alone(t) /\ KeepsQueue(t)
  BY <1>0, <1>1, Enters DEF Call, Ops, WaitOps, Labels
<1>3. word' \in [Words -> SUBSET {LOCKED, WAITING}] /\ word'[COND] = word[COND]
  BY <1>0, <1>1 DEF Types, Words
<1>4. Types'
  BY <1>0, <1>2, <1>3 DEF Types
<1>5. Local(t)'
  BY <1>1, <1>2 DEF Local, SwitchLabels, UnblockOps, WaitOps
<1>6. KeepsLocks(t)
  BY <1>1, <1>2 DEF KeepsLocks, Writers, Readers
<1>7. KeepsMutex(t)
  BY <1>0, <1>1, <1>2 DEF KeepsMutex, MutexHolders, HandedOff, Acquired, Types, Words
<1>8. KeepsUnits(t) /\ KeepsCond(t)
  BY <1>0, <1>1, <1>2
     DEF KeepsUnits, KeepsCond, In, UnitsBeingPosted, SemHolders, CondUsers, Acquired
<1>9. KeepsPromise(t)
  <2>1. Unblockers' = Unblockers
    BY <1>0, <1>1, <1>2, RolesOfOthers DEF Unblockers
  <2> QED
    BY <1>0, <1>1, <1>2, <1>3, <2>1 DEF KeepsPromise, WaitInv, Waits, Words, Types
<1> QED
  BY <1>0, <1>2, <1>4, <1>5, <1>6, <1>7, <1>8, <1>9, QuietStep

(* The system call of a locker returns.                                    *)
LEMMA StepMutexLockReturn ==
  ASSUME Inv, NEW t \in Threads, mutex_lock_return(t)
  PROVE  Inv'
<1>0. /\ Types /\ pc[t] = "put" /\ call[t].op = "lock" /\ Held(t) = {}
      /\ call[t].status \in {B_OK} \cup Errors
      /\ UNCHANGED <<word, sem, use, waiter_count, table, ref_count, queue, balance>>
  BY DEF Inv, Local, mutex_lock_return, Returning, kernel, Types, Calls, WaitOps
<1>1. PICK op \in {NULL, "lock"}, label \in {"critical", "get", "idle"} :
        /\ pc' = [pc EXCEPT ![t] = label]
        /\ call' = [call EXCEPT ![t] = Call(op)]
        /\ label = "critical" <=> call[t].status = B_OK
        /\ op = "lock" <=> label = "get"
  BY <1>0 DEF mutex_lock_return, Enter, Goto, Errors
<1>2. /\ pc' \in [Threads -> Labels] /\ pc'[t] = label
      /\ call' \in [Threads -> Calls] /\ call'[t].op = op /\ call'[t].status = NULL
      /\ Held(t)' = {} /\ \A a \in Addresses : Entry(t, a)' = Entry(t, a)
      /\ ~Queued(t) /\ ~Queued(t)'
      /\ Alone(t) /\ KeepsQueue(t)
  BY <1>0, <1>1, Enters DEF Call, Ops, WaitOps, Labels
<1>4. Types'
  BY <1>0, <1>2 DEF Types
<1>5. Local(t)'
  BY <1>1, <1>2 DEF Local, SwitchLabels, UnblockOps, WaitOps
<1>6. KeepsLocks(t)
  BY <1>1, <1>2 DEF KeepsLocks, Writers, Readers
<1>7. KeepsMutex(t)
  BY <1>0, <1>1, <1>2 DEF KeepsMutex, MutexHolders, HandedOff, Acquired
<1>8. KeepsUnits(t) /\ KeepsCond(t)
  BY <1>0, <1>1, <1>2
     DEF KeepsUnits, KeepsCond, In, UnitsBeingPosted, SemHolders, CondUsers, Acquired
<1>9. KeepsPromise(t)
  <2>1. Unblockers' = Unblockers
    BY <1>0, <1>1, <1>2, RolesOfOthers DEF Unblockers
  <2> QED
    BY <1>0, <1>1, <1>2, <2>1 DEF KeepsPromise, WaitInv, Waits
<1> QED
  BY <1>0, <1>2, <1>4, <1>5, <1>6, <1>7, <1>8, <1>9, QuietStep

(* __mutex_unlock(): who finds waiters has to unblock one of them.         *)
LEMMA StepMutexUnlock ==
  ASSUME Inv, NEW t \in Threads, mutex_unlock(t)
  PROVE  Inv'
<1>0. /\ Types /\ pc[t] = "critical" /\ call[t].op = NULL /\ Held(t) = {}
      /\ word' = [word EXCEPT ![MUTEX] = word[MUTEX] \ {LOCKED}]
      /\ UNCHANGED <<sem, use, waiter_count, table, ref_count, queue, balance>>
  BY DEF Inv, Local, mutex_unlock, kernel
<1>1. PICK op \in {NULL, "unlock"}, label \in {"unblock_get", "idle"} :
        /\ pc' = [pc EXCEPT ![t] = label]
        /\ call' = [call EXCEPT ![t] = Call(op)]
        /\ WAITING \in word[MUTEX] <=> label = "unblock_get"
        /\ op = "unlock" <=> label = "unblock_get"
  BY DEF mutex_unlock, Enter, Goto
<1>2. /\ pc' \in [Threads -> Labels] /\ pc'[t] = label
      /\ call' \in [Threads -> Calls] /\ call'[t].op = op /\ call'[t].status = NULL
      /\ Held(t)' = {} /\ \A a \in Addresses : Entry(t, a)' = Entry(t, a)
      /\ ~Queued(t) /\ ~Queued(t)'
      /\ Alone(t) /\ KeepsQueue(t)
  BY <1>0, <1>1, Enters DEF Call, Ops, UnblockOps, Labels
<1>3. /\ word' \in [Words -> SUBSET {LOCKED, WAITING}] /\ word'[COND] = word[COND]
      /\ word'[MUTEX] = word[MUTEX] \ {LOCKED}
  BY <1>0, <1>1 DEF Types, Words
<1>4. Types'
  BY <1>0, <1>2, <1>3 DEF Types
<1>5. Local(t)'
  BY <1>1, <1>2 DEF Local, SwitchLabels, UnblockOps, WaitOps
<1>6. KeepsLocks(t)
  BY <1>1, <1>2 DEF KeepsLocks, Writers, Readers
<1>7. KeepsMutex(t)
  BY <1>0, <1>1, <1>2, <1>3 DEF KeepsMutex, MutexHolders, HandedOff, Acquired, Owners
<1>8. KeepsUnits(t) /\ KeepsCond(t)
  BY <1>0, <1>1, <1>2
     DEF KeepsUnits, KeepsCond, In, UnitsBeingPosted, SemHolders, CondUsers, Acquired
<1>9. KeepsPromise(t)
  <2>1. WAITING \in word[MUTEX] => t \in Unblockers'
    BY <1>1, <1>2 DEF Unblockers, Unblocked
  <2>2. WAITING \notin word[MUTEX] => Waiters(MUTEX) = {}
    BY DEF Inv, WaitInv, Waiters
  <2> QED
    BY <1>0, <1>1, <1>2, <1>3, <2>1, <2>2 DEF KeepsPromise, WaitInv, Waits, Words
<1> QED
  BY <1>0, <1>2, <1>4, <1>5, <1>6, <1>7, <1>8, <1>9, QuietStep

(* The system call of an unlocker returns.                                 *)
LEMMA StepMutexUnlockReturn ==
  ASSUME Inv, NEW t \in Threads, mutex_unlock_return(t)
  PROVE  Inv'
<1>0. /\ Types /\ pc[t] = "put" /\ call[t].op = "unlock" /\ Held(t) = {}
      /\ pc' = [pc EXCEPT ![t] = "idle"]
      /\ call' = [call EXCEPT ![t] = Call(NULL)]
      /\ UNCHANGED <<word, sem, use, waiter_count, table, ref_count, queue, balance>>
  BY DEF Inv, mutex_unlock_return, Returning, kernel, Enter, Goto
<1>2. /\ pc' \in [Threads -> Labels] /\ pc'[t] = "idle"
      /\ call' \in [Threads -> Calls] /\ call'[t].op = NULL /\ call'[t].status = NULL
      /\ Held(t)' = {} /\ \A a \in Addresses : Entry(t, a)' = Entry(t, a)
      /\ ~Queued(t) /\ ~Queued(t)'
      /\ Alone(t) /\ KeepsQueue(t)
  BY <1>0, Enters DEF Call, Ops, Labels
<1>4. Types'
  BY <1>0, <1>2 DEF Types
<1>5. Local(t)'
  BY <1>2 DEF Local, SwitchLabels, UnblockOps, WaitOps
<1>6. KeepsLocks(t)
  BY <1>2 DEF KeepsLocks, Writers, Readers
<1>7. KeepsMutex(t)
  BY <1>0, <1>2 DEF KeepsMutex, MutexHolders, HandedOff, Acquired
<1>8. KeepsUnits(t) /\ KeepsCond(t)
  BY <1>0, <1>2
     DEF KeepsUnits, KeepsCond, In, UnitsBeingPosted, SemHolders, CondUsers, Acquired
<1>9. KeepsPromise(t)
  <2>1. Unblockers' = Unblockers
    BY <1>0, <1>2, RolesOfOthers DEF Unblockers
  <2> QED
    BY <1>0, <1>2, <2>1 DEF KeepsPromise, WaitInv, Waits
<1> QED
  BY <1>0, <1>2, <1>4, <1>5, <1>6, <1>7, <1>8, <1>9, QuietStep

-----------------------------------------------------------------------------
(* Condition variables in user space *)

(* cond_wait(), by the holder of the mutex                                 *)
LEMMA StepCondWait ==
  ASSUME Inv, NEW t \in Threads, cond_wait(t)
  PROVE  Inv'
<1>0. /\ Types /\ pc[t] = "critical" /\ call[t].op = NULL /\ Held(t) = {}
      /\ waiter_count' = waiter_count + 1
      /\ word' = [word EXCEPT ![COND] = IF word[COND] = {} THEN {LOCKED} ELSE word[COND]]
      /\ pc' = [pc EXCEPT ![t] = "get"]
      /\ call' = [call EXCEPT ![t] = Call("cond_wait")]
      /\ UNCHANGED <<sem, use, table, ref_count, queue, balance>>
  BY DEF Inv, Local, cond_wait, kernel, Enter, Goto
<1>2. /\ pc' \in [Threads -> Labels] /\ pc'[t] = "get"
      /\ call' \in [Threads -> Calls] /\ call'[t].op = "cond_wait" /\ call'[t].status = NULL
      /\ Held(t)' = {} /\ \A a \in Addresses : Entry(t, a)' = Entry(t, a)
      /\ ~Queued(t) /\ ~Queued(t)'
      /\ Alone(t) /\ KeepsQueue(t)
  BY <1>0, Enters DEF Call, Ops, WaitOps, Labels
<1>3. /\ word' \in [Words -> SUBSET {LOCKED, WAITING}] /\ word'[MUTEX] = word[MUTEX]
      /\ WAITING \in word[COND] => WAITING \in word'[COND]
  BY <1>0 DEF Types, Words
<1>4. Types'
  BY <1>0, <1>2, <1>3 DEF Types
<1>5. Local(t)'
  BY <1>2 DEF Local, SwitchLabels, UnblockOps, WaitOps
<1>6. KeepsLocks(t)
  BY <1>2 DEF KeepsLocks, Writers, Readers
<1>7. KeepsMutex(t)
  BY <1>0, <1>2, <1>3 DEF KeepsMutex, MutexHolders, HandedOff
<1>8. KeepsUnits(t)
  BY <1>0, <1>2 DEF KeepsUnits, In, UnitsBeingPosted, SemHolders
<1>10. KeepsCond(t)
  BY <1>0, <1>2 DEF KeepsCond, In, CondUsers, Types
<1>9. KeepsPromise(t)
  <2>1. Unblockers' = Unblockers
    BY <1>0, <1>2, RolesOfOthers DEF Unblockers
  <2> QED
    BY <1>0, <1>2, <1>3, <2>1 DEF KeepsPromise, WaitInv, Waits, Words
<1> QED
  BY <1>0, <1>2, <1>4, <1>5, <1>6, <1>7, <1>8, <1>9, <1>10, QuietStep

(* Back from the wait, the mutex is locked again.                          *)
LEMMA StepCondWaitRelock ==
  ASSUME Inv, NEW t \in Threads, cond_wait_relock(t)
  PROVE  Inv'
<1>0. /\ Types /\ pc[t] = "put" /\ Held(t) = {}
      /\ call[t].op = "cond_wait" \/ (call[t].op = "relock" /\ call[t].status = B_INTERRUPTED)
      /\ UNCHANGED <<sem, use, waiter_count, table, ref_count, queue, balance>>
  BY DEF Inv, cond_wait_relock, Returning, kernel
<1>1. PICK s \in {NULL, B_OK}, label \in {"put", "get"} :
        /\ pc' = [pc EXCEPT ![t] = label]
        /\ call' = [call EXCEPT ![t] = [op |-> "relock", status |-> s, ptr |-> NoPtr,
                                        dying |-> <<>>, seen |-> {}]]
        /\ \/ /\ s = B_OK /\ label = "put" /\ word[MUTEX] = {}
              /\ word' = [word EXCEPT ![MUTEX] = {LOCKED}]
           \/ s = NULL /\ label = "get" /\ word' = word
  <2>1. CASE call[t].op = "cond_wait" /\ word[MUTEX] = {}
    <3>1. pc' = [pc EXCEPT ![t] = "put"]
      BY <1>0, <2>1 DEF cond_wait_relock, Types
    <3>2. call' = [call EXCEPT ![t] = [op |-> "relock", status |-> B_OK, ptr |-> NoPtr,
                                       dying |-> <<>>, seen |-> {}]]
      BY <2>1 DEF cond_wait_relock, Call
    <3> QED
      BY <2>1, <3>1, <3>2 DEF cond_wait_relock
  <2>2. CASE ~(call[t].op = "cond_wait" /\ word[MUTEX] = {})
    BY <2>2 DEF cond_wait_relock, Enter, Goto, Call
  <2> QED
    BY <2>1, <2>2
<1>2. /\ pc' \in [Threads -> Labels] /\ pc'[t] = label
      /\ call' \in [Threads -> Calls] /\ call'[t].op = "relock" /\ call'[t].status = s
      /\ Held(t)' = {} /\ \A a \in Addresses : Entry(t, a)' = Entry(t, a)
      /\ ~Queued(t) /\ ~Queued(t)'
      /\ Alone(t) /\ KeepsQueue(t)
  BY <1>0, <1>1, Enters DEF Ops, WaitOps, Labels
<1>3. word' \in [Words -> SUBSET {LOCKED, WAITING}] /\ word'[COND] = word[COND]
  BY <1>0, <1>1 DEF Types, Words
<1>4. Types'
  BY <1>0, <1>2, <1>3 DEF Types
<1>5. Local(t)'
  BY <1>1, <1>2 DEF Local, SwitchLabels, UnblockOps, WaitOps
<1>6. KeepsLocks(t)
  BY <1>1, <1>2 DEF KeepsLocks, Writers, Readers
<1>7. KeepsMutex(t)
  BY <1>0, <1>1, <1>2 DEF KeepsMutex, MutexHolders, HandedOff, Acquired, Types, Words
<1>8. KeepsUnits(t) /\ KeepsCond(t)
  BY <1>0, <1>1, <1>2
     DEF KeepsUnits, KeepsCond, In, UnitsBeingPosted, SemHolders, CondUsers, Acquired
<1>9. KeepsPromise(t)
  <2>1. Unblockers' = Unblockers
    BY <1>0, <1>1, <1>2, RolesOfOthers DEF Unblockers
  <2> QED
    BY <1>0, <1>1, <1>2, <1>3, <2>1 DEF KeepsPromise, WaitInv, Waits, Words, Types
<1> QED
  BY <1>0, <1>2, <1>4, <1>5, <1>6, <1>7, <1>8, <1>9, QuietStep

(* The last thread to leave cond_wait() resets the condition variable:     *)
(* nobody else is in it.                                                   *)
LEMMA StepCondWaitReturn ==
  ASSUME Inv, NEW t \in Threads, cond_wait_return(t)
  PROVE  Inv'
<1>0. /\ Types /\ pc[t] = "put" /\ call[t].op = "relock" /\ call[t].status = B_OK
      /\ Held(t) = {}
      /\ waiter_count' = waiter_count - 1
      /\ word' = [word EXCEPT ![COND] = IF waiter_count = 1 THEN {} ELSE word[COND]]
      /\ pc' = [pc EXCEPT ![t] = "critical"]
      /\ call' = [call EXCEPT ![t] = Call(NULL)]
      /\ UNCHANGED <<sem, use, table, ref_count, queue, balance>>
  BY DEF Inv, cond_wait_return, Returning, kernel, Enter, Goto
<1>2. /\ pc' \in [Threads -> Labels] /\ pc'[t] = "critical"
      /\ call' \in [Threads -> Calls] /\ call'[t].op = NULL /\ call'[t].status = NULL
      /\ Held(t)' = {} /\ \A a \in Addresses : Entry(t, a)' = Entry(t, a)
      /\ ~Queued(t) /\ ~Queued(t)'
      /\ Alone(t) /\ KeepsQueue(t)
  BY <1>0, Enters DEF Call, Ops, Labels
<1>3. /\ word' \in [Words -> SUBSET {LOCKED, WAITING}] /\ word'[MUTEX] = word[MUTEX]
      /\ waiter_count # 1 => word'[COND] = word[COND]
  BY <1>0 DEF Types, Words
<1>4. Types'
  BY <1>0, <1>2, <1>3 DEF Types
<1>5. Local(t)'
  BY <1>2 DEF Local, SwitchLabels, UnblockOps, WaitOps
<1>6. KeepsLocks(t)
  BY <1>2 DEF KeepsLocks, Writers, Readers
<1>7. KeepsMutex(t)
  BY <1>0, <1>2, <1>3 DEF KeepsMutex, MutexHolders, HandedOff, Acquired
<1>8. KeepsUnits(t)
  BY <1>0, <1>2 DEF KeepsUnits, In, UnitsBeingPosted, SemHolders
<1>10. KeepsCond(t)
  BY <1>0, <1>2 DEF KeepsCond, In, CondUsers, Types
<1>9. KeepsPromise(t)
  <2>1. Unblockers' = Unblockers
    BY <1>0, <1>2, RolesOfOthers DEF Unblockers
  <2>2. waiter_count = 1 => Waiters(COND) = {}
    <3> SUFFICES ASSUME waiter_count = 1, NEW u \in Waiters(COND) PROVE FALSE
      OBVIOUS
    <3>1. t \in CondUsers
      BY <1>0 DEF CondUsers
    <3>2. Target(u) = COND /\ u \in Threads
      BY DEF Waiters
    <3>3. call[u].op = "cond_wait" /\ u \in CondUsers
      BY <3>2 DEF Target, CondUsers
    <3>4. IsFiniteSet(CondUsers) /\ Cardinality(CondUsers) = 1
      BY UserMutexConstants, FS_Subset DEF CondUsers, Inv, CondInv
    <3>5. PICK x : CondUsers = {x}
      BY <3>4, FS_Singleton
    <3> QED
      BY <1>0, <3>1, <3>3, <3>5
  <2> QED
    BY <1>0, <1>2, <1>3, <2>1, <2>2 DEF KeepsPromise, WaitInv, Waits, Words
<1> QED
  BY <1>0, <1>2, <1>4, <1>5, <1>6, <1>7, <1>8, <1>9, <1>10, QuietStep

(* cond_signal(), with the mutex held                                      *)
LEMMA StepCondSignal ==
  ASSUME Inv, NEW t \in Threads, NEW op \in {"signal", "broadcast"}, cond_signal(t, op)
  PROVE  Inv'
<1>0. /\ Types /\ pc[t] = "critical" /\ call[t].op = NULL /\ Held(t) = {}
      /\ word' = [word EXCEPT ![COND] = word[COND] \ {LOCKED}]
      /\ call' = [call EXCEPT ![t] = [op |-> op, status |-> NULL, ptr |-> NoPtr,
                                      dying |-> <<>>, seen |-> CondWaiters]]
      /\ UNCHANGED <<sem, use, waiter_count, table, ref_count, queue, balance>>
  <2>1. call' = [call EXCEPT ![t] = [op |-> op, status |-> NULL, ptr |-> NoPtr,
                                     dying |-> <<>>, seen |-> CondWaiters]]
    <3>1. call' = [call EXCEPT ![t] = [Call(op) EXCEPT !.seen = CondWaiters]]
      BY DEF cond_signal
    <3>2. ASSUME NEW W
          PROVE  [Call(op) EXCEPT !.seen = W]
                   = [op |-> op, status |-> NULL, ptr |-> NoPtr, dying |-> <<>>, seen |-> W]
      BY DEF Call
    <3> QED
      BY <3>1, <3>2
  <2>2. /\ pc[t] = "critical" /\ word' = [word EXCEPT ![COND] = word[COND] \ {LOCKED}]
        /\ UNCHANGED <<sem, use, waiter_count, table, ref_count, queue, balance>>
    BY DEF cond_signal, kernel
  <2>3. Types /\ call[t].op = NULL /\ Held(t) = {}
    BY <2>2 DEF Inv, Local
  <2> QED
    BY <2>1, <2>2, <2>3
<1>1. PICK label \in {"unblock_get", "put"} : pc' = [pc EXCEPT ![t] = label]
  BY DEF cond_signal, Goto
<1>2. /\ pc' \in [Threads -> Labels] /\ pc'[t] = label
      /\ call' \in [Threads -> Calls] /\ call'[t].op = op /\ call'[t].status = NULL
      /\ Held(t)' = {} /\ \A a \in Addresses : Entry(t, a)' = Entry(t, a)
      /\ ~Queued(t) /\ ~Queued(t)'
      /\ Alone(t) /\ KeepsQueue(t)
  <2>1. CondWaiters \in SUBSET Threads /\ op \in Ops /\ label \in Labels
    BY DEF CondWaiters, Ops, UnblockOps, Labels
  <2> QED
    BY <1>0, <1>1, <2>1, Enters
<1>3. /\ word' \in [Words -> SUBSET {LOCKED, WAITING}] /\ word'[MUTEX] = word[MUTEX]
      /\ WAITING \in word[COND] => WAITING \in word'[COND]
  BY <1>0 DEF Types, Words
<1>4. Types'
  BY <1>0, <1>2, <1>3 DEF Types
<1>5. Local(t)'
  BY <1>2 DEF Local, SwitchLabels, UnblockOps, WaitOps
<1>6. KeepsLocks(t)
  BY <1>2 DEF KeepsLocks, Writers, Readers
<1>7. KeepsMutex(t)
  BY <1>0, <1>2, <1>3 DEF KeepsMutex, MutexHolders, HandedOff
<1>8. KeepsUnits(t) /\ KeepsCond(t)
  BY <1>0, <1>2 DEF KeepsUnits, KeepsCond, In, UnitsBeingPosted, SemHolders, CondUsers
<1>9. KeepsPromise(t)
  <2>1. Unblockers' = Unblockers
    BY <1>0, <1>2, RolesOfOthers DEF Unblockers, Unblocked
  <2> QED
    BY <1>0, <1>2, <1>3, <2>1 DEF KeepsPromise, WaitInv, Waits, Words
<1> QED
  BY <1>0, <1>2, <1>4, <1>5, <1>6, <1>7, <1>8, <1>9, QuietStep

(* The system call of a signaller returns.                                 *)
LEMMA StepCondSignalReturn ==
  ASSUME Inv, NEW t \in Threads, cond_signal_return(t)
  PROVE  Inv'
<1>0. /\ Types /\ pc[t] = "put" /\ call[t].op \in {"signal", "broadcast"} /\ Held(t) = {}
      /\ pc' = [pc EXCEPT ![t] = "critical"]
      /\ call' = [call EXCEPT ![t] = Call(NULL)]
      /\ UNCHANGED <<word, sem, use, waiter_count, table, ref_count, queue, balance>>
  BY DEF Inv, cond_signal_return, Returning, kernel, Enter, Goto
<1>2. /\ pc' \in [Threads -> Labels] /\ pc'[t] = "critical"
      /\ call' \in [Threads -> Calls] /\ call'[t].op = NULL /\ call'[t].status = NULL
      /\ Held(t)' = {} /\ \A a \in Addresses : Entry(t, a)' = Entry(t, a)
      /\ ~Queued(t) /\ ~Queued(t)'
      /\ Alone(t) /\ KeepsQueue(t)
  BY <1>0, Enters DEF Call, Ops, Labels
<1>4. Types'
  BY <1>0, <1>2 DEF Types
<1>5. Local(t)'
  BY <1>2 DEF Local, SwitchLabels, UnblockOps, WaitOps
<1>6. KeepsLocks(t)
  BY <1>2 DEF KeepsLocks, Writers, Readers
<1>7. KeepsMutex(t)
  BY <1>0, <1>2 DEF KeepsMutex, MutexHolders, HandedOff
<1>8. KeepsUnits(t) /\ KeepsCond(t)
  BY <1>0, <1>2 DEF KeepsUnits, KeepsCond, In, UnitsBeingPosted, SemHolders, CondUsers
<1>9. KeepsPromise(t)
  <2>1. Unblockers' = Unblockers
    BY <1>0, <1>2, RolesOfOthers DEF Unblockers
  <2> QED
    BY <1>0, <1>2, <2>1 DEF KeepsPromise, WaitInv, Waits
<1> QED
  BY <1>0, <1>2, <1>4, <1>5, <1>6, <1>7, <1>8, <1>9, QuietStep

-----------------------------------------------------------------------------
(* Unnamed semaphores in user space *)

(* The balance covers the units that are there, and that of every thread.  *)
LEMMA BalanceCovers ==
  ASSUME Inv, NEW t \in Threads
  PROVE  balance >= Value(sem) + In(t, UnitsBeingPosted) + In(t, SemHolders)
<1>1. UnitsBeingPosted \in SUBSET Threads /\ SemHolders \in SUBSET Threads
  BY DEF UnitsBeingPosted, SemHolders
<1>2. /\ Cardinality(UnitsBeingPosted) \in Nat
      /\ Cardinality(UnitsBeingPosted) >= In(t, UnitsBeingPosted)
  BY <1>1, CardinalityChange
<1>3. /\ Cardinality(SemHolders) \in Nat
      /\ Cardinality(SemHolders) >= In(t, SemHolders)
  BY <1>1, CardinalityChange
<1>4. /\ balance = Value(sem) + Cardinality(UnitsBeingPosted) + Cardinality(SemHolders)
      /\ sem \in Int /\ balance \in Int
  BY DEF Inv, SemInv, Value, Types
<1>5. In(t, UnitsBeingPosted) \in Int /\ In(t, SemHolders) \in Int /\ Value(sem) \in Int
  BY <1>4 DEF In, Value
<1> QED
  BY <1>2, <1>3, <1>4, <1>5

(* unnamed_sem_timedwait(): a unit is taken with an atomic, or the kernel  *)
(* called.                                                                 *)
LEMMA StepSemWait ==
  ASSUME Inv, NEW t \in Threads, sem_wait(t)
  PROVE  Inv'
<1>0. /\ Types /\ pc[t] = "idle" /\ call[t].op = NULL /\ Held(t) = {}
      /\ UNCHANGED <<word, use, waiter_count, table, ref_count, queue>>
      /\ sem \in Int /\ balance \in 0 .. MaxUnits /\ MaxUnits \in Nat
  BY UserMutexConstants DEF Inv, Local, sem_wait, kernel, Types
<1>1. CASE sem > 0
  <2>1. /\ sem' = sem - 1 /\ balance' = balance - 1 /\ pc' = pc /\ call' = call
    BY <1>1 DEF sem_wait
  <2>2. pc' = [pc EXCEPT ![t] = "idle"] /\ "idle" \in Labels
        /\ call[t].status \in {NULL, B_OK} \cup Errors
    BY <1>0, <2>1 DEF Types, Labels, Calls
  <2>3. /\ pc' \in [Threads -> Labels] /\ pc'[t] = "idle"
        /\ call' \in [Threads -> Calls] /\ call'[t].op = call[t].op
        /\ call'[t].status = call[t].status
        /\ Held(t)' = Held(t) /\ \A a \in Addresses : Entry(t, a)' = Entry(t, a)
        /\ Queued(t)' <=> Queued(t)
        /\ Alone(t)
    BY <1>0, <2>1, <2>2, Moves
  <2>4. balance' \in 0 .. MaxUnits
    <3>1. balance >= Value(sem) + In(t, UnitsBeingPosted) + In(t, SemHolders)
      BY BalanceCovers
    <3> QED
      BY <1>0, <1>1, <2>1, <3>1 DEF Value, In
  <2>5. Types'
    BY <1>0, <1>1, <2>1, <2>3, <2>4 DEF Types
  <2>6. Local(t)'
    BY <1>0, <2>3 DEF Local, SwitchLabels, UnblockOps, WaitOps
  <2>7. KeepsQueue(t)
    BY <1>0, QueuedLabels DEF SwitchLabels, KeepsQueue, WaitOps
  <2>8. KeepsLocks(t)
    BY <2>3 DEF KeepsLocks, Writers, Readers
  <2>9. KeepsMutex(t)
    BY <1>0, <2>3 DEF KeepsMutex, MutexHolders, HandedOff
  <2>10. KeepsUnits(t) /\ KeepsCond(t)
    BY <1>0, <1>1, <2>1, <2>3
       DEF KeepsUnits, KeepsCond, In, Value, UnitsBeingPosted, SemHolders, CondUsers
  <2>11. KeepsPromise(t)
    <3>1. Unblockers' = Unblockers
      BY <1>0, <2>3, RolesOfOthers DEF Unblockers
    <3>2. ~Queued(t)
      BY <1>0, QueuedLabels DEF SwitchLabels
    <3> QED
      BY <1>0, <1>1, <2>1, <2>3, <3>1, <3>2 DEF KeepsPromise, WaitInv, Waits
  <2> QED
    BY <1>0, <2>3, <2>5, <2>6, <2>7, <2>8, <2>9, <2>10, <2>11, QuietStep
<1>2. CASE ~(sem > 0)
  <2>1. /\ pc' = [pc EXCEPT ![t] = "get"] /\ call' = [call EXCEPT ![t] = Call("sem_wait")]
        /\ sem' = sem /\ balance' = balance
    BY <1>2 DEF sem_wait, Enter, Goto
  <2>3. /\ pc' \in [Threads -> Labels] /\ pc'[t] = "get"
        /\ call' \in [Threads -> Calls] /\ call'[t].op = "sem_wait" /\ call'[t].status = NULL
        /\ Held(t)' = {} /\ \A a \in Addresses : Entry(t, a)' = Entry(t, a)
        /\ ~Queued(t) /\ ~Queued(t)'
        /\ Alone(t) /\ KeepsQueue(t)
    BY <1>0, <2>1, Enters DEF Call, Ops, WaitOps, Labels
  <2>5. Types'
    BY <1>0, <2>1, <2>3 DEF Types
  <2>6. Local(t)'
    BY <2>3 DEF Local, SwitchLabels, UnblockOps, WaitOps
  <2>8. KeepsLocks(t)
    BY <2>3 DEF KeepsLocks, Writers, Readers
  <2>9. KeepsMutex(t)
    BY <1>0, <2>3 DEF KeepsMutex, MutexHolders, HandedOff
  <2>10. KeepsUnits(t) /\ KeepsCond(t)
    BY <1>0, <2>1, <2>3
       DEF KeepsUnits, KeepsCond, In, UnitsBeingPosted, SemHolders, CondUsers, Acquired
  <2>11. KeepsPromise(t)
    <3>1. Unblockers' = Unblockers
      BY <1>0, <2>3, RolesOfOthers DEF Unblockers
    <3> QED
      BY <1>0, <2>1, <2>3, <3>1 DEF KeepsPromise, WaitInv, Waits
  <2> QED
    BY <1>0, <2>3, <2>5, <2>6, <2>8, <2>9, <2>10, <2>11, QuietStep
<1> QED
  BY <1>1, <1>2

(* unnamed_sem_post(): the value is incremented, or, if it is contended,   *)
(* the kernel called; the unit is with the poster then.                    *)
LEMMA StepSemPost ==
  ASSUME Inv, NEW t \in Threads, sem_post(t)
  PROVE  Inv'
<1>0. /\ Types /\ pc[t] = "idle" /\ call[t].op = NULL /\ Held(t) = {}
      /\ UNCHANGED <<word, use, waiter_count, table, ref_count, queue>>
      /\ sem \in Int /\ sem >= -1 /\ balance \in 0 .. MaxUnits /\ MaxUnits \in Nat
      /\ balance < MaxUnits /\ balance' = balance + 1
  BY UserMutexConstants DEF Inv, Local, sem_post, kernel, Types
<1>1. CASE sem > -1
  <2>1. /\ sem' = sem + 1 /\ pc' = pc /\ call' = call
    BY <1>1 DEF sem_post
  <2>2. pc' = [pc EXCEPT ![t] = "idle"] /\ "idle" \in Labels
        /\ call[t].status \in {NULL, B_OK} \cup Errors
    BY <1>0, <2>1 DEF Types, Labels, Calls
  <2>3. /\ pc' \in [Threads -> Labels] /\ pc'[t] = "idle"
        /\ call' \in [Threads -> Calls] /\ call'[t].op = call[t].op
        /\ call'[t].status = call[t].status
        /\ Held(t)' = Held(t) /\ \A a \in Addresses : Entry(t, a)' = Entry(t, a)
        /\ Queued(t)' <=> Queued(t)
        /\ Alone(t)
    BY <1>0, <2>1, <2>2, Moves
  <2>5. Types'
    BY <1>0, <1>1, <2>1, <2>3 DEF Types
  <2>6. Local(t)'
    BY <1>0, <2>3 DEF Local, SwitchLabels, UnblockOps, WaitOps
  <2>7. KeepsQueue(t)
    BY <1>0, QueuedLabels DEF SwitchLabels, KeepsQueue, WaitOps
  <2>8. KeepsLocks(t)
    BY <2>3 DEF KeepsLocks, Writers, Readers
  <2>9. KeepsMutex(t)
    BY <1>0, <2>3 DEF KeepsMutex, MutexHolders, HandedOff
  <2>10. KeepsUnits(t) /\ KeepsCond(t)
    BY <1>0, <1>1, <2>1, <2>3
       DEF KeepsUnits, KeepsCond, In, Value, UnitsBeingPosted, SemHolders, CondUsers
  <2>11. KeepsPromise(t)
    <3>1. Unblockers' = Unblockers
      BY <1>0, <2>3, RolesOfOthers DEF Unblockers
    <3>2. ~Queued(t)
      BY <1>0, QueuedLabels DEF SwitchLabels
    <3> QED
      BY <1>0, <1>1, <2>1, <2>3, <3>1, <3>2 DEF KeepsPromise, WaitInv, Waits
  <2> QED
    BY <1>0, <2>3, <2>5, <2>6, <2>7, <2>8, <2>9, <2>10, <2>11, QuietStep
<1>2. CASE ~(sem > -1)
  <2>1. /\ pc' = [pc EXCEPT ![t] = "get_to_post"] /\ call' = [call EXCEPT ![t] = Call("sem_post")]
        /\ sem' = sem
    BY <1>2 DEF sem_post, Enter, Goto
  <2>3. /\ pc' \in [Threads -> Labels] /\ pc'[t] = "get_to_post"
        /\ call' \in [Threads -> Calls] /\ call'[t].op = "sem_post" /\ call'[t].status = NULL
        /\ Held(t)' = {} /\ \A a \in Addresses : Entry(t, a)' = Entry(t, a)
        /\ ~Queued(t) /\ ~Queued(t)'
        /\ Alone(t) /\ KeepsQueue(t)
    BY <1>0, <2>1, Enters DEF Call, Ops, WaitOps, Labels
  <2>5. Types'
    BY <1>0, <2>1, <2>3 DEF Types
  <2>6. Local(t)'
    BY <2>3 DEF Local, SwitchLabels, UnblockOps, WaitOps
  <2>8. KeepsLocks(t)
    BY <2>3 DEF KeepsLocks, Writers, Readers
  <2>9. KeepsMutex(t)
    BY <1>0, <2>3 DEF KeepsMutex, MutexHolders, HandedOff
  <2>10. KeepsUnits(t) /\ KeepsCond(t)
    BY <1>0, <2>1, <2>3
       DEF KeepsUnits, KeepsCond, In, Value, UnitsBeingPosted, SemHolders, CondUsers
  <2>11. KeepsPromise(t)
    <3>1. Unblockers' = Unblockers
      BY <1>0, <2>3, RolesOfOthers DEF Unblockers
    <3> QED
      BY <1>0, <2>1, <2>3, <3>1 DEF KeepsPromise, WaitInv, Waits
  <2> QED
    BY <1>0, <2>3, <2>5, <2>6, <2>8, <2>9, <2>10, <2>11, QuietStep
<1> QED
  BY <1>1, <1>2

(* The system call of a waiter or poster returns: a waiter that acquired   *)
(* takes its unit away.                                                    *)
LEMMA StepSemReturn ==
  ASSUME Inv, NEW t \in Threads, sem_return(t)
  PROVE  Inv'
<1>0. /\ Types /\ pc[t] = "put" /\ call[t].op \in {"sem_wait", "sem_post"} /\ Held(t) = {}
      /\ pc' = [pc EXCEPT ![t] = "idle"] /\ call' = [call EXCEPT ![t] = Call(NULL)]
      /\ balance' = balance - (IF call[t].status = B_OK THEN 1 ELSE 0)
      /\ UNCHANGED <<word, sem, use, waiter_count, table, ref_count, queue>>
      /\ call[t].op = "sem_post" => call[t].status = NULL
      /\ sem \in Int /\ balance \in 0 .. MaxUnits /\ MaxUnits \in Nat
  BY UserMutexConstants DEF Inv, Local, sem_return, Returning, kernel, Types, Enter, Goto
<1>2. /\ pc' \in [Threads -> Labels] /\ pc'[t] = "idle"
      /\ call' \in [Threads -> Calls] /\ call'[t].op = NULL /\ call'[t].status = NULL
      /\ Held(t)' = {} /\ \A a \in Addresses : Entry(t, a)' = Entry(t, a)
      /\ ~Queued(t) /\ ~Queued(t)'
      /\ Alone(t) /\ KeepsQueue(t)
  BY <1>0, Enters DEF Call, Ops, Labels
<1>3. balance' = balance - In(t, SemHolders) /\ t \notin SemHolders'
      /\ t \notin UnitsBeingPosted /\ t \notin UnitsBeingPosted'
  BY <1>0, <1>2 DEF SemHolders, Acquired, In, UnitsBeingPosted
<1>4. Types'
  <2>1. balance >= Value(sem) + In(t, UnitsBeingPosted) + In(t, SemHolders)
    BY BalanceCovers
  <2>2. balance' \in 0 .. MaxUnits
    BY <1>0, <1>3, <2>1 DEF Value, In
  <2> QED
    BY <1>0, <1>2, <2>2 DEF Types
<1>5. Local(t)'
  BY <1>2 DEF Local, SwitchLabels, UnblockOps, WaitOps
<1>6. KeepsLocks(t)
  BY <1>2 DEF KeepsLocks, Writers, Readers
<1>7. KeepsMutex(t)
  BY <1>0, <1>2 DEF KeepsMutex, MutexHolders, HandedOff
<1>8. KeepsUnits(t)
  BY <1>0, <1>3 DEF KeepsUnits, In, Value
<1>10. KeepsCond(t)
  BY <1>0, <1>2 DEF KeepsCond, In, CondUsers
<1>9. KeepsPromise(t)
  <2>1. Unblockers' = Unblockers
    BY <1>0, <1>2, RolesOfOthers DEF Unblockers
  <2> QED
    BY <1>0, <1>2, <2>1 DEF KeepsPromise, WaitInv, Waits
<1> QED
  BY <1>0, <1>2, <1>4, <1>5, <1>6, <1>7, <1>8, <1>9, <1>10, QuietStep

-----------------------------------------------------------------------------
(* Waiting in the kernel *)

(* A reference is one to the entry of the table.                           *)
LEMMA HeldEntry ==
  ASSUME Inv, NEW t \in Threads, NEW a \in Held(t)
  PROVE  /\ a \in Addresses /\ Entry(t, a) = table[a]
         /\ table[a] \in Entries /\ table[a] # NULL
<1>1. a \in Addresses /\ Entry(t, a) # NULL
  BY DEF Held
<1>2. Entry(t, a) = table[a]
  BY <1>1 DEF Inv, TableInv
<1>3. table[a] \in Entries
  BY <1>1, <1>2 DEF Inv, Types
<1> QED
  BY <1>1, <1>2, <1>3

(* user_mutex_prepare_to_lock(): the mutex is taken, or its word says that *)
(* t is going to wait.                                                     *)
LEMMA StepPrepare ==
  ASSUME Inv, NEW t \in Threads, user_mutex_prepare_to_lock(t)
  PROVE  Inv'
<1> DEFINE a == Target(t)
<1>0. /\ Types /\ pc[t] = "prepare" /\ a # SEM /\ ReadLockable(Entry(t, a))
      /\ word' = [word EXCEPT ![a] = {LOCKED, WAITING}]
      /\ UNCHANGED <<sem, use, waiter_count, table, ref_count, queue, balance>>
  BY DEF Inv, user_mutex_prepare_to_lock, kernel
<1>1. /\ call[t].op \in WaitOps /\ call[t].status = NULL /\ a \in Held(t)
      /\ call[t].op = "cond_wait" => MUTEX \notin Held(t)
  BY <1>0 DEF Inv, Local
<1>2. /\ call[t].op \in {"lock", "relock", "cond_wait"} /\ a \in Words
      /\ call[t].op = "cond_wait" <=> a = COND
  BY <1>0, <1>1 DEF Target, WaitOps, Words
<1>3. PICK s \in {NULL, B_OK}, label \in {"add", "clear", "switch", "put"} :
        /\ pc' = [pc EXCEPT ![t] = label]
        /\ \/ call' = call /\ s = call[t].status
           \/ call' = [call EXCEPT ![t].status = s]
        /\ LOCKED \in word[a] <=> s = NULL
        /\ label = "add" <=> s = NULL
        /\ label = "put" => a = MUTEX
        /\ label = "switch" => a = COND
  <2>1. CASE LOCKED \in word[a]
    BY <1>1, <2>1 DEF user_mutex_prepare_to_lock, Goto
  <2>2. CASE LOCKED \notin word[a]
    BY <1>2, <2>2 DEF user_mutex_prepare_to_lock, Goto, AfterPrepare, Words
  <2> QED
    BY <2>1, <2>2
<1> HIDE DEF a
<1>4. /\ pc' \in [Threads -> Labels] /\ pc'[t] = label
      /\ call' \in [Threads -> Calls] /\ call'[t].op = call[t].op /\ call'[t].status = s
      /\ Held(t)' = Held(t) /\ \A b \in Addresses : Entry(t, b)' = Entry(t, b)
      /\ Target(t)' = Target(t) /\ Unblocked(t)' = Unblocked(t)
      /\ Queued(t)' <=> Queued(t)
      /\ Alone(t)
  <2>1. label \in Labels /\ s \in {NULL, B_OK} \cup Errors
    BY DEF Labels
  <2> QED
    BY <1>0, <1>3, <2>1, Moves
<1>5. ~Queued(t)
  BY <1>0, QueuedLabels DEF SwitchLabels
<1>6. /\ word' \in [Words -> SUBSET {LOCKED, WAITING}]
      /\ word'[a] = {LOCKED, WAITING} /\ \A b \in Words : b # a => word'[b] = word[b]
  BY <1>0, <1>2 DEF Types
<1>7. Types'
  BY <1>0, <1>4, <1>6 DEF Types
<1>8. Local(t)'
  BY <1>1, <1>2, <1>3, <1>4 DEF Local, SwitchLabels, UnblockOps, WaitOps, a, Target
<1>9. KeepsLocks(t)
  <2>1. ASSUME NEW e \in Entries, t \in Readers(e)' PROVE ReadLockable(e)
    <3>1. Entry(t, a)' = e /\ Entry(t, a)' = Entry(t, a)
      BY <1>2, <1>4, <2>1 DEF Readers, a, Entry, Words, Addresses
    <3> QED
      BY <1>0, <3>1
  <2>2. \A e \in Entries : t \notin Writers(e)'
    BY <1>4 DEF Writers
  <2> QED
    BY <1>4, <2>1, <2>2 DEF KeepsLocks
<1>10. KeepsMutex(t)
  <2>1. t \notin HandedOff /\ t \notin HandedOff'
    BY <1>0, <1>4 DEF HandedOff
  <2>2. CASE a = COND
    <3>1. t \in MutexHolders /\ t \in MutexHolders'
      BY <1>0, <1>2, <1>3, <1>4, <2>2 DEF MutexHolders
    <3> QED
      BY <1>6, <2>1, <2>2, <3>1 DEF KeepsMutex, Words
  <2>3. CASE a = MUTEX
    <3>1. t \notin MutexHolders /\ (t \in MutexHolders' <=> s = B_OK)
      BY <1>0, <1>1, <1>2, <1>3, <1>4, <2>3 DEF MutexHolders, Acquired
    <3> QED
      BY <1>3, <1>6, <2>1, <2>3, <3>1 DEF KeepsMutex
  <2> QED
    BY <1>2, <2>2, <2>3 DEF Words
<1>11. KeepsUnits(t) /\ KeepsCond(t)
  BY <1>0, <1>2, <1>4
     DEF KeepsUnits, KeepsCond, In, UnitsBeingPosted, SemHolders, CondUsers
<1>12. KeepsPromise(t)
  <2>1. Unblockers' = Unblockers
    BY <1>0, <1>4, RolesOfOthers DEF Unblockers
  <2>2. WaitInv(t)'
    BY <1>0, <1>2, <1>4, <1>6 DEF WaitInv, a
  <2> QED
    BY <1>0, <1>2, <1>6, <2>1, <2>2 DEF KeepsPromise, Words
<1>13. KeepsQueue(t)
  BY <1>5 DEF KeepsQueue
<1> QED
  BY <1>0, <1>4, <1>7, <1>8, <1>9, <1>10, <1>11, <1>12, <1>13, QuietStep

(* "possibly unset waiting flag"                                           *)
LEMMA StepUnsetWaiting ==
  ASSUME Inv, NEW t \in Threads, unset_waiting(t)
  PROVE  Inv'
<1> DEFINE a == Target(t)
<1>0. /\ Types /\ pc[t] = "clear" /\ WriteLockable(Entry(t, a)) /\ call' = call
      /\ word' = [word EXCEPT ![a] = IF NobodyWaits(Entry(t, a))
                                     THEN word[a] \ {WAITING} ELSE word[a]]
      /\ UNCHANGED <<sem, use, waiter_count, table, ref_count, queue, balance>>
  BY DEF Inv, unset_waiting, kernel
<1>1. /\ call[t].op \in {"lock", "relock", "cond_wait"} /\ call[t].status # NULL /\ a \in Held(t)
      /\ call[t].op = "cond_wait" =>
           MUTEX \notin Held(t) /\ COND \in Held(t) /\ call[t].status = B_OK
      /\ call[t].status \in {NULL, B_OK} \cup Errors
  BY <1>0 DEF Inv, Local, Types, Calls
<1>2. a \in Words /\ (call[t].op = "cond_wait" <=> a = COND)
  BY <1>0, <1>1 DEF Target, WaitOps, Words
<1>3. PICK label \in {"switch", "put"} :
        /\ pc' = [pc EXCEPT ![t] = label]
        /\ label = "switch" <=> a = COND
  BY <1>2 DEF unset_waiting, Goto, AfterPrepare
<1> HIDE DEF a
<1>4. /\ pc' \in [Threads -> Labels] /\ pc'[t] = label
      /\ call' \in [Threads -> Calls] /\ call'[t].op = call[t].op
      /\ call'[t].status = call[t].status
      /\ Held(t)' = Held(t) /\ \A b \in Addresses : Entry(t, b)' = Entry(t, b)
      /\ Target(t)' = Target(t) /\ Unblocked(t)' = Unblocked(t)
      /\ Queued(t)' <=> Queued(t)
      /\ Alone(t)
  <2>1. label \in Labels
    BY DEF Labels
  <2> QED
    BY <1>0, <1>1, <1>3, <2>1, Moves
<1>5. ~Queued(t)
  BY <1>0, QueuedLabels DEF SwitchLabels
<1>6. /\ word' \in [Words -> SUBSET {LOCKED, WAITING}]
      /\ LOCKED \in word'[MUTEX] <=> LOCKED \in word[MUTEX]
      /\ \A b \in Words : b # a => word'[b] = word[b]
      /\ ~NobodyWaits(Entry(t, a)) => word'[a] = word[a]
  BY <1>0, <1>2 DEF Types, Words
<1>7. Types'
  BY <1>0, <1>4, <1>6 DEF Types
<1>8. Local(t)'
  BY <1>1, <1>2, <1>3, <1>4 DEF Local, SwitchLabels, UnblockOps, WaitOps, a, Target
<1>9. KeepsLocks(t)
  BY <1>4 DEF KeepsLocks, Readers, Writers
<1>10. KeepsMutex(t)
  BY <1>0, <1>1, <1>2, <1>3, <1>4, <1>6 DEF KeepsMutex, MutexHolders, HandedOff, Acquired
<1>11. KeepsUnits(t) /\ KeepsCond(t)
  BY <1>0, <1>1, <1>4
     DEF KeepsUnits, KeepsCond, In, UnitsBeingPosted, SemHolders, CondUsers
<1>12. KeepsPromise(t)
  <2>1. Unblockers' = Unblockers
    BY <1>0, <1>4, RolesOfOthers DEF Unblockers
  <2>2. WaitInv(t)'
    BY <1>4, <1>5 DEF WaitInv, Waits
  <2>3. NobodyWaits(Entry(t, a)) => Waiters(a) = {}
    BY <1>0, <1>1, HeldEntry, NobodyWaiting DEF NobodyWaits, WriteLockable
  <2> QED
    BY <1>0, <1>2, <1>6, <2>1, <2>2, <2>3 DEF KeepsPromise, Words
<1>13. KeepsQueue(t)
  BY <1>5 DEF KeepsQueue
<1> QED
  BY <1>0, <1>4, <1>7, <1>8, <1>9, <1>10, <1>11, <1>12, <1>13, QuietStep

(* user_mutex_sem_acquire_locked(): a unit is taken, or the value says     *)
(* that t is going to wait.                                                *)
LEMMA StepSemAcquire ==
  ASSUME Inv, NEW t \in Threads, user_mutex_sem_acquire_locked(t)
  PROVE  Inv'
<1>0. /\ Types /\ pc[t] = "prepare" /\ Target(t) = SEM /\ ReadLockable(Entry(t, SEM))
      /\ sem' = IF sem > -1 THEN sem - 1 ELSE sem
      /\ UNCHANGED <<word, use, waiter_count, table, ref_count, queue, balance>>
      /\ sem \in Int /\ sem >= -1 /\ balance \in Int
  BY DEF Inv, user_mutex_sem_acquire_locked, SemAfterAcquire, kernel, Types
<1>1. call[t].op = "sem_wait" /\ call[t].status = NULL /\ SEM \in Held(t)
  BY <1>0 DEF Inv, Local, Target, WaitOps
<1>3. PICK s \in {NULL, B_OK}, label \in {"add", "put"} :
        /\ pc' = [pc EXCEPT ![t] = label]
        /\ \/ call' = call /\ s = call[t].status
           \/ call' = [call EXCEPT ![t].status = s]
        /\ sem > 0 <=> s = B_OK
        /\ label = "put" <=> s = B_OK
  <2>1. CASE sem > 0
    BY <1>1, <2>1 DEF user_mutex_sem_acquire_locked, Goto
  <2>2. CASE ~(sem > 0)
    BY <1>1, <2>2 DEF user_mutex_sem_acquire_locked, Goto
  <2> QED
    BY <2>1, <2>2
<1>4. /\ pc' \in [Threads -> Labels] /\ pc'[t] = label
      /\ call' \in [Threads -> Calls] /\ call'[t].op = call[t].op /\ call'[t].status = s
      /\ Held(t)' = Held(t) /\ \A b \in Addresses : Entry(t, b)' = Entry(t, b)
      /\ Target(t)' = Target(t) /\ Unblocked(t)' = Unblocked(t)
      /\ Queued(t)' <=> Queued(t)
      /\ Alone(t)
  <2>1. label \in Labels /\ s \in {NULL, B_OK} \cup Errors
    BY DEF Labels
  <2> QED
    BY <1>0, <1>3, <2>1, Moves
<1>5. ~Queued(t)
  BY <1>0, QueuedLabels DEF SwitchLabels
<1>7. Types'
  BY <1>0, <1>4 DEF Types
<1>8. Local(t)'
  BY <1>0, <1>1, <1>3, <1>4 DEF Local, SwitchLabels, UnblockOps, WaitOps
<1>9. KeepsLocks(t)
  <2>1. ASSUME NEW e \in Entries, t \in Readers(e)' PROVE ReadLockable(e)
    <3>1. Entry(t, SEM)' = e /\ Entry(t, SEM)' = Entry(t, SEM)
      BY <1>0, <1>4, <2>1 DEF Readers, Entry, Addresses
    <3> QED
      BY <1>0, <3>1
  <2>2. \A e \in Entries : t \notin Writers(e)'
    BY <1>4 DEF Writers
  <2> QED
    BY <1>4, <2>1, <2>2 DEF KeepsLocks
<1>10. KeepsMutex(t)
  BY <1>0, <1>1, <1>4 DEF KeepsMutex, MutexHolders, HandedOff
<1>11. KeepsUnits(t)
  <2>1. /\ t \notin SemHolders /\ (t \in SemHolders' <=> s = B_OK)
        /\ t \notin UnitsBeingPosted /\ t \notin UnitsBeingPosted'
    BY <1>0, <1>1, <1>3, <1>4 DEF UnitsBeingPosted, SemHolders, Acquired
  <2> QED
    BY <1>0, <1>3, <2>1 DEF KeepsUnits, In, Value
<1>14. KeepsCond(t)
  BY <1>0, <1>1, <1>4 DEF KeepsCond, In, CondUsers
<1>12. KeepsPromise(t)
  <2>1. Unblockers' = Unblockers
    BY <1>0, <1>4, RolesOfOthers DEF Unblockers
  <2>2. WaitInv(t)'
    BY <1>0, <1>3, <1>4, <1>5 DEF WaitInv, Waits
  <2> QED
    BY <1>0, <2>1, <2>2 DEF KeepsPromise, Words
<1>13. KeepsQueue(t)
  BY <1>5 DEF KeepsQueue
<1> QED
  BY <1>0, <1>4, <1>7, <1>8, <1>9, <1>10, <1>11, <1>12, <1>13, <1>14, QuietStep

(* ConditionVariableEntry::Wait() of a notified thread: it has what it     *)
(* waited for already.                                                     *)
LEMMA StepWaitNotified ==
  ASSUME Inv, NEW t \in Threads, wait_notified(t)
  PROVE  Inv'
<1>0. /\ Types /\ pc[t] = "wait" /\ ~Queued(t)
      /\ call' = [call EXCEPT ![t].status = B_OK] /\ pc' = [pc EXCEPT ![t] = "put"]
      /\ UNCHANGED <<word, sem, use, waiter_count, table, ref_count, queue, balance>>
  BY DEF Inv, wait_notified, kernel, Goto
<1>1. call[t].op \in WaitOps /\ call[t].status = NULL /\ Target(t) \in Held(t)
  BY <1>0 DEF Inv, Local
<1>4. /\ pc' \in [Threads -> Labels] /\ pc'[t] = "put"
      /\ call' \in [Threads -> Calls] /\ call'[t].op = call[t].op /\ call'[t].status = B_OK
      /\ Held(t)' = Held(t) /\ \A b \in Addresses : Entry(t, b)' = Entry(t, b)
      /\ Target(t)' = Target(t) /\ Unblocked(t)' = Unblocked(t)
      /\ Queued(t)' <=> Queued(t)
      /\ Alone(t)
  <2>1. "put" \in Labels /\ B_OK \in {NULL, B_OK} \cup Errors
    BY DEF Labels
  <2> QED
    BY <1>0, <2>1, Moves
<1>7. Types'
  BY <1>0, <1>4 DEF Types
<1>8. Local(t)'
  BY <1>1, <1>4 DEF Local, SwitchLabels, UnblockOps, WaitOps
<1>9. KeepsLocks(t)
  BY <1>4 DEF KeepsLocks, Readers, Writers
<1>10. KeepsMutex(t)
  BY <1>0, <1>1, <1>4 DEF KeepsMutex, MutexHolders, HandedOff, Acquired, WaitOps
<1>11. KeepsUnits(t) /\ KeepsCond(t)
  BY <1>0, <1>1, <1>4
     DEF KeepsUnits, KeepsCond, In, UnitsBeingPosted, SemHolders, CondUsers, Acquired
<1>12. KeepsPromise(t)
  <2>1. Unblockers' = Unblockers
    BY <1>0, <1>4, RolesOfOthers DEF Unblockers
  <2> QED
    BY <1>0, <1>4, <2>1 DEF KeepsPromise, WaitInv, Waits
<1>13. KeepsQueue(t)
  BY <1>0 DEF KeepsQueue
<1> QED
  BY <1>0, <1>4, <1>7, <1>8, <1>9, <1>10, <1>11, <1>12, <1>13, QuietStep

(* The wait times out or is interrupted: t has not taken anything.         *)
LEMMA StepWaitFails ==
  ASSUME Inv, NEW t \in Threads, NEW status \in Errors, wait_fails(t, status)
  PROVE  Inv'
<1>0. /\ Types /\ pc[t] = "wait" /\ Queued(t)
      /\ call' = [call EXCEPT ![t].status = status] /\ pc' = [pc EXCEPT ![t] = "leave"]
      /\ UNCHANGED <<word, sem, use, waiter_count, table, ref_count, queue, balance>>
  BY DEF Inv, wait_fails, kernel, Goto
<1>1. call[t].op \in WaitOps /\ call[t].status = NULL /\ Target(t) \in Held(t)
  BY <1>0 DEF Inv, Local
<1>4. /\ pc' \in [Threads -> Labels] /\ pc'[t] = "leave"
      /\ call' \in [Threads -> Calls] /\ call'[t].op = call[t].op /\ call'[t].status = status
      /\ Held(t)' = Held(t) /\ \A b \in Addresses : Entry(t, b)' = Entry(t, b)
      /\ Target(t)' = Target(t) /\ Unblocked(t)' = Unblocked(t)
      /\ Queued(t)' <=> Queued(t)
      /\ Alone(t)
  <2>1. "leave" \in Labels /\ status \in {NULL, B_OK} \cup Errors
    BY DEF Labels
  <2> QED
    BY <1>0, <2>1, Moves
<1>5. status # B_OK
  BY DEF Errors
<1>7. Types'
  BY <1>0, <1>4 DEF Types
<1>8. Local(t)'
  BY <1>1, <1>4, <1>5 DEF Local, SwitchLabels, UnblockOps, WaitOps
<1>9. KeepsLocks(t)
  BY <1>4 DEF KeepsLocks, Readers, Writers
<1>10. KeepsMutex(t)
  BY <1>0, <1>1, <1>4, <1>5 DEF KeepsMutex, MutexHolders, HandedOff, Acquired, WaitOps
<1>11. KeepsUnits(t) /\ KeepsCond(t)
  BY <1>0, <1>1, <1>4, <1>5
     DEF KeepsUnits, KeepsCond, In, UnitsBeingPosted, SemHolders, CondUsers, Acquired
<1>12. KeepsPromise(t)
  <2>1. Unblockers' = Unblockers
    BY <1>0, <1>4, RolesOfOthers DEF Unblockers
  <2> QED
    BY <1>0, <1>4, <2>1 DEF KeepsPromise, WaitInv, Waits
<1>13. KeepsQueue(t)
  BY <1>4, <1>5 DEF KeepsQueue
<1> QED
  BY <1>0, <1>4, <1>7, <1>8, <1>9, <1>10, <1>11, <1>12, <1>13, QuietStep

(* user_mutex_lock_locked() looks at the queue of the mutex.               *)
LEMMA StepCheckWaiting ==
  ASSUME Inv, NEW t \in Threads, check_waiting(t)
  PROVE  Inv'
<1>0. /\ Types /\ pc[t] = "check_waiting" /\ call' = call
      /\ UNCHANGED <<word, sem, use, waiter_count, table, ref_count, queue, balance>>
  BY DEF Inv, check_waiting, kernel
<1>1. /\ call[t].op \in {"lock", "relock"} /\ call[t].status \in Errors
      /\ Target(t) \in Held(t)
  BY <1>0 DEF Inv, Local
<1>3. PICK label \in {"clear", "put"} : pc' = [pc EXCEPT ![t] = label]
  BY DEF check_waiting, Goto
<1>4. /\ pc' \in [Threads -> Labels] /\ pc'[t] = label
      /\ call' \in [Threads -> Calls] /\ call'[t].op = call[t].op
      /\ call'[t].status = call[t].status
      /\ Held(t)' = Held(t) /\ \A b \in Addresses : Entry(t, b)' = Entry(t, b)
      /\ Target(t)' = Target(t) /\ Unblocked(t)' = Unblocked(t)
      /\ Queued(t)' <=> Queued(t)
      /\ Alone(t)
  <2>1. label \in Labels /\ call[t].status \in {NULL, B_OK} \cup Errors
    BY <1>1 DEF Labels
  <2> QED
    BY <1>0, <1>3, <2>1, Moves
<1>5. ~Queued(t)
  BY <1>0, QueuedLabels DEF SwitchLabels
<1>7. Types'
  BY <1>0, <1>4 DEF Types
<1>8. Local(t)'
  BY <1>1, <1>4 DEF Local, SwitchLabels, UnblockOps, WaitOps, Errors
<1>9. KeepsLocks(t)
  BY <1>4 DEF KeepsLocks, Readers, Writers
<1>10. KeepsMutex(t)
  BY <1>0, <1>1, <1>4 DEF KeepsMutex, MutexHolders, HandedOff, Acquired, Errors
<1>11. KeepsUnits(t) /\ KeepsCond(t)
  BY <1>0, <1>1, <1>4
     DEF KeepsUnits, KeepsCond, In, UnitsBeingPosted, SemHolders, CondUsers
<1>12. KeepsPromise(t)
  <2>1. Unblockers' = Unblockers
    BY <1>0, <1>4, RolesOfOthers DEF Unblockers
  <2> QED
    BY <1>0, <1>4, <1>5, <2>1 DEF KeepsPromise, WaitInv, Waits
<1>13. KeepsQueue(t)
  BY <1>5 DEF KeepsQueue
<1> QED
  BY <1>0, <1>4, <1>7, <1>8, <1>9, <1>10, <1>11, <1>12, <1>13, QuietStep

-----------------------------------------------------------------------------
(* Unblocking *)

(* The second half of user_mutex_switch_lock() unlocks the mutex; t may be *)
(* in the queue of the condition variable by now.                          *)
LEMMA StepSwitchLock ==
  ASSUME Inv, NEW t \in Threads, user_mutex_switch_lock(t)
  PROVE  Inv'
<1>0. /\ Types /\ pc[t] = "switch" /\ call' = call
      /\ word' = [word EXCEPT ![MUTEX] = word[MUTEX] \ {LOCKED}]
      /\ UNCHANGED <<sem, use, waiter_count, table, ref_count, queue, balance>>
  BY DEF Inv, user_mutex_switch_lock, kernel
<1>1. /\ call[t].op = "cond_wait" /\ call[t].status \in {NULL, B_OK}
      /\ COND \in Held(t) /\ MUTEX \notin Held(t)
  BY <1>0 DEF Inv, Local, SwitchLabels
<1>2. Target(t) = COND /\ Unblocked(t) = MUTEX
  BY <1>1 DEF Target, Unblocked
<1>3. PICK label \in {"unblock_get", "wait", "put"} :
        /\ pc' = [pc EXCEPT ![t] = label]
        /\ WAITING \in word[MUTEX] <=> label = "unblock_get"
        /\ label = "wait" => call[t].status = NULL
        /\ label = "put" => call[t].status = B_OK
  BY <1>1 DEF user_mutex_switch_lock, Goto, AfterUnblock
<1>4. /\ pc' \in [Threads -> Labels] /\ pc'[t] = label
      /\ call' \in [Threads -> Calls] /\ call'[t].op = call[t].op
      /\ call'[t].status = call[t].status
      /\ Held(t)' = Held(t) /\ \A b \in Addresses : Entry(t, b)' = Entry(t, b)
      /\ Target(t)' = Target(t) /\ Unblocked(t)' = Unblocked(t)
      /\ Queued(t)' <=> Queued(t)
      /\ Alone(t)
  <2>1. label \in Labels /\ call[t].status \in {NULL, B_OK} \cup Errors
    BY <1>1 DEF Labels
  <2> QED
    BY <1>0, <1>3, <2>1, Moves
<1>5. Queued(t) => call[t].status # B_OK
  BY QueuedLabels
<1>6. /\ word' \in [Words -> SUBSET {LOCKED, WAITING}]
      /\ word'[MUTEX] = word[MUTEX] \ {LOCKED} /\ word'[COND] = word[COND]
  BY <1>0 DEF Types, Words
<1>7. Types'
  BY <1>0, <1>4, <1>6 DEF Types
<1>8. Local(t)'
  BY <1>1, <1>2, <1>3, <1>4 DEF Local, SwitchLabels, UnblockOps, WaitOps
<1>9. KeepsLocks(t)
  BY <1>4 DEF KeepsLocks, Readers, Writers
<1>10. KeepsMutex(t)
  BY <1>0, <1>1, <1>4, <1>6 DEF KeepsMutex, MutexHolders, HandedOff, Owners
<1>11. KeepsUnits(t) /\ KeepsCond(t)
  BY <1>0, <1>1, <1>4
     DEF KeepsUnits, KeepsCond, In, UnitsBeingPosted, SemHolders, CondUsers
<1>12. KeepsPromise(t)
  <2>1. WAITING \in word[MUTEX] => t \in Unblockers'
    BY <1>2, <1>3, <1>4 DEF Unblockers
  <2>2. WAITING \notin word[MUTEX] => Waiters(MUTEX) = {}
    BY DEF Inv, WaitInv, Waiters
  <2>3. WaitInv(t)'
    BY <1>0, <1>2, <1>4, <1>6 DEF Inv, WaitInv, Waits
  <2> QED
    BY <1>0, <1>6, <2>1, <2>2, <2>3 DEF KeepsPromise, Words
<1>13. KeepsQueue(t)
  BY <1>1, <1>3, <1>4, <1>5 DEF KeepsQueue, SwitchLabels
<1> QED
  BY <1>0, <1>4, <1>7, <1>8, <1>9, <1>10, <1>11, <1>12, <1>13, QuietStep

(* user_mutex_unblock() up to the notification: the mutex is handed off,   *)
(* unless nobody waits or somebody has locked it.                          *)
LEMMA StepUnblock ==
  ASSUME Inv, NEW t \in Threads, user_mutex_unblock(t)
  PROVE  Inv'
<1> DEFINE a == Unblocked(t)
           e == Entry(t, a)
<1>0. /\ Types /\ pc[t] = "unblock" /\ WriteLockable(e) /\ call' = call
      /\ UNCHANGED <<sem, use, waiter_count, table, ref_count, queue, balance>>
  BY DEF Inv, user_mutex_unblock, kernel
<1>1. /\ call[t].op \in UnblockOps /\ a \in Held(t) /\ call[t].status \in {NULL, B_OK}
      /\ call[t].op = "cond_wait" => COND \in Held(t)
      /\ call[t].op # "cond_wait" => call[t].status = NULL
  BY <1>0 DEF Inv, Local, SwitchLabels, UnblockOps
<1>2. /\ a \in Words /\ (call[t].op \in {"signal", "broadcast"} <=> a = COND)
      /\ call[t].op = "cond_wait" => Target(t) = COND
  BY <1>1 DEF Unblocked, Target, Words, UnblockOps
<1>3. PICK label \in {"notify", "wait", "put"} :
        /\ pc' = [pc EXCEPT ![t] = label]
        /\ label = "wait" => call[t].op = "cond_wait" /\ call[t].status = NULL
        /\ label = "put" => call[t].op # "cond_wait" \/ call[t].status = B_OK
        /\ \/ /\ label # "notify" /\ queue[e] = <<>>
              /\ word' = [word EXCEPT ![a] = word[a] \ {WAITING}]
           \/ /\ label = "notify" /\ (LOCKED \notin word[a] \/ a = COND)
              /\ \/ word' = [word EXCEPT ![a] = word[a] \cup {LOCKED}]
                 \/ a = COND /\ word' = [word EXCEPT ![a] = word[a]]
           \/ /\ label # "notify" /\ LOCKED \in word[a]
              /\ word' = [word EXCEPT ![a] = word[a] \cup {LOCKED}]
  <2>1. CASE NobodyWaits(e)
    <3>1. PICK label \in {"wait", "put"} :
            /\ pc' = [pc EXCEPT ![t] = label]
            /\ label = "wait" => call[t].op = "cond_wait" /\ call[t].status = NULL
            /\ label = "put" => call[t].op # "cond_wait" \/ call[t].status = B_OK
      BY <1>1, <2>1 DEF user_mutex_unblock, Goto, AfterUnblock
    <3>2. word' = [word EXCEPT ![a] = word[a] \ {WAITING}] /\ queue[e] = <<>>
      BY <2>1 DEF user_mutex_unblock, NobodyWaits
    <3> QED
      BY <3>1, <3>2
  <2>2. CASE ~NobodyWaits(e) /\ call[t].op = "broadcast"
    BY <1>2, <2>2 DEF user_mutex_unblock, Goto
  <2>3. CASE ~NobodyWaits(e) /\ call[t].op # "broadcast" /\ LOCKED \notin word[a]
    BY <2>3 DEF user_mutex_unblock, Goto, HandsOff
  <2>4. CASE ~NobodyWaits(e) /\ call[t].op # "broadcast" /\ LOCKED \in word[a]
    BY <1>1, <2>4 DEF user_mutex_unblock, Goto, HandsOff, AfterUnblock
  <2> QED
    BY <2>1, <2>2, <2>3, <2>4
<1> HIDE DEF a, e
<1>4. /\ pc' \in [Threads -> Labels] /\ pc'[t] = label
      /\ call' \in [Threads -> Calls] /\ call'[t].op = call[t].op
      /\ call'[t].status = call[t].status
      /\ Held(t)' = Held(t) /\ \A b \in Addresses : Entry(t, b)' = Entry(t, b)
      /\ Target(t)' = Target(t) /\ Unblocked(t)' = Unblocked(t)
      /\ Queued(t)' <=> Queued(t)
      /\ Alone(t)
  <2>1. label \in Labels /\ call[t].status \in {NULL, B_OK} \cup Errors
    BY <1>1 DEF Labels
  <2> QED
    BY <1>0, <1>3, <2>1, Moves
<1>5. Queued(t) => call[t].status # B_OK /\ call[t].op = "cond_wait"
  BY <1>0, <1>1, QueuedLabels DEF UnblockOps, WaitOps
<1>6. /\ word' \in [Words -> SUBSET {LOCKED, WAITING}]
      /\ \A b \in Words : b # a => word'[b] = word[b]
      /\ WAITING \in word[a] => WAITING \in word'[a] \/ queue[e] = <<>>
      /\ LOCKED \in word'[a] <=> LOCKED \in word[a] \/ (label = "notify" /\ LOCKED \in word'[a])
      /\ a = MUTEX /\ label = "notify" => LOCKED \in word'[a] /\ LOCKED \notin word[a]
      /\ label # "notify" => LOCKED \in word'[a] \/ queue[e] = <<>>
  BY <1>0, <1>2, <1>3 DEF Types, Words
<1>7. Types'
  BY <1>0, <1>4, <1>6 DEF Types
<1>8. Local(t)'
  BY <1>1, <1>2, <1>3, <1>4 DEF Local, SwitchLabels, UnblockOps, WaitOps, a
<1>9. KeepsLocks(t)
  <2>1. ASSUME NEW f \in Entries, t \in Writers(f)' PROVE WriteLockable(f)
    <3>1. Entry(t, a)' = f /\ Entry(t, a)' = Entry(t, a)
      BY <1>2, <1>4, <2>1 DEF Writers, a, Entry, Words, Addresses
    <3> QED
      BY <1>0, <3>1 DEF e
  <2>2. \A f \in Entries : t \notin Readers(f)'
    BY <1>4 DEF Readers
  <2> QED
    BY <1>4, <2>1, <2>2 DEF KeepsLocks
<1>10. KeepsMutex(t)
  <2>1. CASE a = COND
    BY <1>0, <1>1, <1>2, <1>4, <1>6, <2>1 DEF KeepsMutex, MutexHolders, HandedOff, Words, a
  <2>2. CASE a = MUTEX
    <3>1. t \notin MutexHolders /\ t \notin MutexHolders' /\ t \notin HandedOff
          /\ (t \in HandedOff' <=> label = "notify")
      BY <1>0, <1>1, <1>2, <1>4, <2>2 DEF MutexHolders, HandedOff, UnblockOps, a
    <3> QED
      BY <1>6, <2>2, <3>1 DEF KeepsMutex
  <2> QED
    BY <1>2, <2>1, <2>2 DEF Words
<1>11. KeepsUnits(t) /\ KeepsCond(t)
  BY <1>0, <1>1, <1>4
     DEF KeepsUnits, KeepsCond, In, UnitsBeingPosted, SemHolders, CondUsers, UnblockOps
<1>12. KeepsPromise(t)
  <2>1. queue[e] = <<>> => Waiters(a) = {}
    BY <1>0, <1>1, HeldEntry, NobodyWaiting DEF WriteLockable, e
  <2>2. a = COND => Unblockers' = Unblockers
    BY <1>0, <1>4, RolesOfOthers DEF Unblockers, a
  <2>3. WaitInv(t)'
    <3> SUFFICES ASSUME Waits(t)' PROVE WaitInv(t)'
      BY DEF WaitInv
    <3>1. Waits(t) /\ call[t].op = "cond_wait" /\ Target(t) = COND /\ a = MUTEX
      BY <1>0, <1>2, <1>4, <1>5 DEF Waits, Words
    <3> QED
      BY <1>4, <1>6, <3>1 DEF Inv, WaitInv, Words
  <2> QED
    BY <1>0, <1>2, <1>6, <2>1, <2>2, <2>3 DEF KeepsPromise, Words
<1>13. KeepsQueue(t)
  BY <1>3, <1>4, <1>5 DEF KeepsQueue, SwitchLabels
<1> QED
  BY <1>0, <1>4, <1>7, <1>8, <1>9, <1>10, <1>11, <1>12, <1>13, QuietStep

(* What the holder of the write lock finds                                 *)
LEMMA WriterFinds ==
  ASSUME Inv, NEW t \in Threads, pc[t] \in {"notify", "no_waiter", "finish"}
  PROVE  /\ Unblocked(t) \in Held(t) /\ Unblocked(t) \in Addresses
         /\ Entry(t, Unblocked(t)) = table[Unblocked(t)] /\ table[Unblocked(t)] \in Entries
         /\ t \in Writers(table[Unblocked(t)]) /\ Readers(table[Unblocked(t)]) = {}
         /\ pc[t] = "no_waiter" => queue[table[Unblocked(t)]] = <<>>
         /\ call[t].op \in UnblockOps \cup {"sem_post"}
         /\ call[t].op = "sem_post" <=> Unblocked(t) = SEM
         /\ call[t].op \in {"signal", "broadcast"} <=> Unblocked(t) = COND
         /\ call[t].op = "cond_wait" => COND \in Held(t) /\ call[t].status \in {NULL, B_OK}
         /\ call[t].op # "cond_wait" => call[t].status = NULL
<1>1. Unblocked(t) \in Held(t) /\ call[t].op \in UnblockOps \cup {"sem_post"}
      /\ (call[t].op = "cond_wait" => COND \in Held(t) /\ call[t].status \in {NULL, B_OK})
      /\ (call[t].op # "cond_wait" => call[t].status = NULL)
  BY DEF Inv, Local, SwitchLabels, UnblockOps
<1>2. /\ Unblocked(t) \in Addresses /\ Entry(t, Unblocked(t)) = table[Unblocked(t)]
      /\ table[Unblocked(t)] \in Entries
  BY <1>1, HeldEntry
<1>3. t \in Writers(table[Unblocked(t)])
  BY <1>2 DEF Writers
<1>4. /\ Readers(table[Unblocked(t)]) = {}
      /\ pc[t] = "no_waiter" => queue[table[Unblocked(t)]] = <<>>
  BY <1>2, <1>3 DEF Inv, WriterInv
<1>5. /\ call[t].op = "sem_post" <=> Unblocked(t) = SEM
      /\ call[t].op \in {"signal", "broadcast"} <=> Unblocked(t) = COND
  BY <1>1 DEF Unblocked, UnblockOps
<1> QED
  BY <1>1, <1>2, <1>3, <1>4, <1>5

(* Nobody was notified: the mutex is unlocked, or the semaphore's value    *)
(* incremented.                                                            *)
LEMMA StepNoWaiter ==
  ASSUME Inv, NEW t \in Threads, no_waiter(t)
  PROVE  Inv'
<1> DEFINE a == Unblocked(t)
<1>0. /\ Types /\ pc[t] = "no_waiter" /\ call' = call
      /\ UNCHANGED <<use, waiter_count, table, ref_count, queue, balance>>
      /\ sem \in Int /\ sem >= -1 /\ balance \in Int
  BY DEF Inv, no_waiter, kernel, Types
<1>1. /\ a \in Held(t) /\ a \in Addresses
      /\ Entry(t, a) = table[a] /\ table[a] \in Entries
      /\ t \in Writers(table[a]) /\ Readers(table[a]) = {}
      /\ queue[table[a]] = <<>>
      /\ call[t].op \in UnblockOps \cup {"sem_post"}
      /\ call[t].op = "sem_post" <=> a = SEM
      /\ call[t].op \in {"signal", "broadcast"} <=> a = COND
      /\ call[t].op = "cond_wait" => COND \in Held(t) /\ call[t].status \in {NULL, B_OK}
      /\ call[t].op # "cond_wait" => call[t].status = NULL
  BY <1>0, WriterFinds
<1>2. Waiters(a) = {}
  BY <1>1, NobodyWaiting
<1>3. PICK label \in {"put", "finish"} :
        /\ pc' = [pc EXCEPT ![t] = label]
        /\ label = "put" <=> a = SEM
        /\ a = SEM => sem' = Released(sem) /\ word' = word
        /\ a # SEM => word' = [word EXCEPT ![a] = word[a] \ {LOCKED}] /\ sem' = sem
  BY DEF no_waiter, Goto
<1>14. call[t].op = "cond_wait" => Target(t) = COND /\ a = MUTEX
  BY DEF Target, Unblocked
<1> HIDE DEF a
<1>4. /\ pc' \in [Threads -> Labels] /\ pc'[t] = label
      /\ call' \in [Threads -> Calls] /\ call'[t].op = call[t].op
      /\ call'[t].status = call[t].status
      /\ Held(t)' = Held(t) /\ \A b \in Addresses : Entry(t, b)' = Entry(t, b)
      /\ Target(t)' = Target(t) /\ Unblocked(t)' = Unblocked(t)
      /\ Queued(t)' <=> Queued(t)
      /\ Alone(t)
  <2>1. label \in Labels /\ call[t].status \in {NULL, B_OK} \cup Errors
    BY <1>1 DEF Labels
  <2> QED
    BY <1>0, <1>3, <2>1, Moves
<1>5. Queued(t) => call[t].status # B_OK /\ call[t].op = "cond_wait"
  BY <1>0, QueuedLabels
<1>6. /\ word' \in [Words -> SUBSET {LOCKED, WAITING}]
      /\ \A b \in Words : b # a => word'[b] = word[b]
      /\ \A b \in Words : WAITING \in word[b] <=> WAITING \in word'[b]
      /\ a = MUTEX => LOCKED \notin word'[MUTEX]
      /\ sem' \in Int /\ sem' >= -1
      /\ a # SEM => sem' = sem
      /\ a = SEM => Value(sem') = Value(sem) + 1
  <2>1. CASE a = SEM
    BY <1>0, <1>3, <2>1 DEF Types, Words, Released, Value
  <2>2. CASE a # SEM
    BY <1>0, <1>1, <1>3, <2>2 DEF Types, Words, Addresses
  <2> QED
    BY <2>1, <2>2
<1>7. Types'
  BY <1>0, <1>4, <1>6 DEF Types
<1>8. Local(t)'
  BY <1>1, <1>3, <1>4, <1>14 DEF Local, SwitchLabels, UnblockOps, WaitOps, a
<1>9. KeepsLocks(t)
  <2>1. ASSUME NEW f \in Entries, t \in Writers(f)' PROVE t \in Writers(f)
    <3>1. Entry(t, a)' = f /\ Entry(t, a)' = Entry(t, a)
      BY <1>1, <1>4, <2>1 DEF Writers, a, Entry
    <3> QED
      BY <1>0, <1>1, <3>1 DEF Writers, a
  <2>2. \A f \in Entries : t \notin Readers(f)'
    BY <1>4 DEF Readers
  <2> QED
    BY <1>4, <2>1, <2>2 DEF KeepsLocks
<1>10. KeepsMutex(t)
  <2>1. CASE a # MUTEX
    BY <1>0, <1>1, <1>4, <1>6, <1>14, <2>1
       DEF KeepsMutex, MutexHolders, HandedOff, Words, UnblockOps, a
  <2>2. CASE a = MUTEX
    <3>1. t \in HandedOff /\ t \notin MutexHolders' /\ t \notin HandedOff'
      BY <1>0, <1>1, <1>3, <1>4, <2>2 DEF MutexHolders, HandedOff, UnblockOps, a
    <3> QED
      BY <1>6, <2>2, <3>1 DEF KeepsMutex, Owners
  <2> QED
    BY <2>1, <2>2
<1>11. KeepsUnits(t)
  <2>1. /\ t \notin SemHolders /\ t \notin SemHolders'
        /\ t \in UnitsBeingPosted <=> a = SEM
        /\ t \notin UnitsBeingPosted'
    BY <1>0, <1>1, <1>3, <1>4 DEF UnitsBeingPosted, SemHolders, UnblockOps
  <2>2. Value(sem) \in Int /\ Value(sem') \in Int
    BY <1>0, <1>6 DEF Value
  <2> QED
    BY <1>0, <1>6, <2>1, <2>2 DEF KeepsUnits, In
<1>15. KeepsCond(t)
  BY <1>0, <1>4 DEF KeepsCond, In, CondUsers
<1>12. KeepsPromise(t)
  <2>2. Unblockers' = Unblockers
    BY <1>0, <1>4, RolesOfOthers DEF Unblockers
  <2>3. WaitInv(t)'
    <3> SUFFICES ASSUME Waits(t)' PROVE WaitInv(t)'
      BY DEF WaitInv
    <3>1. Waits(t) /\ Target(t) = COND /\ a = MUTEX
      BY <1>0, <1>3, <1>4, <1>5, <1>14 DEF Waits
    <3> QED
      BY <1>4, <1>6, <3>1 DEF Inv, WaitInv, Words
  <2> QED
    BY <1>0, <1>2, <1>6, <2>2, <2>3 DEF KeepsPromise, Words
<1>13. KeepsQueue(t)
  BY <1>1, <1>3, <1>4, <1>5 DEF KeepsQueue, SwitchLabels
<1> QED
  BY <1>0, <1>4, <1>7, <1>8, <1>9, <1>10, <1>11, <1>12, <1>13, <1>15, QuietStep

(* Without waiters the word is not contended any more.                     *)
LEMMA StepFinish ==
  ASSUME Inv, NEW t \in Threads, finish(t)
  PROVE  Inv'
<1> DEFINE a == Unblocked(t)
<1>0. /\ Types /\ pc[t] = "finish" /\ call' = call
      /\ UNCHANGED <<use, waiter_count, table, ref_count, queue, balance>>
      /\ sem \in Int /\ sem >= -1 /\ balance \in Int
  BY DEF Inv, finish, kernel, Types
<1>1. /\ a \in Held(t) /\ a \in Addresses
      /\ Entry(t, a) = table[a] /\ table[a] \in Entries
      /\ t \in Writers(table[a]) /\ Readers(table[a]) = {}
      /\ call[t].op \in UnblockOps \cup {"sem_post"}
      /\ call[t].op = "sem_post" <=> a = SEM
      /\ call[t].op \in {"signal", "broadcast"} <=> a = COND
      /\ call[t].op = "cond_wait" => COND \in Held(t) /\ call[t].status \in {NULL, B_OK}
      /\ call[t].op # "cond_wait" => call[t].status = NULL
  BY <1>0, WriterFinds
<1>2. queue[table[a]] = <<>> => Waiters(a) = {}
  BY <1>1, NobodyWaiting
<1>3. /\ a = SEM => /\ sem' = IF queue[table[a]] = <<>> /\ sem = -1 THEN 0 ELSE sem
                    /\ word' = word
      /\ a # SEM => /\ word' = [word EXCEPT ![a] = IF queue[table[a]] = <<>>
                                                   THEN word[a] \ {WAITING} ELSE word[a]]
                    /\ sem' = sem
  BY <1>1 DEF finish, NobodyWaits
<1>16. PICK label \in {"put", "wait"} :
        /\ pc' = [pc EXCEPT ![t] = label]
        /\ label = "wait" => call[t].op = "cond_wait" /\ call[t].status = NULL
        /\ label = "put" => call[t].op # "cond_wait" \/ call[t].status = B_OK
  BY <1>1 DEF finish, Goto, AfterUnblock
<1>14. call[t].op = "cond_wait" => Target(t) = COND /\ a = MUTEX
  BY DEF Target, Unblocked
<1> HIDE DEF a
<1>4. /\ pc' \in [Threads -> Labels] /\ pc'[t] = label
      /\ call' \in [Threads -> Calls] /\ call'[t].op = call[t].op
      /\ call'[t].status = call[t].status
      /\ Held(t)' = Held(t) /\ \A b \in Addresses : Entry(t, b)' = Entry(t, b)
      /\ Target(t)' = Target(t) /\ Unblocked(t)' = Unblocked(t)
      /\ Queued(t)' <=> Queued(t)
      /\ Alone(t)
  <2>1. label \in Labels /\ call[t].status \in {NULL, B_OK} \cup Errors
    BY <1>1 DEF Labels
  <2> QED
    BY <1>0, <1>16, <2>1, Moves
<1>5. Queued(t) => call[t].status # B_OK /\ call[t].op = "cond_wait"
  BY <1>0, QueuedLabels
<1>6. /\ word' \in [Words -> SUBSET {LOCKED, WAITING}]
      /\ \A b \in Words : b # a => word'[b] = word[b]
      /\ \A b \in Words : LOCKED \in word[b] <=> LOCKED \in word'[b]
      /\ a \in Words /\ WAITING \in word[a] => WAITING \in word'[a] \/ queue[table[a]] = <<>>
      /\ sem' \in Int /\ sem' >= -1 /\ Value(sem') = Value(sem)
      /\ sem = -1 => sem' = -1 \/ (a = SEM /\ queue[table[a]] = <<>>)
  <2>1. CASE a = SEM
    BY <1>0, <1>3, <2>1 DEF Types, Words, Value
  <2>2. CASE a # SEM
    BY <1>0, <1>1, <1>3, <2>2 DEF Types, Words, Addresses
  <2> QED
    BY <2>1, <2>2
<1>7. Types'
  BY <1>0, <1>4, <1>6 DEF Types
<1>8. Local(t)'
  BY <1>1, <1>16, <1>4, <1>14 DEF Local, SwitchLabels, UnblockOps, WaitOps, a
<1>9. KeepsLocks(t)
  BY <1>4 DEF KeepsLocks, Readers, Writers
<1>10. KeepsMutex(t)
  BY <1>0, <1>1, <1>4, <1>6, <1>14
     DEF KeepsMutex, MutexHolders, HandedOff, Words, UnblockOps
<1>11. KeepsUnits(t) /\ KeepsCond(t)
  BY <1>0, <1>1, <1>4, <1>6
     DEF KeepsUnits, KeepsCond, In, UnitsBeingPosted, SemHolders, CondUsers, UnblockOps
<1>12. KeepsPromise(t)
  <2>2. Unblockers' = Unblockers
    BY <1>0, <1>4, RolesOfOthers DEF Unblockers
  <2>3. WaitInv(t)'
    <3> SUFFICES ASSUME Waits(t)' PROVE WaitInv(t)'
      BY DEF WaitInv
    <3>1. Waits(t) /\ Target(t) = COND /\ a = MUTEX
      BY <1>0, <1>16, <1>4, <1>5, <1>14 DEF Waits
    <3> QED
      BY <1>4, <1>6, <3>1 DEF Inv, WaitInv, Words
  <2> QED
    BY <1>0, <1>2, <1>6, <2>2, <2>3 DEF KeepsPromise, Words
<1>13. KeepsQueue(t)
  BY <1>16, <1>4, <1>5 DEF KeepsQueue, SwitchLabels
<1> QED
  BY <1>0, <1>4, <1>7, <1>8, <1>9, <1>10, <1>11, <1>12, <1>13, QuietStep

-----------------------------------------------------------------------------
(* The table *)

(* A step that leaves the queues and the rw_locks alone                    *)
LEMMA TableStep ==
  ASSUME Inv, NEW t \in Threads, Types', Alone(t), Local(t)', TableInv', UNCHANGED queue,
         Queued(t) => Entry(t, Target(t))' = Entry(t, Target(t)),
         KeepsQueue(t), KeepsLocks(t), KeepsMutex(t), KeepsUnits(t), KeepsCond(t),
         KeepsPromise(t)
  PROVE  Inv'
<1>1. \A e \in Entries :
        /\ IsInjective(queue'[e])
        /\ t \in Range(queue'[e]) =>
             /\ Entry(t, Target(t))' = e /\ call'[t].op \in WaitOps
             /\ call'[t].status # B_OK
             /\ \/ pc'[t] \in {"wait", "leave"}
                \/ call'[t].op = "cond_wait" /\ pc'[t] \in SwitchLabels
  BY QueuesKept
<1>2. \A e \in Entries : WriterInv(e)'
  BY WriterPart DEF Inv, KeepsLocks
<1> QED
  BY <1>1, <1>2, OwnStep

(* A thread gets a reference to the entry of an address, which may be new. *)
LEMMA Gets ==
  ASSUME Inv, NEW t \in Threads, NEW a \in Addresses, a \notin Held(t), NEW e \in Entries,
         NEW n, NEW label \in Labels, NEW p, p = [call[t].ptr EXCEPT ![a] = e],
         \/ table[a] # NULL /\ e = table[a] /\ n = ref_count[e] + 1
         \/ table[a] = NULL /\ e \notin {table[b] : b \in Addresses} /\ n = 1,
         table' = [table EXCEPT ![a] = e], ref_count' = [ref_count EXCEPT ![e] = n],
         call' = [call EXCEPT ![t].ptr = p], pc' = [pc EXCEPT ![t] = label],
         UNCHANGED queue
  PROVE  /\ pc' \in [Threads -> Labels] /\ pc'[t] = label
         /\ call' \in [Threads -> Calls] /\ call'[t].op = call[t].op
         /\ call'[t].status = call[t].status
         /\ table' \in [Addresses -> Entries \cup {NULL}]
         /\ ref_count' \in [Entries -> 0 .. Cardinality(Threads)]
         /\ Held(t)' = Held(t) \cup {a}
         /\ \A b \in Addresses : b # a => Entry(t, b)' = Entry(t, b)
         /\ Target(t)' = Target(t) /\ Unblocked(t)' = Unblocked(t)
         /\ Queued(t)' <=> Queued(t)
         /\ Alone(t)
         /\ TableInv'
<1>0. Types /\ TableInv /\ NULL \notin Entries
  BY UserMutexConstants DEF Inv
<1>1. /\ call' \in [Threads -> Calls]
      /\ \A u \in Threads : u # t => call'[u] = call[u]
      /\ call'[t].op = call[t].op /\ call'[t].status = call[t].status
      /\ call'[t].ptr = p /\ call[t].ptr \in [Addresses -> Entries \cup {NULL}]
  <2>1. call[t] \in Calls
    BY <1>0 DEF Types
  <2>2. call[t].ptr \in [Addresses -> Entries \cup {NULL}]
    BY <2>1 DEF Calls
  <2>3. p \in [Addresses -> Entries \cup {NULL}]
    BY <2>2
  <2> QED
    BY <1>0, <2>2, <2>3, GetCall
<1>2. /\ pc' \in [Threads -> Labels] /\ pc'[t] = label
      /\ \A u \in Threads : u # t => pc'[u] = pc[u]
  BY <1>0 DEF Types
<1>3. Alone(t)
  BY <1>1, <1>2 DEF Alone
<1>4. /\ Target(t)' = Target(t) /\ Unblocked(t)' = Unblocked(t)
      /\ Queued(t)' <=> Queued(t)
  BY <1>1 DEF Target, Unblocked, Queued
<1>5. /\ \A b \in Addresses : b # a => Entry(t, b)' = Entry(t, b)
      /\ Entry(t, a)' = e
  BY <1>1 DEF Entry
<1>6. Held(t)' = Held(t) \cup {a} /\ Entry(t, a) = NULL
  BY <1>0, <1>5 DEF Held
<1>7. /\ table' \in [Addresses -> Entries \cup {NULL}]
      /\ table'[a] = e /\ \A b \in Addresses : b # a => table'[b] = table[b]
  BY <1>0 DEF Types
<1>8. \A u \in Threads, b \in Addresses : u # t => Entry(u, b)' = Entry(u, b)
  BY <1>3, RolesOfOthers
<1>9. /\ \A b \in Addresses : b # a => Referrers(b)' = Referrers(b)
      /\ Referrers(a)' = Referrers(a) \cup {t} /\ t \notin Referrers(a)
  BY <1>0, <1>5, <1>6, <1>8 DEF Referrers
<1>10. n = Cardinality(Referrers(a)') /\ n \in 0 .. Cardinality(Threads)
  <2>1. Referrers(a) \in SUBSET Threads /\ Referrers(a)' \in SUBSET Threads
    BY DEF Referrers
  <2>2. /\ Cardinality(Referrers(a)) \in Nat /\ Cardinality(Referrers(a)') \in Nat
        /\ Cardinality(Referrers(a)') = Cardinality(Referrers(a)) - In(t, Referrers(a))
                                          + In(t, Referrers(a)')
    BY <1>9, <2>1, CardinalityChange
  <2>3. Cardinality(Referrers(a)') = Cardinality(Referrers(a)) + 1
    BY <1>9, <2>2 DEF In
  <2>4. Cardinality(Referrers(a)') <= Cardinality(Threads) /\ Cardinality(Threads) \in Nat
    BY <2>1, UserMutexConstants, FS_Subset, FS_CardinalityType
  <2>5. table[a] = NULL => Referrers(a) = {} /\ Cardinality(Referrers(a)) = 0
    BY <1>0, FS_EmptySet DEF TableInv, Referrers
  <2>6. table[a] # NULL => ref_count[e] = Cardinality(Referrers(a))
    BY <1>0 DEF TableInv
  <2> QED
    BY <2>2, <2>3, <2>4, <2>5, <2>6
<1>11. /\ ref_count' \in [Entries -> 0 .. Cardinality(Threads)]
       /\ ref_count'[e] = n /\ \A f \in Entries : f # e => ref_count'[f] = ref_count[f]
  BY <1>0, <1>10 DEF Types
<1>12. \A b \in Addresses : b # a => table[b] # e
  BY <1>0 DEF TableInv
<1>13. TableInv'
  <2>1. ASSUME NEW u \in Threads, NEW b \in Addresses, Entry(u, b)' # NULL
        PROVE  table'[b] = Entry(u, b)'
    <3>1. CASE u = t /\ b = a
      BY <1>5, <1>7, <3>1
    <3>2. CASE u = t /\ b # a
      BY <1>0, <1>5, <1>7, <2>1, <3>2 DEF TableInv
    <3>3. CASE u # t
      BY <1>0, <1>7, <1>8, <2>1, <3>3 DEF TableInv
    <3> QED
      BY <3>1, <3>2, <3>3
  <2>2. ASSUME NEW b \in Addresses, table'[b] # NULL
        PROVE  ref_count'[table'[b]] = Cardinality(Referrers(b)')
    <3>1. CASE b = a
      BY <1>7, <1>10, <1>11, <3>1
    <3>2. CASE b # a
      <4>1. table'[b] = table[b] /\ table[b] \in Entries /\ table[b] # e
        BY <1>0, <1>7, <1>12, <2>2, <3>2 DEF Types
      <4> QED
        BY <1>0, <1>9, <1>11, <2>2, <3>2, <4>1 DEF TableInv
    <3> QED
      BY <3>1, <3>2
  <2>3. ASSUME NEW b \in Addresses, NEW c \in Addresses, table'[b] = table'[c], table'[b] # NULL
        PROVE  b = c
    BY <1>0, <1>7, <1>12, <2>3 DEF TableInv
  <2> QED
    BY <2>1, <2>2, <2>3 DEF TableInv
<1> QED
  BY <1>1, <1>2, <1>3, <1>4, <1>5, <1>6, <1>7, <1>11, <1>13

(* get_user_mutex_entry(): the queue of a new entry was empty anyway.      *)
LEMMA GetsEntry ==
  ASSUME Inv, NEW t \in Threads, NEW label \in Labels, NEW a \in Addresses, a \notin Held(t),
         a = (IF call[t].op = "sem_post" THEN SEM ELSE Target(t)),
         get_user_mutex_entry(t, label)
  PROVE  /\ pc' \in [Threads -> Labels] /\ pc'[t] = label
         /\ call' \in [Threads -> Calls] /\ call'[t].op = call[t].op
         /\ call'[t].status = call[t].status
         /\ table' \in [Addresses -> Entries \cup {NULL}]
         /\ ref_count' \in [Entries -> 0 .. Cardinality(Threads)]
         /\ Held(t)' = Held(t) \cup {a}
         /\ Target(t)' = Target(t) /\ Unblocked(t)' = Unblocked(t)
         /\ Queued(t)' <=> Queued(t)
         /\ Alone(t) /\ UNCHANGED queue
         /\ TableInv'
<1>0. Types
  BY DEF Inv
<1>1. PICK e \in Entries :
        /\ IF table[a] # NULL THEN e = table[a]
                              ELSE e \notin {table[b] : b \in Addresses}
        /\ table' = [table EXCEPT ![a] = e]
        /\ ref_count' = [ref_count EXCEPT ![e] = IF table[a] # NULL THEN ref_count[e] + 1 ELSE 1]
        /\ queue' = [queue EXCEPT ![e] = IF table[a] # NULL THEN queue[e] ELSE <<>>]
        /\ call' = [call EXCEPT ![t].ptr[a] = e]
        /\ pc' = [pc EXCEPT ![t] = label]
  BY DEF get_user_mutex_entry, Goto
<1>2. e \notin {table[b] : b \in Addresses} => queue[e] = <<>>
  <2> SUFFICES ASSUME queue[e] # <<>> PROVE \E b \in Addresses : table[b] = e
    OBVIOUS
  <2>1. queue[e] \in Seq(Threads)
    BY <1>0 DEF Types
  <2>2. PICK u \in Threads : u \in Range(queue[e])
    BY <2>1, TailMembers, RangeOfSeq
  <2>3. Entry(u, Target(u)) = e /\ Target(u) \in Addresses
    BY <2>2 DEF Inv, QueueInv, Target, Addresses
  <2>4. e # NULL
    BY UserMutexConstants
  <2> QED
    BY <2>3, <2>4 DEF Inv, TableInv
<1>3. queue' = queue
  BY <1>0, <1>1, <1>2 DEF Types
<1>4. PICK n : /\ ref_count' = [ref_count EXCEPT ![e] = n]
               /\ \/ table[a] # NULL /\ e = table[a] /\ n = ref_count[e] + 1
                  \/ table[a] = NULL /\ e \notin {table[b] : b \in Addresses} /\ n = 1
  <2>1. CASE table[a] # NULL
    BY <1>1, <2>1
  <2>2. CASE table[a] = NULL
    BY <1>1, <2>2
  <2> QED
    BY <2>1, <2>2
<1>5. PICK p : p = [call[t].ptr EXCEPT ![a] = e] /\ call' = [call EXCEPT ![t].ptr = p]
  BY <1>1
<1>6. table' = [table EXCEPT ![a] = e] /\ pc' = [pc EXCEPT ![t] = label]
  BY <1>1
<1> QED
  BY <1>3, <1>4, <1>5, <1>6, Gets

(* _user_mutex_lock() and the others look the entry up before they wait.   *)
LEMMA StepGetToWait ==
  ASSUME Inv, NEW t \in Threads, get_to_wait(t)
  PROVE  Inv'
<1>0. /\ Types /\ pc[t] = "get" /\ get_user_mutex_entry(t, "prepare")
      /\ UNCHANGED <<word, sem, use, waiter_count, balance>>
  BY DEF Inv, get_to_wait
<1>1. call[t].op \in WaitOps /\ call[t].status = NULL /\ Held(t) = {}
  BY <1>0 DEF Inv, Local
<1>2. /\ Target(t) \in Addresses /\ "prepare" \in Labels
      /\ Target(t) = (IF call[t].op = "sem_post" THEN SEM ELSE Target(t))
  BY <1>1 DEF Target, Addresses, Labels, WaitOps
<1>3. /\ pc' \in [Threads -> Labels] /\ pc'[t] = "prepare"
      /\ call' \in [Threads -> Calls] /\ call'[t].op = call[t].op
      /\ call'[t].status = call[t].status
      /\ table' \in [Addresses -> Entries \cup {NULL}]
      /\ ref_count' \in [Entries -> 0 .. Cardinality(Threads)]
      /\ Held(t)' = {Target(t)}
      /\ Target(t)' = Target(t) /\ Unblocked(t)' = Unblocked(t)
      /\ Queued(t)' <=> Queued(t)
      /\ Alone(t) /\ UNCHANGED queue
      /\ TableInv'
  BY <1>0, <1>1, <1>2, GetsEntry
<1>4. Types'
  BY <1>0, <1>3 DEF Types
<1>5. ~Queued(t)
  BY <1>0, QueuedLabels DEF SwitchLabels
<1>6. Local(t)'
  BY <1>1, <1>3 DEF Local, SwitchLabels, UnblockOps, WaitOps, Target
<1>7. KeepsLocks(t)
  BY <1>3 DEF KeepsLocks, Writers, Readers
<1>8. KeepsMutex(t)
  BY <1>0, <1>1, <1>3 DEF KeepsMutex, MutexHolders, HandedOff, Acquired
<1>9. KeepsUnits(t) /\ KeepsCond(t)
  BY <1>0, <1>1, <1>3
     DEF KeepsUnits, KeepsCond, In, UnitsBeingPosted, SemHolders, CondUsers, Acquired
<1>10. KeepsPromise(t)
  <2>1. Unblockers' = Unblockers
    BY <1>0, <1>3, RolesOfOthers DEF Unblockers
  <2> QED
    BY <1>0, <1>3, <1>5, <2>1 DEF KeepsPromise, WaitInv, Waits
<1>11. KeepsQueue(t)
  BY <1>5 DEF KeepsQueue
<1> QED
  BY <1>3, <1>4, <1>5, <1>6, <1>7, <1>8, <1>9, <1>10, <1>11, TableStep

(* _user_mutex_sem_release() looks the entry up.                           *)
LEMMA StepGetToPost ==
  ASSUME Inv, NEW t \in Threads, get_to_post(t)
  PROVE  Inv'
<1>0. /\ Types /\ pc[t] = "get_to_post" /\ get_user_mutex_entry(t, "sem_release")
      /\ UNCHANGED <<word, sem, use, waiter_count, balance>>
  BY DEF Inv, get_to_post
<1>1. call[t].op = "sem_post" /\ call[t].status = NULL /\ Held(t) = {}
  BY <1>0 DEF Inv, Local
<1>2. /\ SEM \in Addresses /\ "sem_release" \in Labels /\ Unblocked(t) = SEM
      /\ SEM = (IF call[t].op = "sem_post" THEN SEM ELSE Target(t))
  BY <1>1 DEF Addresses, Labels, Unblocked
<1>3. /\ pc' \in [Threads -> Labels] /\ pc'[t] = "sem_release"
      /\ call' \in [Threads -> Calls] /\ call'[t].op = call[t].op
      /\ call'[t].status = call[t].status
      /\ table' \in [Addresses -> Entries \cup {NULL}]
      /\ ref_count' \in [Entries -> 0 .. Cardinality(Threads)]
      /\ Held(t)' = {SEM}
      /\ Target(t)' = Target(t) /\ Unblocked(t)' = Unblocked(t)
      /\ Queued(t)' <=> Queued(t)
      /\ Alone(t) /\ UNCHANGED queue
      /\ TableInv'
  BY <1>0, <1>1, <1>2, GetsEntry
<1>4. Types'
  BY <1>0, <1>3 DEF Types
<1>5. ~Queued(t)
  BY <1>0, QueuedLabels DEF SwitchLabels
<1>6. Local(t)'
  BY <1>1, <1>2, <1>3 DEF Local, SwitchLabels, UnblockOps, WaitOps
<1>7. KeepsLocks(t)
  BY <1>3 DEF KeepsLocks, Writers, Readers
<1>8. KeepsMutex(t)
  BY <1>0, <1>1, <1>3 DEF KeepsMutex, MutexHolders, HandedOff
<1>9. KeepsUnits(t) /\ KeepsCond(t)
  BY <1>0, <1>1, <1>3
     DEF KeepsUnits, KeepsCond, In, UnitsBeingPosted, SemHolders, CondUsers
<1>10. KeepsPromise(t)
  <2>1. Unblockers' = Unblockers
    BY <1>0, <1>3, RolesOfOthers DEF Unblockers
  <2> QED
    BY <1>0, <1>3, <1>5, <2>1 DEF KeepsPromise, WaitInv, Waits
<1>11. KeepsQueue(t)
  BY <1>5 DEF KeepsQueue
<1> QED
  BY <1>3, <1>4, <1>5, <1>6, <1>7, <1>8, <1>9, <1>10, <1>11, TableStep

(* _user_mutex_unblock() and user_mutex_switch_lock() look the entry up:   *)
(* without one nobody waits.                                               *)
LEMMA StepGetToUnblock ==
  ASSUME Inv, NEW t \in Threads, get_to_unblock(t)
  PROVE  Inv'
<1> DEFINE a == Unblocked(t)
<1>0. /\ Types /\ pc[t] = "unblock_get"
      /\ UNCHANGED <<sem, use, waiter_count, table, queue, balance>>
  BY DEF Inv, get_to_unblock
<1>1. /\ call[t].op \in UnblockOps /\ call[t].status \in {NULL, B_OK}
      /\ call[t].op = "cond_wait" => COND \in Held(t) /\ MUTEX \notin Held(t)
      /\ call[t].op # "cond_wait" => call[t].status = NULL /\ Held(t) = {}
  BY <1>0 DEF Inv, Local, SwitchLabels, UnblockOps
<1>2. /\ a \in Words /\ a \in Addresses /\ a \notin Held(t)
      /\ call[t].op \in {"signal", "broadcast"} <=> a = COND
      /\ call[t].op = "cond_wait" => Target(t) = COND /\ a = MUTEX
  BY <1>1 DEF Unblocked, Target, Words, UnblockOps, Addresses
<1>5. Queued(t) => call[t].status # B_OK /\ call[t].op = "cond_wait"
  BY <1>0, <1>1, QueuedLabels DEF UnblockOps, WaitOps
<1>3. CASE table[a] = NULL
  <2>1. PICK label \in {"wait", "put"} :
        /\ pc' = [pc EXCEPT ![t] = label]
        /\ label = "wait" => call[t].op = "cond_wait" /\ call[t].status = NULL
        /\ label = "put" => call[t].op # "cond_wait" \/ call[t].status = B_OK
    BY <1>1, <1>3 DEF get_to_unblock, Goto, AfterUnblock
  <2>2. /\ word' = [word EXCEPT ![a] = IF call[t].op = "cond_wait" THEN word[a]
                                       ELSE word[a] \ {WAITING}]
        /\ ref_count' = ref_count /\ call' = call
    BY <1>3 DEF get_to_unblock
  <2> HIDE DEF a
  <2>3. /\ pc' \in [Threads -> Labels] /\ pc'[t] = label
        /\ call' \in [Threads -> Calls] /\ call'[t].op = call[t].op
        /\ call'[t].status = call[t].status
        /\ Held(t)' = Held(t) /\ \A b \in Addresses : Entry(t, b)' = Entry(t, b)
        /\ Target(t)' = Target(t) /\ Unblocked(t)' = Unblocked(t)
        /\ Queued(t)' <=> Queued(t)
        /\ Alone(t)
    <3>1. label \in Labels /\ call[t].status \in {NULL, B_OK} \cup Errors
      BY <1>1 DEF Labels
    <3> QED
      BY <1>0, <2>1, <2>2, <3>1, Moves
  <2>4. /\ word' \in [Words -> SUBSET {LOCKED, WAITING}]
        /\ \A b \in Words : b # a => word'[b] = word[b]
        /\ LOCKED \in word'[MUTEX] <=> LOCKED \in word[MUTEX]
        /\ call[t].op = "cond_wait" => word' = word
    BY <1>0, <1>2, <2>2 DEF Types, Words
  <2>5. Types'
    BY <1>0, <2>2, <2>3, <2>4 DEF Types
  <2>6. Local(t)'
    BY <1>1, <1>2, <2>1, <2>3 DEF Local, SwitchLabels, UnblockOps, WaitOps
  <2>7. KeepsLocks(t)
    BY <2>3 DEF KeepsLocks, Readers, Writers
  <2>8. KeepsMutex(t)
    BY <1>0, <1>1, <2>3, <2>4 DEF KeepsMutex, MutexHolders, HandedOff, UnblockOps
  <2>9. KeepsUnits(t) /\ KeepsCond(t)
    BY <1>0, <1>1, <2>3
       DEF KeepsUnits, KeepsCond, In, UnitsBeingPosted, SemHolders, CondUsers, UnblockOps
  <2>10. KeepsPromise(t)
    <3>1. Waiters(a) = {}
      BY <1>2, <1>3, NobodyWaiting
    <3>2. a = COND => Unblockers' = Unblockers
      BY <1>0, <2>3, RolesOfOthers DEF Unblockers, a
    <3>3. WaitInv(t)'
      <4> SUFFICES ASSUME Waits(t)' PROVE WaitInv(t)'
        BY DEF WaitInv
      <4>1. Waits(t) /\ Target(t) = COND /\ word' = word
        BY <1>0, <1>2, <1>5, <2>3, <2>4 DEF Waits
      <4> QED
        BY <2>3, <4>1 DEF Inv, WaitInv
    <3> QED
      BY <1>0, <1>2, <2>4, <3>1, <3>2, <3>3 DEF KeepsPromise, Words
  <2>11. KeepsQueue(t)
    BY <1>5, <2>1, <2>3 DEF KeepsQueue
  <2> QED
    BY <1>0, <2>2, <2>3, <2>5, <2>6, <2>7, <2>8, <2>9, <2>10, <2>11, QuietStep
<1>4. CASE table[a] # NULL
  <2> DEFINE e == table[a]
  <2>1. /\ ref_count' = [ref_count EXCEPT ![e] = ref_count[e] + 1]
        /\ call' = [call EXCEPT ![t].ptr[a] = e]
        /\ pc' = [pc EXCEPT ![t] = "unblock"]
        /\ word' = word
    BY <1>4 DEF get_to_unblock, Goto
  <2>2. table' = [table EXCEPT ![a] = e] /\ e \in Entries /\ "unblock" \in Labels
    BY <1>0, <1>2, <1>4 DEF Types, Labels
  <2>3. PICK p : p = [call[t].ptr EXCEPT ![a] = e] /\ call' = [call EXCEPT ![t].ptr = p]
    BY <2>1
  <2>4. PICK n : n = ref_count[e] + 1 /\ ref_count' = [ref_count EXCEPT ![e] = n]
    BY <2>1
  <2>5. pc' = [pc EXCEPT ![t] = "unblock"]
    BY <2>1
  <2>6. e = table[a]
    OBVIOUS
  <2> HIDE DEF a, e
  <2>7. /\ pc' \in [Threads -> Labels] /\ pc'[t] = "unblock"
        /\ call' \in [Threads -> Calls] /\ call'[t].op = call[t].op
        /\ call'[t].status = call[t].status
        /\ table' \in [Addresses -> Entries \cup {NULL}]
        /\ ref_count' \in [Entries -> 0 .. Cardinality(Threads)]
        /\ Held(t)' = Held(t) \cup {a}
        /\ \A b \in Addresses : b # a => Entry(t, b)' = Entry(t, b)
        /\ Target(t)' = Target(t) /\ Unblocked(t)' = Unblocked(t)
        /\ Queued(t)' <=> Queued(t)
        /\ Alone(t)
        /\ TableInv'
    BY <1>0, <1>2, <1>4, <2>2, <2>3, <2>4, <2>5, <2>6, Gets
  <2>8. Types'
    BY <1>0, <2>1, <2>7 DEF Types
  <2>9. Local(t)'
    BY <1>1, <1>2, <2>7 DEF Local, SwitchLabels, UnblockOps, WaitOps, a
  <2>10. KeepsLocks(t)
    BY <2>7 DEF KeepsLocks, Readers, Writers
  <2>11. KeepsMutex(t)
    BY <1>0, <1>1, <2>1, <2>7 DEF KeepsMutex, MutexHolders, HandedOff, UnblockOps
  <2>12. KeepsUnits(t) /\ KeepsCond(t)
    BY <1>0, <1>1, <2>7
       DEF KeepsUnits, KeepsCond, In, UnitsBeingPosted, SemHolders, CondUsers, UnblockOps
  <2>13. KeepsPromise(t)
    <3>1. Unblockers' = Unblockers
      BY <1>0, <2>7, RolesOfOthers DEF Unblockers
    <3>2. WaitInv(t)'
      BY <1>0, <2>1, <2>7, <3>1 DEF Inv, WaitInv, Waits
    <3> QED
      BY <1>0, <2>1, <3>1, <3>2 DEF KeepsPromise
  <2>14. KeepsQueue(t)
    BY <1>5, <2>7 DEF KeepsQueue, SwitchLabels
  <2>15. Queued(t) => Entry(t, Target(t))' = Entry(t, Target(t))
    BY <1>2, <1>5, <2>7 DEF Entry, Addresses
  <2> QED
    BY <1>0, <2>7, <2>8, <2>9, <2>10, <2>11, <2>12, <2>13, <2>14, <2>15, TableStep
<1> QED
  BY <1>3, <1>4

(* put_user_mutex_entry() drops a reference.                               *)
LEMMA StepPut ==
  ASSUME Inv, NEW t \in Threads, put_user_mutex_entry(t)
  PROVE  Inv'
<1>0. /\ Types /\ TableInv /\ pc[t] = "put" /\ NULL \notin Entries
      /\ UNCHANGED <<word, sem, use, waiter_count, table, queue, pc, balance>>
  BY UserMutexConstants DEF Inv, put_user_mutex_entry
<1>1. PICK a \in Held(t) :
        /\ ref_count' = [ref_count EXCEPT ![Entry(t, a)] = ref_count[Entry(t, a)] - 1]
        /\ call' = [call EXCEPT
                      ![t].ptr[a] = NULL,
                      ![t].dying = IF ref_count[Entry(t, a)] = 1 THEN <<a, Entry(t, a)>> ELSE <<>>]
  BY DEF put_user_mutex_entry
<1> DEFINE e == table[a]
<1>2. a \in Addresses /\ Entry(t, a) = e /\ e \in Entries /\ e # NULL
  BY HeldEntry
<1>20. PICK d \in {<<>>} \cup (Addresses \X Entries) :
         call' = [call EXCEPT ![t].ptr[a] = NULL, ![t].dying = d]
  <2>1. PICK d \in {<<>>} \cup (Addresses \X Entries) :
          d = IF ref_count[Entry(t, a)] = 1 THEN <<a, Entry(t, a)>> ELSE <<>>
    BY <1>2
  <2>2. call' = [call EXCEPT ![t].ptr[a] = NULL, ![t].dying = d]
    BY <1>1, <2>1
  <2> QED
    BY <2>2
<1>3. PICK p : /\ p = [call[t].ptr EXCEPT ![a] = NULL]
               /\ call' = [call EXCEPT ![t].ptr = p, ![t].dying = d]
  <2>1. call \in [Threads -> Calls] /\ call[t] \in Calls
    BY <1>0 DEF Types
  <2> QED
    BY <1>20, <2>1
<1>4. ref_count' = [ref_count EXCEPT ![e] = ref_count[e] - 1]
  BY <1>1, <1>2
<1> HIDE DEF e
<1>5. /\ call' \in [Threads -> Calls]
      /\ \A u \in Threads : u # t => call'[u] = call[u]
      /\ call'[t].op = call[t].op /\ call'[t].status = call[t].status
      /\ call'[t].ptr = p /\ call[t].ptr \in [Addresses -> Entries \cup {NULL}]
  <2>1. call[t] \in Calls
    BY <1>0 DEF Types
  <2>2. call[t].ptr \in [Addresses -> Entries \cup {NULL}]
    BY <2>1 DEF Calls
  <2>3. p \in [Addresses -> Entries \cup {NULL}]
    BY <1>3, <2>2
  <2> QED
    BY <1>0, <1>3, <2>2, <2>3, PutCall
<1>6. /\ Alone(t) /\ Target(t)' = Target(t) /\ Unblocked(t)' = Unblocked(t)
      /\ Queued(t)' <=> Queued(t)
  BY <1>0, <1>5 DEF Alone, Target, Unblocked, Queued
<1>7. /\ \A b \in Addresses : b # a => Entry(t, b)' = Entry(t, b)
      /\ Entry(t, a)' = NULL
  BY <1>2, <1>3, <1>5 DEF Entry
<1>8. \A u \in Threads, b \in Addresses : u # t => Entry(u, b)' = Entry(u, b)
  BY <1>6, RolesOfOthers
<1>9. /\ \A b \in Addresses : b # a => Referrers(b)' = Referrers(b)
      /\ Referrers(a)' = Referrers(a) \ {t} /\ t \in Referrers(a)
  BY <1>2, <1>7, <1>8 DEF Referrers
<1>10. /\ ref_count[e] = Cardinality(Referrers(a))
       /\ ref_count[e] - 1 = Cardinality(Referrers(a)')
       /\ ref_count[e] - 1 \in 0 .. Cardinality(Threads)
  <2>1. Referrers(a) \in SUBSET Threads /\ Referrers(a)' \in SUBSET Threads
    BY DEF Referrers
  <2>2. /\ Cardinality(Referrers(a)) \in Nat /\ Cardinality(Referrers(a)') \in Nat
        /\ Cardinality(Referrers(a)') = Cardinality(Referrers(a)) - In(t, Referrers(a))
                                          + In(t, Referrers(a)')
    BY <1>9, <2>1, CardinalityChange
  <2>3. Cardinality(Referrers(a)') = Cardinality(Referrers(a)) - 1
    BY <1>9, <2>2 DEF In
  <2>4. Cardinality(Referrers(a)') <= Cardinality(Threads) /\ Cardinality(Threads) \in Nat
    BY <2>1, UserMutexConstants, FS_Subset, FS_CardinalityType
  <2>5. ref_count[e] = Cardinality(Referrers(a))
    BY <1>0, <1>2 DEF TableInv, e
  <2> QED
    BY <2>2, <2>3, <2>4, <2>5
<1>11. /\ ref_count' \in [Entries -> 0 .. Cardinality(Threads)]
       /\ ref_count'[e] = ref_count[e] - 1
       /\ \A f \in Entries : f # e => ref_count'[f] = ref_count[f]
  BY <1>0, <1>2, <1>4, <1>10 DEF Types
<1>12. TableInv'
  <2>1. ASSUME NEW u \in Threads, NEW b \in Addresses, Entry(u, b)' # NULL
        PROVE  table'[b] = Entry(u, b)'
    <3>1. Entry(u, b)' = Entry(u, b)
      BY <1>7, <1>8, <2>1
    <3> QED
      BY <1>0, <2>1, <3>1 DEF TableInv
  <2>2. ASSUME NEW b \in Addresses, table'[b] # NULL
        PROVE  ref_count'[table'[b]] = Cardinality(Referrers(b)')
    <3>1. CASE b = a
      BY <1>0, <1>10, <1>11, <3>1 DEF e
    <3>2. CASE b # a
      <4>1. table'[b] = table[b] /\ table[b] \in Entries /\ table[b] # e
        BY <1>0, <1>2, <2>2, <3>2 DEF Types, TableInv, e
      <4> QED
        BY <1>0, <1>9, <1>11, <2>2, <3>2, <4>1 DEF TableInv
    <3> QED
      BY <3>1, <3>2
  <2> QED
    BY <1>0, <2>1, <2>2 DEF TableInv
<1>13. Types'
  BY <1>0, <1>5, <1>11 DEF Types
<1>14. ~Queued(t)
  BY <1>0, QueuedLabels DEF SwitchLabels
<1>15. Local(t)'
  BY <1>0, <1>5 DEF Inv, Local, SwitchLabels
<1>16. KeepsLocks(t) /\ KeepsQueue(t)
  BY <1>0, <1>14 DEF KeepsLocks, Readers, Writers, KeepsQueue
<1>17. KeepsMutex(t)
  BY <1>0, <1>5 DEF KeepsMutex, MutexHolders, HandedOff, Acquired
<1>18. KeepsUnits(t) /\ KeepsCond(t)
  BY <1>0, <1>5
     DEF KeepsUnits, KeepsCond, In, UnitsBeingPosted, SemHolders, CondUsers, Acquired
<1>19. KeepsPromise(t)
  <2>1. Unblockers' = Unblockers
    BY <1>0, <1>6, RolesOfOthers DEF Unblockers
  <2> QED
    BY <1>0, <1>6, <1>14, <2>1 DEF KeepsPromise, WaitInv, Waits
<1> QED
  BY <1>0, <1>6, <1>12, <1>13, <1>14, <1>15, <1>16, <1>17, <1>18, <1>19, TableStep

(* ... and deletes the entry, unless it has been deleted or got again.     *)
LEMMA StepDelete ==
  ASSUME Inv, NEW t \in Threads, delete_entry(t)
  PROVE  Inv'
<1>0. /\ Types /\ TableInv /\ pc[t] = "put" /\ NULL \notin Entries
      /\ call' = [call EXCEPT ![t].dying = <<>>] /\ call[t].dying # <<>>
      /\ UNCHANGED <<word, sem, use, waiter_count, ref_count, queue, pc, balance>>
  BY UserMutexConstants DEF Inv, delete_entry
<1>1. call[t] \in Calls /\ call \in [Threads -> Calls]
  BY <1>0 DEF Types
<1>2. call[t].dying \in Addresses \X Entries
  BY <1>0, <1>1 DEF Calls
<1>3. PICK a \in Addresses, e \in Entries :
        table' = IF table[a] = e /\ ref_count[e] = 0 THEN [table EXCEPT ![a] = NULL] ELSE table
  BY <1>2 DEF delete_entry, MayDelete
<1>5. /\ call' \in [Threads -> Calls]
      /\ \A u \in Threads : u # t => call'[u] = call[u]
      /\ call'[t].op = call[t].op /\ call'[t].status = call[t].status
      /\ call'[t].ptr = call[t].ptr
  <2>1. [call[t] EXCEPT !.dying = <<>>] \in Calls
    BY <1>1 DEF Calls
  <2>2. call' = [call EXCEPT ![t] = [call[t] EXCEPT !.dying = <<>>]]
    BY <1>0
  <2>3. call'[t] = [call[t] EXCEPT !.dying = <<>>]
    BY <1>1, <2>2
  <2> QED
    BY <1>1, <2>1, <2>2, <2>3 DEF Calls
<1>6. /\ Alone(t) /\ Target(t)' = Target(t) /\ Unblocked(t)' = Unblocked(t)
      /\ Queued(t)' <=> Queued(t)
      /\ \A b \in Addresses : Entry(t, b)' = Entry(t, b)
  BY <1>0, <1>5 DEF Alone, Target, Unblocked, Queued, Entry
<1>8. \A u \in Threads, b \in Addresses : Entry(u, b)' = Entry(u, b)
  BY <1>6, RolesOfOthers
<1>9. \A b \in Addresses : Referrers(b)' = Referrers(b)
  BY <1>8 DEF Referrers
<1>10. table[a] = e /\ ref_count[e] = 0 => Referrers(a) = {}
  <2> SUFFICES ASSUME table[a] = e, ref_count[e] = 0 PROVE Referrers(a) = {}
    OBVIOUS
  <2>1. Cardinality(Referrers(a)) = 0
    BY <1>0 DEF TableInv
  <2>2. IsFiniteSet(Referrers(a))
    BY UserMutexConstants, FS_Subset DEF Referrers
  <2> QED
    BY <2>1, <2>2, FS_EmptySet
<1>11. table' \in [Addresses -> Entries \cup {NULL}]
  BY <1>0, <1>3 DEF Types
<1>12. TableInv'
  <2>1. CASE table' = table
    BY <1>0, <1>8, <1>9, <2>1 DEF TableInv
  <2>2. CASE table' # table
    <3>1. /\ \A b \in Addresses : b # a => table'[b] = table[b]
          /\ table'[a] = NULL /\ Referrers(a) = {}
      BY <1>0, <1>3, <1>10, <2>2 DEF Types
    <3>2. ASSUME NEW u \in Threads, NEW b \in Addresses, Entry(u, b)' # NULL
          PROVE  table'[b] = Entry(u, b)'
      BY <1>0, <1>8, <3>1, <3>2 DEF TableInv, Referrers
    <3> QED
      BY <1>0, <1>9, <3>1, <3>2 DEF TableInv
  <2> QED
    BY <2>1, <2>2
<1>13. Types'
  BY <1>0, <1>5, <1>11 DEF Types
<1>14. ~Queued(t)
  BY <1>0, QueuedLabels DEF SwitchLabels
<1>15. Local(t)'
  BY <1>0, <1>5 DEF Inv, Local, SwitchLabels
<1>16. KeepsLocks(t) /\ KeepsQueue(t)
  BY <1>0, <1>14 DEF KeepsLocks, Readers, Writers, KeepsQueue
<1>17. KeepsMutex(t)
  BY <1>0, <1>5 DEF KeepsMutex, MutexHolders, HandedOff, Acquired
<1>18. KeepsUnits(t) /\ KeepsCond(t)
  BY <1>0, <1>5
     DEF KeepsUnits, KeepsCond, In, UnitsBeingPosted, SemHolders, CondUsers, Acquired
<1>19. KeepsPromise(t)
  <2>1. Unblockers' = Unblockers
    BY <1>0, <1>6, RolesOfOthers DEF Unblockers
  <2> QED
    BY <1>0, <1>6, <1>14, <2>1 DEF KeepsPromise, WaitInv, Waits
<1> QED
  BY <1>0, <1>6, <1>12, <1>13, <1>14, <1>15, <1>16, <1>17, <1>18, <1>19, TableStep

-----------------------------------------------------------------------------
(* The queues *)

(* condition.Add(), before the read lock is given up                       *)
LEMMA StepWaitLocked ==
  ASSUME Inv, NEW t \in Threads, user_mutex_wait_locked(t)
  PROVE  Inv'
<1> DEFINE e == Entry(t, Target(t))
<1>0. /\ Types /\ pc[t] = "add" /\ call' = call
      /\ queue' = [queue EXCEPT ![e] = Append(queue[e], t)]
      /\ UNCHANGED <<word, sem, use, waiter_count, table, ref_count, balance>>
  BY DEF Inv, user_mutex_wait_locked
<1>1. /\ call[t].op \in WaitOps /\ call[t].status = NULL /\ Target(t) \in Held(t)
      /\ call[t].op = "cond_wait" => MUTEX \notin Held(t) /\ Target(t) = COND
  BY <1>0 DEF Inv, Local, Target
<1>2. PICK label \in {"switch", "wait"} :
        pc' = [pc EXCEPT ![t] = label] /\ (label = "switch" <=> call[t].op = "cond_wait")
  BY DEF user_mutex_wait_locked, Goto
<1>3. Target(t) \in Addresses /\ e \in Entries
  BY <1>1, HeldEntry
<1> HIDE DEF e
<1>4. ~Queued(t)
  BY <1>0, QueuedLabels DEF SwitchLabels
<1>5. queue[e] \in Seq(Threads) /\ IsInjective(queue[e]) /\ t \notin Range(queue[e])
  BY <1>0, <1>3, <1>4 DEF Types, Inv, QueueInv, Queued
<1>6. /\ queue' \in [Entries -> Seq(Threads)]
      /\ IsInjective(queue'[e]) /\ Range(queue'[e]) = Range(queue[e]) \cup {t}
      /\ \A f \in Entries : f # e => queue'[f] = queue[f]
  <2>1. /\ Append(queue[e], t) \in Seq(Threads) /\ IsInjective(Append(queue[e], t))
        /\ Range(Append(queue[e], t)) = Range(queue[e]) \cup {t}
    BY <1>5, AppendMembers
  <2> QED
    BY <1>0, <1>3, <2>1 DEF Types
<1>7. /\ pc' \in [Threads -> Labels] /\ pc'[t] = label
      /\ \A u \in Threads : u # t => pc'[u] = pc[u]
  BY <1>0, <1>2 DEF Types, Labels
<1>8. /\ Alone(t) /\ Target(t)' = Target(t) /\ Unblocked(t)' = Unblocked(t)
      /\ Held(t)' = Held(t) /\ \A b \in Addresses : Entry(t, b)' = Entry(t, b)
      /\ Queued(t)'
  <2>1. \A u \in Threads : u # t =>
          \A f \in Entries : u \in Range(queue'[f]) <=> u \in Range(queue[f])
    BY <1>6
  <2>2. Queued(t)'
    BY <1>3, <1>6 DEF Queued
  <2> QED
    BY <1>0, <1>7, <2>1, <2>2 DEF Alone, Target, Unblocked, Held, Entry
<1>9. Types'
  BY <1>0, <1>6, <1>7 DEF Types
<1>10. Local(t)'
  BY <1>0, <1>1, <1>2, <1>7, <1>8 DEF Local, SwitchLabels, UnblockOps, WaitOps
<1>11. TableInv'
  BY <1>0, <1>8, TableFrame DEF Inv
<1>12. ASSUME NEW f \in Entries
       PROVE  /\ IsInjective(queue'[f])
              /\ t \in Range(queue'[f]) =>
                   /\ Entry(t, Target(t))' = f /\ call'[t].op \in WaitOps
                   /\ call'[t].status # B_OK
                   /\ \/ pc'[t] \in {"wait", "leave"}
                      \/ call'[t].op = "cond_wait" /\ pc'[t] \in SwitchLabels
  <2>1. CASE f = e
    <3>1. Entry(t, Target(t))' = e
      BY <1>0, <1>8 DEF Entry, e
    <3> QED
      BY <1>0, <1>1, <1>2, <1>6, <1>7, <2>1, <3>1 DEF SwitchLabels
  <2>2. CASE f # e
    BY <1>4, <1>6, <2>2 DEF Inv, QueueInv, Queued
  <2> QED
    BY <2>1, <2>2
<1>13. ASSUME NEW f \in Entries PROVE WriterInv(f)'
  <2>1. t \notin Writers(f)' /\ t \notin Readers(f)'
    BY <1>7 DEF Writers, Readers
  <2>2. f = e => Writers(f) = {}
    <3>1. t \in Readers(e)
      BY <1>0 DEF Readers, e
    <3> QED
      BY <1>3, <3>1 DEF Inv, WriterInv
  <2>3. queue[f] = <<>> /\ (Writers(f) \ {t} # {}) => queue'[f] = <<>>
    BY <1>6, <2>2
  <2> QED
    BY <1>8, <2>1, <2>3, WriterPart DEF Inv
<1>14. KeepsMutex(t)
  BY <1>0, <1>1, <1>2, <1>4, <1>7, <1>8 DEF KeepsMutex, MutexHolders, HandedOff, Acquired
<1>15. KeepsUnits(t) /\ KeepsCond(t)
  BY <1>0, <1>1, <1>4, <1>7, <1>8
     DEF KeepsUnits, KeepsCond, In, UnitsBeingPosted, SemHolders, CondUsers, Acquired
<1>16. KeepsPromise(t)
  <2>1. Unblockers' = Unblockers
    BY <1>0, <1>7, <1>8, RolesOfOthers DEF Unblockers
  <2>2. WaitInv(t)'
    BY <1>0, <1>8, <2>1 DEF Inv, WaitInv, Waits
  <2> QED
    BY <1>0, <2>1, <2>2 DEF KeepsPromise
<1> QED
  BY <1>8, <1>9, <1>10, <1>11, <1>12, <1>13, <1>14, <1>15, <1>16, OwnStep

(* _RemoveFromVariable(): a thread whose wait has failed leaves the queue. *)
LEMMA StepWaitLeave ==
  ASSUME Inv, NEW t \in Threads, wait_leave(t)
  PROVE  Inv'
<1> DEFINE e == Entry(t, Target(t))
<1>0. /\ Types /\ pc[t] = "leave" /\ call' = call
      /\ queue' = [queue EXCEPT ![e] = RemoveFirst(queue[e], t)]
      /\ UNCHANGED <<word, sem, use, waiter_count, table, ref_count, balance>>
  BY DEF Inv, wait_leave
<1>1. call[t].op \in WaitOps /\ call[t].status \in Errors /\ Target(t) \in Held(t)
  BY <1>0 DEF Inv, Local
<1>2. PICK label \in {"check_waiting", "put"} :
        pc' = [pc EXCEPT ![t] = label] /\ (label = "check_waiting" => Target(t) = MUTEX)
  BY DEF wait_leave, Goto
<1>3. Target(t) \in Addresses /\ e \in Entries
  BY <1>1, HeldEntry
<1>4. \A f \in Entries : t \in Range(queue[f]) => f = e
  BY DEF Inv, QueueInv
<1> HIDE DEF e
<1>5. queue[e] \in Seq(Threads) /\ IsInjective(queue[e])
  BY <1>0, <1>3 DEF Types, Inv, QueueInv
<1>6. /\ queue' \in [Entries -> Seq(Threads)]
      /\ IsInjective(queue'[e]) /\ Range(queue'[e]) = Range(queue[e]) \ {t}
      /\ \A f \in Entries : f # e => queue'[f] = queue[f]
      /\ queue[e] = <<>> => queue'[e] = <<>>
  <2>1. /\ RemoveFirst(queue[e], t) \in Seq(Threads) /\ IsInjective(RemoveFirst(queue[e], t))
        /\ Range(RemoveFirst(queue[e], t)) = Range(queue[e]) \ {t}
    BY <1>5, RemoveFirstMembers
  <2>2. queue[e] = <<>> => RemoveFirst(queue[e], t) = <<>>
    <3>1. Range(<<>>) = {}
      BY DEF Range
    <3> QED
      BY <2>1, <3>1, TailMembers
  <2> QED
    BY <1>0, <1>3, <2>1, <2>2 DEF Types
<1>7. /\ pc' \in [Threads -> Labels] /\ pc'[t] = label
      /\ \A u \in Threads : u # t => pc'[u] = pc[u]
  BY <1>0, <1>2 DEF Types, Labels
<1>8. /\ Alone(t) /\ Target(t)' = Target(t) /\ Unblocked(t)' = Unblocked(t)
      /\ Held(t)' = Held(t) /\ \A b \in Addresses : Entry(t, b)' = Entry(t, b)
      /\ \A f \in Entries : t \notin Range(queue'[f])
      /\ ~Queued(t)'
  <2>1. \A u \in Threads : u # t =>
          \A f \in Entries : u \in Range(queue'[f]) <=> u \in Range(queue[f])
    BY <1>6
  <2>2. \A f \in Entries : t \notin Range(queue'[f])
    BY <1>4, <1>6
  <2>3. ~Queued(t)'
    BY <2>2 DEF Queued
  <2> QED
    BY <1>0, <1>7, <2>1, <2>2, <2>3 DEF Alone, Target, Unblocked, Held, Entry
<1>9. Types'
  BY <1>0, <1>6, <1>7 DEF Types
<1>10. Local(t)'
  BY <1>0, <1>1, <1>2, <1>7, <1>8
     DEF Local, SwitchLabels, UnblockOps, WaitOps, Target, Errors
<1>11. TableInv'
  BY <1>0, <1>8, TableFrame DEF Inv
<1>12. \A f \in Entries : IsInjective(queue'[f])
  BY <1>6 DEF Inv, QueueInv
<1>13. ASSUME NEW f \in Entries PROVE WriterInv(f)'
  <2>1. t \notin Writers(f)' /\ t \notin Readers(f)'
    BY <1>7 DEF Writers, Readers
  <2>3. queue[f] = <<>> => queue'[f] = <<>>
    BY <1>6
  <2> QED
    BY <1>8, <2>1, <2>3, WriterPart DEF Inv
<1>14. KeepsMutex(t)
  BY <1>0, <1>1, <1>7, <1>8 DEF KeepsMutex, MutexHolders, HandedOff, Acquired, Errors, WaitOps
<1>15. KeepsUnits(t) /\ KeepsCond(t)
  BY <1>0, <1>1, <1>7, <1>8
     DEF KeepsUnits, KeepsCond, In, UnitsBeingPosted, SemHolders, CondUsers, Acquired, Errors
<1>16. KeepsPromise(t)
  <2>1. Unblockers' = Unblockers
    BY <1>0, <1>7, <1>8, RolesOfOthers DEF Unblockers
  <2> QED
    BY <1>0, <1>7, <1>8, <2>1 DEF KeepsPromise, WaitInv, Waits
<1> QED
  BY <1>8, <1>9, <1>10, <1>11, <1>12, <1>13, <1>14, <1>15, <1>16, OwnStep

(* NotifyOne() takes the first waiter off the queue that is not about to   *)
(* remove itself, and those before it.                                     *)
LEMMA NotifyOneQueue ==
  ASSUME Types, NEW e \in Entries, IsInjective(queue[e])
  PROVE  /\ AfterNotifyOne(e) \in Seq(Threads) /\ IsInjective(AfterNotifyOne(e))
         /\ Range(AfterNotifyOne(e)) \subseteq Range(queue[e])
         /\ Notifiable(e) = {} => AfterNotifyOne(e) = <<>>
         /\ Notifiable(e) # {} =>
              \E u \in Notifiable(e) :
                /\ u \notin Range(AfterNotifyOne(e))
                /\ \A v \in Range(queue[e]) \ Range(AfterNotifyOne(e)) : v = u \/ pc[v] = "leave"
<1> DEFINE s == queue[e]
           I == {i \in 1 .. Len(s) : pc[s[i]] # "leave"}
<1>0. s \in Seq(Threads) /\ IsInjective(s)
  BY DEF Types
<1>1. DOMAIN s = 1 .. Len(s) /\ Len(s) \in Nat
  BY <1>0, LenProperties
<1>2. AfterNotifyOne(e) = IF (IF I # {} THEN Min(I) ELSE 0) = 0 THEN <<>>
                          ELSE SubSeq(s, (IF I # {} THEN Min(I) ELSE 0) + 1, Len(s))
  BY DEF AfterNotifyOne, SelectInSeq
<1>3. Notifiable(e) = {} <=> I = {}
  BY <1>1 DEF Notifiable, Range
<1>4. CASE I = {}
  <2>1. AfterNotifyOne(e) = <<>>
    BY <1>2, <1>4
  <2>2. <<>> \in Seq(Threads) /\ IsInjective(<<>>) /\ Range(<<>>) = {}
    BY DEF IsInjective, Range
  <2> QED
    BY <1>3, <1>4, <2>1, <2>2
<1>5. CASE I # {}
  <2> DEFINE n == Min(I)
  <2>8. I \subseteq 1 .. Len(s) /\ I \in SUBSET Nat
    BY <1>1
  <2> HIDE DEF I
  <2>1. n \in I /\ \A j \in I : n <= j
    BY <1>5, <2>8, LeastNat
  <2>2. AfterNotifyOne(e) = RestOf(s, n)
    <3>1. n # 0
      BY <1>1, <2>1, <2>8
    <3> HIDE DEF s, n
    <3> QED
      BY <1>2, <1>5, <3>1 DEF RestOf, n
  <2> HIDE DEF n, s
  <2>3. n \in 1 .. Len(s) /\ pc[s[n]] # "leave" /\ n \in 0 .. Len(s)
    BY <1>1, <2>1, <2>8 DEF I
  <2>4. /\ RestOf(s, n) \in Seq(Threads) /\ IsInjective(RestOf(s, n))
        /\ Range(s) = FirstOf(s, n) \cup Range(RestOf(s, n))
        /\ FirstOf(s, n) \cap Range(RestOf(s, n)) = {}
    BY <1>0, <2>3, SplitMembers
  <2>5. s[n] \in FirstOf(s, n) /\ s[n] \in Notifiable(e)
    <3>1. s[n] \in Range(s)
      BY <1>1, <2>3 DEF Range
    <3> QED
      BY <1>1, <2>3, <3>1 DEF FirstOf, Notifiable, s
  <2>6. ASSUME NEW v \in FirstOf(s, n), v # s[n] PROVE pc[v] = "leave"
    <3>1. PICK i \in 1 .. n : v = s[i]
      BY DEF FirstOf
    <3>2. i \in 1 .. Len(s) /\ ~(n <= i)
      BY <1>1, <2>3, <2>6, <3>1
    <3> QED
      BY <2>1, <3>1, <3>2 DEF I
  <2>7. /\ s[n] \notin Range(AfterNotifyOne(e))
        /\ \A v \in Range(queue[e]) \ Range(AfterNotifyOne(e)) : v = s[n] \/ pc[v] = "leave"
    BY <2>2, <2>4, <2>5, <2>6 DEF s
  <2> QED
    BY <1>3, <1>5, <2>2, <2>4, <2>5, <2>7 DEF s
<1> QED
  BY <1>4, <1>5

(* NotifyOne() or NotifyAll(): the mutex, or the unit of the semaphore,    *)
(* goes from t to the thread that is taken off the queue.                  *)
LEMMA StepNotify ==
  ASSUME Inv, NEW t \in Threads, Notify(t)
  PROVE  Inv'
<1> DEFINE a == Unblocked(t)
           e == table[a]
           Gone == Range(queue[e]) \ Range(queue'[e])
           N == {v \in Gone : pc[v] # "leave"}
<1>0. /\ Types /\ TableInv /\ call' = call /\ NULL \notin Entries
      /\ UNCHANGED <<word, sem, use, waiter_count, table, ref_count, balance>>
      /\ sem \in Int /\ balance \in Int
  BY UserMutexConstants DEF Inv, Notify, Types
<1>1. /\ a \in Held(t) /\ a \in Addresses /\ Entry(t, a) = e /\ e \in Entries
      /\ call[t].op = "sem_post" <=> a = SEM
      /\ call[t].op \in {"signal", "broadcast"} <=> a = COND
      /\ call[t].op \in {"unlock", "cond_wait"} <=> a = MUTEX
      /\ call[t].op = "cond_wait" => COND \in Held(t) /\ call[t].status \in {NULL, B_OK}
      /\ call[t].op # "cond_wait" => call[t].status = NULL
      /\ \/ pc[t] = "notify" /\ a # SEM
         \/ pc[t] = "sem_release" /\ a = SEM /\ WriteLockable(e)
  <2>1. CASE pc[t] = "notify"
    <3>1. call[t].op \in UnblockOps
      BY <2>1 DEF Inv, Local
    <3> QED
      BY <2>1, <3>1, WriterFinds DEF UnblockOps, Unblocked
  <2>2. CASE pc[t] = "sem_release" /\ WriteLockable(Entry(t, a))
    <3>1. call[t].op = "sem_post" /\ a \in Held(t) /\ call[t].status = NULL
      BY <2>2 DEF Inv, Local
    <3>2. a = SEM
      BY <3>1 DEF Unblocked
    <3> QED
      BY <2>2, <3>1, <3>2, HeldEntry
  <2> QED
    BY <2>1, <2>2 DEF Notify
<1>2. queue[e] \in Seq(Threads) /\ IsInjective(queue[e])
  BY <1>0, <1>1 DEF Types, Inv, QueueInv
<1>3. PICK label \in {"no_waiter", "finish"} :
        /\ pc' = [pc EXCEPT ![t] = label]
        /\ label = "no_waiter" <=> Notifiable(e) = {} /\ call[t].op # "broadcast"
  BY <1>1 DEF Notify, Goto
<1>4. queue' = [queue EXCEPT ![e] = IF call[t].op = "broadcast" THEN <<>> ELSE AfterNotifyOne(e)]
  BY <1>1 DEF Notify
<1>5. /\ \A f \in Entries : f # e => queue'[f] = queue[f]
      /\ queue'[e] \in Seq(Threads) /\ IsInjective(queue'[e])
      /\ Range(queue'[e]) \subseteq Range(queue[e])
      /\ queue' \in [Entries -> Seq(Threads)]
      /\ label = "no_waiter" => queue'[e] = <<>>
      /\ a # COND => \/ label = "no_waiter" /\ N = {}
                     \/ label = "finish" /\ \E u \in Notifiable(e) : N = {u}
  <2>1. queue'[e] = IF call[t].op = "broadcast" THEN <<>> ELSE AfterNotifyOne(e)
    BY <1>0, <1>1, <1>4 DEF Types
  <2>2. \A f \in Entries : f # e => queue'[f] = queue[f]
    BY <1>0, <1>1, <1>4 DEF Types
  <2>3. DOMAIN queue' = Entries
    BY <1>0, <1>4 DEF Types
  <2>4. CASE call[t].op = "broadcast"
    <3>1. queue'[e] = <<>> /\ Range(<<>>) = {} /\ IsInjective(<<>>) /\ <<>> \in Seq(Threads)
      BY <2>1, <2>4 DEF Range, IsInjective
    <3>2. label # "no_waiter" /\ a = COND
      BY <1>1, <1>3, <2>4
    <3>3. queue' \in [Entries -> Seq(Threads)]
      <4>1. queue' = [queue EXCEPT ![e] = <<>>]
        BY <1>4, <2>4
      <4> QED
        BY <1>0, <3>1, <4>1 DEF Types
    <3> QED
      BY <2>2, <3>1, <3>2, <3>3
  <2>5. CASE call[t].op # "broadcast"
    <3>1. queue'[e] = AfterNotifyOne(e)
      BY <2>1, <2>5
    <3>2. /\ AfterNotifyOne(e) \in Seq(Threads) /\ IsInjective(AfterNotifyOne(e))
          /\ Range(AfterNotifyOne(e)) \subseteq Range(queue[e])
          /\ Notifiable(e) = {} => AfterNotifyOne(e) = <<>>
          /\ Notifiable(e) # {} =>
               \E u \in Notifiable(e) :
                 /\ u \notin Range(AfterNotifyOne(e))
                 /\ \A v \in Range(queue[e]) \ Range(AfterNotifyOne(e)) :
                      v = u \/ pc[v] = "leave"
      BY <1>0, <1>1, <1>2, NotifyOneQueue
    <3>3. Notifiable(e) = {} => N = {}
      BY DEF Notifiable
    <3>4. Notifiable(e) # {} => \E u \in Notifiable(e) : N = {u}
      <4> SUFFICES ASSUME Notifiable(e) # {} PROVE \E u \in Notifiable(e) : N = {u}
        OBVIOUS
      <4>1. PICK u \in Notifiable(e) :
              /\ u \notin Range(AfterNotifyOne(e))
              /\ \A v \in Range(queue[e]) \ Range(AfterNotifyOne(e)) :
                   v = u \/ pc[v] = "leave"
        BY <3>2
      <4>2. u \in N /\ \A v \in N : v = u
        BY <3>1, <4>1 DEF Notifiable
      <4> QED
        BY <4>2
    <3>5. queue' \in [Entries -> Seq(Threads)]
      BY <1>0, <1>4, <2>5, <3>2 DEF Types
    <3> QED
      BY <1>3, <2>2, <2>5, <3>1, <3>2, <3>3, <3>4, <3>5
  <2> QED
    BY <2>4, <2>5
<1>6. /\ pc' \in [Threads -> Labels] /\ pc'[t] = label
      /\ \A v \in Threads : v # t => pc'[v] = pc[v]
  BY <1>0, <1>3 DEF Types, Labels
<1>7. ASSUME NEW v \in Range(queue[e])
      PROVE  /\ v \in Threads /\ v # t /\ Target(v) = a
             /\ call[v].op \in WaitOps /\ call[v].status # B_OK
             /\ \/ pc[v] \in {"wait", "leave"}
                \/ call[v].op = "cond_wait" /\ pc[v] \in SwitchLabels
             /\ a = MUTEX => call[v].op \in {"lock", "relock"}
             /\ a = COND => call[v].op = "cond_wait"
             /\ a = SEM => call[v].op = "sem_wait"
             /\ \A f \in Entries : v \in Range(queue[f]) => f = e
  <2>1. /\ Entry(v, Target(v)) = e /\ call[v].op \in WaitOps /\ call[v].status # B_OK
        /\ \/ pc[v] \in {"wait", "leave"}
           \/ call[v].op = "cond_wait" /\ pc[v] \in SwitchLabels
    BY <1>1 DEF Inv, QueueInv
  <2>2. v \in Threads
    BY <1>2, RangeOfSeq
  <2>3. Target(v) \in Addresses /\ e # NULL
    BY <1>0, <1>1 DEF Target, Addresses
  <2>4. table[Target(v)] = e
    BY <1>0, <2>1, <2>2, <2>3 DEF TableInv
  <2>5. Target(v) = a
    BY <1>0, <1>1, <2>3, <2>4 DEF TableInv
  <2>6. /\ a = MUTEX => call[v].op \in {"lock", "relock"}
        /\ a = COND => call[v].op = "cond_wait"
        /\ a = SEM => call[v].op = "sem_wait"
    BY <2>1, <2>5 DEF Target, WaitOps
  <2>7. v # t
    BY <1>1, <2>1, <2>6 DEF WaitOps
  <2>8. \A f \in Entries : v \in Range(queue[f]) => f = e
    BY <2>1 DEF Inv, QueueInv
  <2> QED
    BY <2>1, <2>2, <2>5, <2>6, <2>7, <2>8
<1>8. \A v \in Threads : Queued(v)' <=> Queued(v) /\ v \notin Gone
  <2> SUFFICES ASSUME NEW v \in Threads PROVE Queued(v)' <=> Queued(v) /\ v \notin Gone
    OBVIOUS
  <2>1. CASE v \in Range(queue[e])
    BY <1>1, <1>5, <1>7, <2>1 DEF Queued
  <2>2. CASE v \notin Range(queue[e])
    BY <1>1, <1>5, <2>2 DEF Queued
  <2> QED
    BY <2>1, <2>2
<1>9. \A v \in Threads :
        /\ Target(v)' = Target(v) /\ Unblocked(v)' = Unblocked(v) /\ Held(v)' = Held(v)
        /\ \A b : Entry(v, b)' = Entry(v, b)
  BY <1>0 DEF Target, Unblocked, Held, Entry
<1> HIDE DEF a, e, Gone, N
<1>10. /\ Gone \subseteq Range(queue[e]) /\ N \subseteq Gone
       /\ \A v \in Gone : v \notin N => pc[v] = "leave"
       /\ \A v \in N : pc[v] # "leave"
  BY DEF Gone, N
<1>11. Types'
  BY <1>0, <1>5, <1>6 DEF Types
<1>12. ASSUME NEW v \in Threads PROVE Local(v)'
  <2>1. CASE v = t
    <3>1. call[t].op \in UnblockOps \cup {"sem_post"} /\ Unblocked(t) \in Held(t)
      BY <1>1 DEF UnblockOps, Addresses, a
    <3> QED
      BY <1>0, <1>1, <1>6, <1>9, <2>1, <3>1 DEF Local, SwitchLabels, UnblockOps, WaitOps
  <2>2. CASE v # t
    <3>1. Local(v)
      BY DEF Inv
    <3> QED
      BY <1>0, <1>6, <1>9, <2>2, <3>1 DEF Local
  <2> QED
    BY <2>1, <2>2
<1>13. ASSUME NEW f \in Entries PROVE QueueInv(f)'
  <2>1. /\ queue'[f] \in Seq(Threads) /\ IsInjective(queue'[f])
        /\ Range(queue'[f]) \subseteq Range(queue[f])
    BY <1>5 DEF Inv, QueueInv
  <2>2. ASSUME NEW v \in Range(queue'[f])
        PROVE  /\ Entry(v, Target(v))' = f /\ call'[v].op \in WaitOps
               /\ call'[v].status # B_OK
               /\ \/ pc'[v] \in {"wait", "leave"}
                  \/ call'[v].op = "cond_wait" /\ pc'[v] \in SwitchLabels
    <3>1. v \in Threads /\ v \in Range(queue[f])
      BY <2>1, <2>2, RangeOfSeq
    <3>2. /\ Entry(v, Target(v)) = f /\ call[v].op \in WaitOps
          /\ call[v].status # B_OK
          /\ \/ pc[v] \in {"wait", "leave"}
             \/ call[v].op = "cond_wait" /\ pc[v] \in SwitchLabels
      BY <3>1 DEF Inv, QueueInv
    <3>3. Entry(v, Target(v))' = f
      BY <1>9, <3>1, <3>2 DEF Entry
    <3>4. CASE v # t
      BY <1>0, <1>6, <3>1, <3>2, <3>3, <3>4
    <3>5. CASE v = t
      BY <1>0, <1>1, <1>6, <3>2, <3>3, <3>5 DEF SwitchLabels
    <3> QED
      BY <3>4, <3>5
  <2> QED
    BY <2>1, <2>2 DEF QueueInv
<1>14. TableInv'
  <2>1. \A b \in Addresses : Referrers(b)' = Referrers(b)
    BY <1>9 DEF Referrers
  <2> QED
    BY <1>0, <1>9, <2>1 DEF TableInv
<1>15. ASSUME NEW f \in Entries PROVE WriterInv(f)'
  <2>1. \A v \in Threads : v # t => /\ v \in Writers(f)' <=> v \in Writers(f)
                                    /\ v \in Readers(f)' <=> v \in Readers(f)
    <3> SUFFICES ASSUME NEW v \in Threads, v # t
                 PROVE  /\ v \in Writers(f)' <=> v \in Writers(f)
                        /\ v \in Readers(f)' <=> v \in Readers(f)
      OBVIOUS
    <3>1. /\ Entry(v, Target(v))' = Entry(v, Target(v))
          /\ Entry(v, Unblocked(v))' = Entry(v, Unblocked(v))
      BY <1>0, <1>9 DEF Entry
    <3> QED
      BY <1>6, <3>1 DEF Writers, Readers
  <2>2. t \notin Readers(f)' /\ t \notin Readers(f)
    BY <1>1, <1>6 DEF Readers
  <2>3. t \in Writers(f)' <=> f = e
    <3>1. Entry(t, Unblocked(t))' = e
      BY <1>0, <1>1, <1>9 DEF Entry, a
    <3> QED
      BY <1>6, <3>1 DEF Writers
  <2>4. /\ Writers(f) \subseteq Threads /\ Readers(f) \subseteq Threads
        /\ Writers(f)' \subseteq Threads /\ Readers(f)' \subseteq Threads
    BY DEF Writers, Readers
  <2>5. WriterInv(f)
    BY DEF Inv
  <2>6. CASE f = e
    <3>1. (\A v \in Writers(f) : v = t) /\ Readers(f) = {}
      <4>1. CASE pc[t] = "notify"
        <5>1. t \in Writers(f)
          BY <1>1, <2>6, <4>1 DEF Writers, a
        <5> QED
          BY <2>5, <5>1 DEF WriterInv
      <4>2. CASE pc[t] = "sem_release" /\ WriteLockable(e)
        BY <2>6, <4>2 DEF WriteLockable
      <4> QED
        BY <1>1, <4>1, <4>2
    <3>2. (\A v \in Writers(f)' : v = t) /\ Readers(f)' = {}
      BY <2>1, <2>2, <2>4, <3>1
    <3> QED
      BY <1>5, <1>6, <2>6, <3>2 DEF WriterInv
  <2>7. CASE f # e
    <3>1. Writers(f)' = Writers(f) /\ Readers(f)' = Readers(f) /\ t \notin Writers(f)
      <4>1. t \notin Writers(f)
        BY <1>1, <2>7 DEF Writers, a
      <4> QED
        BY <2>1, <2>2, <2>3, <2>4, <2>7, <4>1
    <3> QED
      BY <1>5, <1>6, <2>4, <2>5, <2>7, <3>1 DEF WriterInv
  <2> QED
    BY <2>6, <2>7
<1>16. /\ \A v \in Threads : v # t /\ v \notin N => (Acquired(v)' <=> Acquired(v))
       /\ \A v \in N : a # COND => Acquired(v)'
       /\ \A v \in N : ~Acquired(v)
  <2>1. ASSUME NEW v \in Threads, v # t, v \notin N PROVE Acquired(v)' <=> Acquired(v)
    BY <1>0, <1>6, <1>8, <1>10, <2>1 DEF Acquired
  <2>2. ASSUME NEW v \in N PROVE ~Acquired(v) /\ (a # COND => Acquired(v)')
    <3>1. v \in Gone /\ v \in Range(queue[e]) /\ pc[v] # "leave"
      BY <1>10, <2>2
    <3>2. v \in Threads /\ v # t /\ call[v].status # B_OK
          /\ (a # COND => pc[v] = "wait")
      BY <1>1, <1>7, <3>1 DEF Addresses
    <3>3. Queued(v)
      BY <1>1, <3>1 DEF Queued
    <3>4. ~Queued(v)'
      BY <1>8, <3>1, <3>2
    <3> QED
      BY <1>6, <3>2, <3>3, <3>4 DEF Acquired
  <2> QED
    BY <2>1, <2>2
<1>17. \A v \in N : /\ v \in Threads /\ v # t /\ Target(v) = a
                    /\ a = MUTEX => call[v].op \in {"lock", "relock"}
                    /\ a = COND => call[v].op = "cond_wait"
                    /\ a = SEM => call[v].op = "sem_wait"
  BY <1>7, <1>10
<1>18. /\ \A v \in Threads : v # t /\ v \notin N =>
            /\ v \in MutexHolders' <=> v \in MutexHolders
            /\ v \in SemHolders' <=> v \in SemHolders
       /\ \A v \in N : /\ a = MUTEX => v \in MutexHolders'
                       /\ a # MUTEX => (v \in MutexHolders' <=> v \in MutexHolders)
                       /\ a = SEM => v \in SemHolders' /\ v \notin SemHolders
                       /\ a # SEM => v \notin SemHolders' /\ v \notin SemHolders
  <2>1. ASSUME NEW v \in Threads, v # t, v \notin N
        PROVE  /\ v \in MutexHolders' <=> v \in MutexHolders
               /\ v \in SemHolders' <=> v \in SemHolders
    BY <1>0, <1>6, <1>16, <2>1 DEF MutexHolders, SemHolders
  <2>2. ASSUME NEW v \in N
        PROVE  /\ a = MUTEX => v \in MutexHolders'
               /\ a # MUTEX => (v \in MutexHolders' <=> v \in MutexHolders)
               /\ a = SEM => v \in SemHolders' /\ v \notin SemHolders
               /\ a # SEM => v \notin SemHolders' /\ v \notin SemHolders
    <3>1. /\ v \in Threads /\ v # t /\ pc'[v] = pc[v] /\ call'[v] = call[v]
          /\ a = MUTEX => call[v].op \in {"lock", "relock"}
          /\ a = COND => call[v].op = "cond_wait"
          /\ a = SEM => call[v].op = "sem_wait"
          /\ ~Acquired(v) /\ (a # COND => Acquired(v)')
      BY <1>0, <1>6, <1>16, <1>17
    <3> QED
      BY <1>1, <3>1 DEF MutexHolders, SemHolders, Addresses
  <2> QED
    BY <2>1, <2>2
<1>19. /\ t \in MutexHolders' <=> t \in MutexHolders
       /\ a = MUTEX => t \notin MutexHolders
       /\ t \notin SemHolders /\ t \notin SemHolders'
       /\ t \in UnitsBeingPosted <=> a = SEM
       /\ t \in UnitsBeingPosted' <=> a = SEM /\ label = "no_waiter"
       /\ t \in HandedOff <=> a = MUTEX
       /\ t \in HandedOff' <=> a = MUTEX /\ label = "no_waiter"
  BY <1>0, <1>1, <1>6, <1>9
     DEF MutexHolders, SemHolders, UnitsBeingPosted, HandedOff, a, UnblockOps, Addresses
<1>20. \A v \in Threads : v # t =>
         /\ v \in UnitsBeingPosted' <=> v \in UnitsBeingPosted
         /\ v \in HandedOff' <=> v \in HandedOff
  BY <1>0, <1>6, <1>9 DEF UnitsBeingPosted, HandedOff
<1>21. /\ MutexHolders \in SUBSET Threads /\ MutexHolders' \in SUBSET Threads
       /\ HandedOff \in SUBSET Threads /\ HandedOff' \in SUBSET Threads
       /\ UnitsBeingPosted \in SUBSET Threads /\ UnitsBeingPosted' \in SUBSET Threads
       /\ SemHolders \in SUBSET Threads /\ SemHolders' \in SUBSET Threads
  BY DEF MutexHolders, HandedOff, UnitsBeingPosted, SemHolders
<1>22. MutexInv'
  <2>1. CASE a # MUTEX
    <3>1. MutexHolders' = MutexHolders /\ HandedOff' = HandedOff
      BY <1>18, <1>19, <1>20, <1>21, <2>1
    <3> QED
      BY <1>0, <3>1 DEF Inv, MutexInv, Owners
  <2>2. CASE a = MUTEX /\ label = "no_waiter"
    <3>1. N = {}
      BY <1>5, <2>2
    <3>2. MutexHolders' = MutexHolders /\ HandedOff' = HandedOff
      BY <1>18, <1>19, <1>20, <1>21, <2>2, <3>1
    <3> QED
      BY <1>0, <3>2 DEF Inv, MutexInv, Owners
  <2>3. CASE a = MUTEX /\ label = "finish"
    <3>1. PICK u : N = {u}
      BY <1>5, <2>3
    <3>2. MutexHolders = {} /\ HandedOff = {t} /\ LOCKED \in word[MUTEX]
      BY <1>19, <1>21, <2>3 DEF Inv, MutexInv, Owners
    <3>3. MutexHolders' = {u} /\ HandedOff' = {}
      BY <1>17, <1>18, <1>19, <1>20, <1>21, <2>3, <3>1, <3>2
    <3> QED
      BY <1>0, <3>2, <3>3 DEF MutexInv, Owners
  <2> QED
    BY <2>1, <2>2, <2>3
<1>23. SemInv'
  <2>1. CASE a # SEM
    <3>1. SemHolders' = SemHolders /\ UnitsBeingPosted' = UnitsBeingPosted
      BY <1>18, <1>19, <1>20, <1>21, <2>1
    <3> QED
      BY <1>0, <3>1 DEF Inv, SemInv
  <2>2. CASE a = SEM /\ label = "no_waiter"
    <3>1. N = {}
      BY <1>5, <2>2
    <3>2. SemHolders' = SemHolders /\ UnitsBeingPosted' = UnitsBeingPosted
      BY <1>18, <1>19, <1>20, <1>21, <2>2, <3>1
    <3> QED
      BY <1>0, <3>2 DEF Inv, SemInv
  <2>3. CASE a = SEM /\ label = "finish"
    <3>1. PICK u : N = {u}
      BY <1>5, <2>3
    <3>2. u \in Threads /\ u # t /\ u \in SemHolders' /\ u \notin SemHolders
      BY <1>17, <1>18, <2>3, <3>1
    <3>3. \A v \in Threads : v # u => (v \in SemHolders' <=> v \in SemHolders)
      BY <1>18, <1>19, <3>1
    <3>4. /\ Cardinality(SemHolders) \in Nat /\ Cardinality(SemHolders') \in Nat
          /\ Cardinality(SemHolders')
               = Cardinality(SemHolders) - In(u, SemHolders) + In(u, SemHolders')
      BY <1>21, <3>2, <3>3, CardinalityChange
    <3>5. /\ Cardinality(UnitsBeingPosted) \in Nat /\ Cardinality(UnitsBeingPosted') \in Nat
          /\ Cardinality(UnitsBeingPosted')
               = Cardinality(UnitsBeingPosted) - In(t, UnitsBeingPosted) + In(t, UnitsBeingPosted')
      BY <1>20, <1>21, CardinalityChange
    <3>6. /\ Cardinality(SemHolders') = Cardinality(SemHolders) + 1
          /\ Cardinality(UnitsBeingPosted') = Cardinality(UnitsBeingPosted) - 1
      BY <1>19, <2>3, <3>2, <3>4, <3>5 DEF In
    <3> QED
      BY <1>0, <3>4, <3>5, <3>6 DEF Inv, SemInv
  <2> QED
    BY <2>1, <2>2, <2>3
<1>24. CondInv'
  <2>1. CondUsers' = CondUsers
    BY <1>0 DEF CondUsers
  <2> QED
    BY <1>0, <2>1 DEF Inv, CondInv
<1>25. ASSUME NEW v \in Threads PROVE WaitInv(v)'
  <2>1. Unblockers' = Unblockers
    BY <1>1, <1>6, <1>9 DEF Unblockers
  <2>2. Waits(v)' => Waits(v)
    BY <1>1, <1>6, <1>8 DEF Waits
  <2>3. WaitInv(v)
    BY DEF Inv
  <2> QED
    BY <1>0, <1>9, <2>1, <2>2, <2>3 DEF WaitInv
<1> QED
  BY <1>11, <1>12, <1>13, <1>14, <1>15, <1>22, <1>23, <1>24, <1>25 DEF Inv

-----------------------------------------------------------------------------
(* The invariant *)

(* Nothing happens.                                                        *)
LEMMA Stutters ==
  ASSUME Inv, UNCHANGED vars
  PROVE  Inv'
<1>0. /\ word' = word /\ sem' = sem /\ waiter_count' = waiter_count /\ table' = table
      /\ ref_count' = ref_count /\ queue' = queue /\ pc' = pc /\ call' = call
      /\ balance' = balance
  BY DEF vars
<1>1. \A t : /\ Target(t)' = Target(t) /\ Unblocked(t)' = Unblocked(t) /\ Held(t)' = Held(t)
             /\ \A a : Entry(t, a)' = Entry(t, a)
             /\ Queued(t)' <=> Queued(t)
             /\ Acquired(t)' <=> Acquired(t)
  BY <1>0 DEF Target, Unblocked, Held, Entry, Queued, Acquired
<1>2. \A t : Entry(t, Target(t))' = Entry(t, Target(t))
  BY <1>0 DEF Entry, Target
<1>3. \A t : Entry(t, Unblocked(t))' = Entry(t, Unblocked(t))
  BY <1>0 DEF Entry, Unblocked
<1>4. Types'
  BY <1>0 DEF Inv, Types
<1>5. ASSUME NEW t \in Threads PROVE Local(t)'
  BY <1>0, <1>1 DEF Inv, Local
<1>6. ASSUME NEW e \in Entries PROVE QueueInv(e)'
  BY <1>0, <1>2 DEF Inv, QueueInv
<1>7. TableInv'
  BY <1>0, <1>1 DEF Inv, TableInv, Referrers
<1>8. ASSUME NEW e \in Entries PROVE WriterInv(e)'
  <2>1. Writers(e)' = Writers(e) /\ Readers(e)' = Readers(e)
    BY <1>0, <1>2, <1>3 DEF Writers, Readers
  <2> QED
    BY <1>0, <2>1 DEF Inv, WriterInv
<1>9. MutexInv'
  <2>1. MutexHolders' = MutexHolders /\ HandedOff' = HandedOff
    BY <1>0, <1>1 DEF MutexHolders, HandedOff
  <2> QED
    BY <1>0, <2>1 DEF Inv, MutexInv, Owners
<1>10. SemInv' /\ CondInv'
  <2>1. UnitsBeingPosted' = UnitsBeingPosted /\ SemHolders' = SemHolders /\ CondUsers' = CondUsers
    BY <1>0, <1>1 DEF UnitsBeingPosted, SemHolders, CondUsers
  <2> QED
    BY <1>0, <2>1 DEF Inv, SemInv, CondInv
<1>11. ASSUME NEW t \in Threads PROVE WaitInv(t)'
  <2>1. Unblockers' = Unblockers /\ (Waits(t)' <=> Waits(t))
    BY <1>0, <1>1 DEF Unblockers, Waits
  <2> QED
    BY <1>0, <1>1, <2>1 DEF Inv, WaitInv
<1> QED
  BY <1>4, <1>5, <1>6, <1>7, <1>8, <1>9, <1>10, <1>11 DEF Inv

(* Every step keeps the invariant.                                         *)
LEMMA StepInv ==
  ASSUME Inv, [Next]_vars
  PROVE  Inv'
<1>1. ASSUME NEW t \in Threads,
             \/ mutex_lock(t) \/ mutex_lock_return(t)
             \/ mutex_unlock(t) \/ mutex_unlock_return(t)
             \/ cond_wait(t) \/ cond_wait_relock(t) \/ cond_wait_return(t)
             \/ \E op \in {"signal", "broadcast"} : cond_signal(t, op)
             \/ cond_signal_return(t)
             \/ sem_wait(t) \/ sem_post(t) \/ get_to_post(t) \/ sem_return(t)
      PROVE  Inv'
  BY <1>1, StepMutexLock, StepMutexLockReturn, StepMutexUnlock, StepMutexUnlockReturn,
     StepCondWait, StepCondWaitRelock, StepCondWaitReturn, StepCondSignal,
     StepCondSignalReturn, StepSemWait, StepSemPost, StepGetToPost, StepSemReturn
<1>2. ASSUME NEW t \in Threads,
             \/ get_to_wait(t) \/ user_mutex_prepare_to_lock(t) \/ unset_waiting(t)
             \/ user_mutex_sem_acquire_locked(t) \/ user_mutex_wait_locked(t)
             \/ wait_notified(t) \/ wait_leave(t) \/ check_waiting(t)
             \/ \E status \in Errors : wait_fails(t, status)
      PROVE  Inv'
  BY <1>2, StepGetToWait, StepPrepare, StepUnsetWaiting, StepSemAcquire, StepWaitLocked,
     StepWaitNotified, StepWaitLeave, StepCheckWaiting, StepWaitFails
<1>3. ASSUME NEW t \in Threads,
             \/ user_mutex_switch_lock(t)
             \/ get_to_unblock(t) \/ user_mutex_unblock(t) \/ Notify(t)
             \/ no_waiter(t) \/ finish(t)
             \/ put_user_mutex_entry(t) \/ delete_entry(t)
      PROVE  Inv'
  BY <1>3, StepSwitchLock, StepGetToUnblock, StepUnblock, StepNotify, StepNoWaiter,
     StepFinish, StepPut, StepDelete
<1> QED
  BY <1>1, <1>2, <1>3, Stutters DEF Next, Errors

(* The invariant holds in every reachable state.                           *)
THEOREM UserMutexInvariant == Spec => []Inv
<1>1. Init => Inv
  BY Initially
<1>2. Inv /\ [Next]_vars => Inv'
  BY StepInv
<1> QED
  BY <1>1, <1>2, PTL DEF Spec

(* The words, the table, the entries and the calls have their types: in    *)
(* particular the semaphore's value stays above -2, and no reference count *)
(* goes below zero.                                                        *)
THEOREM UserMutexTypeOK == Spec => []TypeOK
<1>1. ASSUME Inv PROVE TypeOK
  <2>0. Types /\ Cardinality(Threads) \in Nat /\ MaxUnits \in Nat
    BY <1>1, UserMutexConstants, FS_CardinalityType DEF Inv
  <2>1. IsFiniteSet(UnitsBeingPosted) /\ IsFiniteSet(SemHolders) /\ IsFiniteSet(CondUsers)
    BY UserMutexConstants, FS_Subset DEF UnitsBeingPosted, SemHolders, CondUsers
  <2>2. /\ Cardinality(UnitsBeingPosted) \in Nat /\ Cardinality(SemHolders) \in Nat
        /\ Cardinality(CondUsers) \in Nat
    BY <2>1, FS_CardinalityType
  <2>3. Cardinality(CondUsers) <= Cardinality(Threads)
    BY UserMutexConstants, FS_Subset DEF CondUsers
  <2>4. sem \in -1 .. MaxUnits /\ balance \in 0 .. MaxUnits
    BY <1>1, <2>0, <2>2 DEF Inv, Types, SemInv
  <2>5. waiter_count \in 0 .. Cardinality(Threads)
    BY <1>1, <2>0, <2>2, <2>3 DEF Inv, CondInv
  <2>6. ref_count \in [Entries -> 0 .. 2 * Cardinality(Threads)]
    <3>1. \A e \in Entries : ref_count[e] \in 0 .. 2 * Cardinality(Threads)
      <4>1. \A n \in 0 .. Cardinality(Threads) : n \in 0 .. 2 * Cardinality(Threads)
        BY <2>0
      <4> QED
        BY <2>0, <4>1 DEF Types
    <3> QED
      BY <2>0, <3>1 DEF Types
  <2> QED
    BY <1>1, <2>0, <2>4, <2>5, <2>6 DEF Inv, Types, QueueInv, TypeOK, Words
<1> QED
  BY <1>1, UserMutexInvariant, PTL

(* Whoever works on an entry works on the one the table has for the        *)
(* address, and its references are counted.                                *)
THEOREM EntriesInUse == Spec => []EntryInUse
<1>1. Inv => EntryInUse
  BY DEF Inv, TableInv, Referrers, EntryInUse
<1> QED
  BY <1>1, UserMutexInvariant, PTL

(* The mutex is with one thread at most, and with one if it is locked; no  *)
(* unit of the semaphore is lost or duplicated.                            *)
THEOREM NoUnitLost == Spec => []UnitsConserved
<1>1. ASSUME Inv PROVE UnitsConserved
  <2>1. /\ Cardinality(MutexHolders) + Cardinality(HandedOff)
             = IF LOCKED \in word[MUTEX] THEN 1 ELSE 0
    <3>0. Cardinality({}) = 0 /\ \A x : Cardinality({x}) = 1
      BY FS_EmptySet, FS_Singleton
    <3>1. CASE LOCKED \notin word[MUTEX]
      <4>1. MutexHolders = {} /\ HandedOff = {}
        BY <1>1, <3>1 DEF Inv, MutexInv, Owners
      <4> QED
        BY <3>0, <3>1, <4>1
    <3>2. CASE LOCKED \in word[MUTEX]
      <4>1. PICK t : t \in Owners
        BY <1>1, <3>2 DEF Inv, MutexInv
      <4>2. \/ MutexHolders = {t} /\ HandedOff = {}
            \/ MutexHolders = {} /\ HandedOff = {t}
        BY <1>1, <4>1 DEF Inv, MutexInv, Owners
      <4> QED
        BY <3>0, <3>2, <4>2
    <3> QED
      BY <3>1, <3>2
  <2> QED
    BY <1>1, <2>1 DEF Inv, SemInv, SemHolders, UnitsConserved
<1> QED
  BY <1>1, UserMutexInvariant, PTL

(* The word of everybody who waits says so, and if the mutex is not locked *)
(* somebody is about to unblock the waiter.                                *)
THEOREM WaitersRemembered == Spec => []NoForgottenWaiter
<1>1. ASSUME Inv PROVE NoForgottenWaiter
  <2> SUFFICES ASSUME NEW t \in Threads, Queued(t), pc[t] # "leave"
               PROVE  IF Target(t) = SEM THEN sem = -1
                      ELSE /\ WAITING \in word[Target(t)]
                           /\ Target(t) = MUTEX =>
                                \/ LOCKED \in word[MUTEX]
                                \/ \E u \in Threads : /\ Unblocked(u) = MUTEX
                                                      /\ pc[u] \in {"unblock_get", "unblock"}
    BY DEF NoForgottenWaiter
  <2>1. WaitInv(t) /\ Waits(t)
    BY <1>1 DEF Inv, Waits
  <2> QED
    BY <2>1 DEF WaitInv, Unblockers
<1> QED
  BY <1>1, UserMutexInvariant, PTL

-----------------------------------------------------------------------------
(* Signals *)

(* A step of t ...                                                         *)
UserStep(t) ==
  \/ mutex_lock(t) \/ mutex_lock_return(t)
  \/ mutex_unlock(t) \/ mutex_unlock_return(t)
  \/ cond_wait(t) \/ cond_wait_relock(t) \/ cond_wait_return(t)
  \/ \E op \in {"signal", "broadcast"} : cond_signal(t, op)
  \/ cond_signal_return(t)
  \/ sem_wait(t) \/ sem_post(t) \/ sem_return(t)
GetStep(t) == get_to_post(t) \/ get_to_wait(t)
QueueStep(t) == user_mutex_wait_locked(t) \/ wait_leave(t) \/ Notify(t)
KernelStep(t) ==
  \/ user_mutex_prepare_to_lock(t) \/ unset_waiting(t)
  \/ user_mutex_sem_acquire_locked(t)
  \/ wait_notified(t) \/ check_waiting(t)
  \/ \E status \in {B_TIMED_OUT, B_INTERRUPTED} : wait_fails(t, status)
  \/ user_mutex_switch_lock(t)
  \/ get_to_unblock(t) \/ user_mutex_unblock(t)
  \/ no_waiter(t) \/ finish(t)
  \/ put_user_mutex_entry(t) \/ delete_entry(t)
Step(t) == UserStep(t) \/ GetStep(t) \/ QueueStep(t) \/ KernelStep(t)

(* ... does not change what the others do ...                              *)
LEMMA OthersStay ==
  ASSUME Inv, NEW t \in Threads, Step(t), NEW u \in Threads, u # t
  PROVE  pc'[u] = pc[u] /\ call'[u] = call[u]
<1>0. u \in DOMAIN pc /\ u \in DOMAIN call
  BY DEF Inv, Types
<1>1. CASE UserStep(t)
  <2>1. CASE mutex_lock(t) \/ mutex_unlock(t) \/ mutex_unlock_return(t)
    BY <1>0, <2>1 DEF mutex_lock, mutex_unlock, mutex_unlock_return, Enter, Goto
  <2>6. CASE mutex_lock_return(t)
    <3>1. call[t].status \in {B_OK, B_TIMED_OUT, B_INTERRUPTED}
      BY <2>6 DEF Inv, Local, mutex_lock_return, Returning, Types, Calls, WaitOps, Errors
    <3> QED
      BY <1>0, <2>6, <3>1 DEF mutex_lock_return, Enter, Goto
  <2>2. CASE \/ cond_wait(t) \/ cond_wait_return(t) \/ cond_signal_return(t)
    BY <1>0, <2>2 DEF cond_wait, cond_wait_return, cond_signal_return, Enter, Goto
  <2>3. CASE cond_wait_relock(t)
    BY <1>0, <2>3 DEF cond_wait_relock, Enter, Goto
  <2>4. CASE \E op \in {"signal", "broadcast"} : cond_signal(t, op)
    BY <1>0, <2>4 DEF cond_signal, Goto
  <2>5. CASE sem_wait(t) \/ sem_post(t) \/ sem_return(t)
    BY <1>0, <2>5 DEF sem_wait, sem_post, sem_return, Enter, Goto
  <2> QED
    BY <1>1, <2>1, <2>2, <2>3, <2>4, <2>5, <2>6 DEF UserStep
<1>2. CASE GetStep(t)
  BY <1>0, <1>2 DEF GetStep, get_to_post, get_to_wait, get_user_mutex_entry, Goto
<1>3. CASE QueueStep(t)
  BY <1>0, <1>3 DEF QueueStep, user_mutex_wait_locked, wait_leave, Notify, Goto
<1>4. CASE KernelStep(t)
  BY <1>0, <1>4
     DEF KernelStep, user_mutex_prepare_to_lock, unset_waiting,
         user_mutex_sem_acquire_locked, wait_notified, check_waiting, wait_fails,
         user_mutex_switch_lock, get_to_unblock, user_mutex_unblock, no_waiter, finish,
         put_user_mutex_entry, delete_entry, Goto
<1> QED
  BY <1>1, <1>2, <1>3, <1>4 DEF Step

(* ... and puts nobody but itself into a queue.                            *)
LEMMA QueuesShrink ==
  ASSUME Inv, NEW t \in Threads, Step(t), NEW u \in Threads, Queued(u)'
  PROVE  /\ Queued(u) \/ (u = t /\ pc[t] = "add")
         /\ u = t => pc[t] # "leave"
<1>0. Types
  BY DEF Inv
<1>1. CASE UNCHANGED queue /\ pc[t] # "leave"
  BY <1>1 DEF Queued
<1>2. CASE UserStep(t)
  BY <1>1, <1>2
     DEF UserStep, mutex_lock, mutex_lock_return, mutex_unlock, mutex_unlock_return,
         cond_wait, cond_wait_relock, cond_wait_return, cond_signal, cond_signal_return,
         sem_wait, sem_post, sem_return, Returning, kernel
<1>3. CASE GetStep(t)
  <2>1. PICK e \in Entries : queue' = [queue EXCEPT ![e] = queue[e]]
                             \/ queue' = [queue EXCEPT ![e] = <<>>]
    BY <1>3 DEF GetStep, get_to_post, get_to_wait, get_user_mutex_entry
  <2>2. Range(<<>>) = {}
    BY DEF Range
  <2>3. \A f \in Entries : queue'[f] = queue[f] \/ queue'[f] = <<>>
    BY <1>0, <2>1 DEF Types
  <2>4. pc[t] # "leave"
    BY <1>3 DEF GetStep, get_to_post, get_to_wait
  <2> QED
    BY <2>2, <2>3, <2>4 DEF Queued
<1>4. CASE QueueStep(t)
  <2>1. CASE user_mutex_wait_locked(t)
    <3> DEFINE e == Entry(t, Target(t))
    <3>1. queue' = [queue EXCEPT ![e] = Append(queue[e], t)] /\ pc[t] = "add"
      BY <2>1 DEF user_mutex_wait_locked
    <3> HIDE DEF e
    <3>2. \A f \in Entries : f # e => queue'[f] = queue[f]
      BY <1>0, <3>1 DEF Types
    <3>3. e \in Entries => Range(queue'[e]) = Range(queue[e]) \cup {t}
      BY <1>0, <3>1, AppendMembers DEF Types
    <3> QED
      BY <3>1, <3>2, <3>3 DEF Queued
  <2>2. CASE wait_leave(t)
    <3> DEFINE e == Entry(t, Target(t))
    <3>1. queue' = [queue EXCEPT ![e] = RemoveFirst(queue[e], t)]
      BY <2>2 DEF wait_leave
    <3>0. \A f \in Entries : t \in Range(queue[f]) => f = e
      BY DEF Inv, QueueInv
    <3> HIDE DEF e
    <3>2. \A f \in Entries : f # e => queue'[f] = queue[f]
      BY <1>0, <3>1 DEF Types
    <3>3. e \in Entries => Range(queue'[e]) = Range(queue[e]) \ {t}
      <4> SUFFICES ASSUME e \in Entries PROVE Range(queue'[e]) = Range(queue[e]) \ {t}
        OBVIOUS
      <4>1. queue[e] \in Seq(Threads) /\ IsInjective(queue[e]) /\ queue'[e] = RemoveFirst(queue[e], t)
        BY <1>0, <3>1 DEF Types, Inv, QueueInv
      <4> QED
        BY <4>1, RemoveFirstMembers
    <3>4. u # t
      BY <3>0, <3>2, <3>3 DEF Queued
    <3> QED
      BY <3>2, <3>3, <3>4 DEF Queued
  <2>3. CASE Notify(t)
    <3> DEFINE e == Entry(t, Unblocked(t))
    <3>1. /\ \/ queue' = [queue EXCEPT ![e] = <<>>]
             \/ queue' = [queue EXCEPT ![e] = AfterNotifyOne(e)]
          /\ pc[t] # "leave"
      BY <2>3 DEF Notify
    <3> HIDE DEF e
    <3>2. \A f \in Entries : f # e => queue'[f] = queue[f]
      BY <1>0, <3>1 DEF Types
    <3>3. e \in Entries => Range(queue'[e]) \subseteq Range(queue[e])
      <4> SUFFICES ASSUME e \in Entries PROVE Range(queue'[e]) \subseteq Range(queue[e])
        OBVIOUS
      <4>1. Range(AfterNotifyOne(e)) \subseteq Range(queue[e]) /\ Range(<<>>) = {}
        <5>1. IsInjective(queue[e])
          BY DEF Inv, QueueInv
        <5>2. Range(<<>>) = {}
          BY DEF Range
        <5> QED
          BY <1>0, <5>1, <5>2, NotifyOneQueue
      <4>2. queue'[e] = <<>> \/ queue'[e] = AfterNotifyOne(e)
        BY <1>0, <3>1 DEF Types
      <4> QED
        BY <4>1, <4>2
    <3> QED
      BY <3>1, <3>2, <3>3 DEF Queued
  <2> QED
    BY <1>4, <2>1, <2>2, <2>3 DEF QueueStep
<1>5. CASE KernelStep(t)
  BY <1>1, <1>5
     DEF KernelStep, user_mutex_prepare_to_lock, unset_waiting,
         user_mutex_sem_acquire_locked, wait_notified, check_waiting, wait_fails,
         user_mutex_switch_lock, get_to_unblock, user_mutex_unblock, no_waiter, finish,
         put_user_mutex_entry, delete_entry, kernel
<1> QED
  BY <1>2, <1>3, <1>4, <1>5 DEF Step

(* Who waits, or is about to, goes on with the same call.                  *)
LEMMA WaitersStay ==
  ASSUME Inv, NEW t \in Threads, Step(t), Queued(t) \/ pc[t] = "add"
  PROVE  call'[t].op = call[t].op
<1>0. /\ pc[t] \in {"add", "wait", "leave"} \cup SwitchLabels
      /\ call[t] \in Calls /\ t \in DOMAIN call
  BY QueuedLabels DEF Inv, Types
<1>1. ~UserStep(t)
  BY <1>0 DEF UserStep, mutex_lock, mutex_lock_return, mutex_unlock, mutex_unlock_return,
         cond_wait, cond_wait_relock, cond_wait_return, cond_signal, cond_signal_return,
         sem_wait, sem_post, sem_return, Returning, SwitchLabels
<1>2. ~GetStep(t)
  BY <1>0 DEF GetStep, get_to_post, get_to_wait, SwitchLabels
<1>3. CASE QueueStep(t)
  BY <1>3 DEF QueueStep, user_mutex_wait_locked, wait_leave, Notify
<1>4. CASE KernelStep(t)
  <2>1. CASE get_to_unblock(t)
    BY <1>0, <2>1 DEF get_to_unblock, Calls
  <2>2. CASE wait_notified(t) \/ \E status \in {B_TIMED_OUT, B_INTERRUPTED} : wait_fails(t, status)
    BY <1>0, <2>2 DEF wait_notified, wait_fails, Calls
  <2>3. CASE \/ user_mutex_switch_lock(t) \/ user_mutex_unblock(t)
             \/ no_waiter(t) \/ finish(t)
    BY <2>3 DEF user_mutex_switch_lock, user_mutex_unblock, no_waiter, finish
  <2>4. ~(\/ user_mutex_prepare_to_lock(t) \/ unset_waiting(t)
          \/ user_mutex_sem_acquire_locked(t) \/ check_waiting(t)
          \/ put_user_mutex_entry(t) \/ delete_entry(t))
    BY <1>0 DEF user_mutex_prepare_to_lock, unset_waiting, user_mutex_sem_acquire_locked,
         check_waiting, put_user_mutex_entry, delete_entry, SwitchLabels
  <2> QED
    BY <1>4, <2>1, <2>2, <2>3, <2>4 DEF KernelStep
<1> QED
  BY <1>1, <1>2, <1>3, <1>4 DEF Step

(* Only a thread in cond_wait() that holds the mutex joins those who wait  *)
(* for the condition variable.                                             *)
LEMMA CondWaitersShrink ==
  ASSUME Inv, NEW t \in Threads, Step(t), ~(call[t].op = "cond_wait" /\ pc[t] = "add")
  PROVE  CondWaiters' \subseteq CondWaiters
<1> SUFFICES ASSUME NEW u \in CondWaiters' PROVE u \in CondWaiters
  OBVIOUS
<1>1. u \in Threads /\ call'[u].op = "cond_wait" /\ Queued(u)' /\ pc'[u] # "leave"
  BY DEF CondWaiters
<1>2. /\ Queued(u) \/ (u = t /\ pc[t] = "add")
      /\ u = t => pc[t] # "leave"
  BY <1>1, QueuesShrink
<1>3. CASE u # t
  BY <1>1, <1>2, <1>3, OthersStay DEF CondWaiters
<1>4. CASE u = t
  <2>1. call[t].op = "cond_wait"
    BY <1>1, <1>2, <1>4, WaitersStay
  <2> QED
    BY <1>1, <1>2, <1>4, <2>1 DEF CondWaiters
<1> QED
  BY <1>3, <1>4

(* Only the holder of the mutex locks the condition variable.              *)
LEMMA CondLockedByHolder ==
  ASSUME Inv, NEW t \in Threads, Step(t), LOCKED \in word'[COND]
  PROVE  LOCKED \in word[COND] \/ t \in MutexHolders
<1>0. /\ word \in [Words -> SUBSET {LOCKED, WAITING}] /\ MUTEX \in Words /\ COND \in Words
      /\ COND \in DOMAIN word
  BY DEF Inv, Types, Words
<1>1. CASE word' = word
  BY <1>1
<1>2. CASE UserStep(t)
  <2>1. CASE cond_wait(t)
    BY <2>1 DEF cond_wait, MutexHolders
  <2>2. CASE cond_wait_return(t)
    BY <1>0, <2>2 DEF cond_wait_return
  <2>3. CASE \E op \in {"signal", "broadcast"} : cond_signal(t, op)
    BY <1>0, <2>3 DEF cond_signal
  <2>4. CASE mutex_lock(t) \/ mutex_unlock(t) \/ cond_wait_relock(t)
    BY <1>0, <2>4 DEF mutex_lock, mutex_unlock, cond_wait_relock
  <2>5. CASE \/ mutex_lock_return(t) \/ mutex_unlock_return(t) \/ cond_signal_return(t)
             \/ sem_wait(t) \/ sem_post(t) \/ sem_return(t)
    BY <2>5 DEF mutex_lock_return, mutex_unlock_return, cond_signal_return, sem_wait,
         sem_post, sem_return
  <2> QED
    BY <1>2, <2>1, <2>2, <2>3, <2>4, <2>5 DEF UserStep
<1>3. CASE GetStep(t) \/ QueueStep(t)
  BY <1>3 DEF GetStep, get_to_post, get_to_wait, QueueStep, user_mutex_wait_locked,
         wait_leave, Notify
<1>4. CASE KernelStep(t)
  <2>1. CASE user_mutex_prepare_to_lock(t)
    <3>1. /\ pc[t] = "prepare" /\ call[t].op \in WaitOps
          /\ word' = [word EXCEPT ![Target(t)] = {LOCKED, WAITING}]
      BY <2>1 DEF Inv, Local, user_mutex_prepare_to_lock
    <3>2. CASE Target(t) = COND
      BY <3>1, <3>2 DEF Target, MutexHolders, WaitOps
    <3>3. CASE Target(t) # COND
      BY <1>0, <3>1, <3>3
    <3> QED
      BY <3>2, <3>3
  <2>2. CASE user_mutex_unblock(t)
    <3>1. CASE Unblocked(t) = COND
      <4>1. pc[t] = "unblock"
        BY <2>2 DEF user_mutex_unblock
      <4>2. call[t].op \in UnblockOps
        BY <4>1 DEF Inv, Local
      <4> QED
        BY <3>1, <4>2 DEF Unblocked, MutexHolders, UnblockOps
    <3>2. CASE Unblocked(t) # COND
      BY <1>0, <2>2, <3>2 DEF user_mutex_unblock
    <3> QED
      BY <3>1, <3>2
  <2>3. CASE unset_waiting(t)
    BY <1>0, <2>3 DEF unset_waiting
  <2>4. CASE user_mutex_switch_lock(t)
    BY <1>0, <2>4 DEF user_mutex_switch_lock
  <2>5. CASE get_to_unblock(t)
    BY <1>0, <2>5 DEF get_to_unblock
  <2>6. CASE no_waiter(t) \/ finish(t)
    BY <1>0, <2>6 DEF no_waiter, finish
  <2>7. CASE \/ user_mutex_sem_acquire_locked(t) \/ wait_notified(t) \/ check_waiting(t)
             \/ \E status \in {B_TIMED_OUT, B_INTERRUPTED} : wait_fails(t, status)
             \/ put_user_mutex_entry(t) \/ delete_entry(t)
    BY <2>7 DEF user_mutex_sem_acquire_locked, wait_notified, check_waiting, wait_fails,
         put_user_mutex_entry, delete_entry
  <2> QED
    BY <1>4, <2>1, <2>2, <2>3, <2>4, <2>5, <2>6, <2>7 DEF KernelStep
<1> QED
  BY <1>2, <1>3, <1>4 DEF Step

(* While a thread signals, nobody begins to wait, and once it has notified *)
(* the waiters it saw are not all there any more.                          *)
Signalling(t) == call[t].op \in {"signal", "broadcast"}
Signalled(t) == IF call[t].op = "broadcast" THEN CondWaiters = {}
                ELSE call[t].seen = {} \/ CondWaiters # call[t].seen
SignalInv(t) ==
  Signalling(t) =>
    /\ CondWaiters \subseteq call[t].seen
    /\ pc[t] \in {"unblock_get", "unblock"} => LOCKED \notin word[COND]
    /\ pc[t] \in {"no_waiter", "finish", "put"} => Signalled(t)

(* The steps of the others do not disturb a signaller.                     *)
LEMMA SignalOthers ==
  ASSUME Inv, NEW t \in Threads, Step(t), NEW u \in Threads, u # t, SignalInv(u)
  PROVE  SignalInv(u)'
<1> SUFFICES ASSUME Signalling(u)' PROVE SignalInv(u)'
  BY DEF SignalInv
<1>1. pc'[u] = pc[u] /\ call'[u] = call[u] /\ Signalling(u)
  BY OthersStay DEF Signalling
<1>2. u \in MutexHolders
  BY <1>1 DEF MutexHolders, Signalling
<1>3. t \notin MutexHolders
  BY <1>2 DEF Inv, MutexInv, Owners
<1>4. CondWaiters' \subseteq CondWaiters
  BY <1>3, CondWaitersShrink DEF MutexHolders
<1>5. LOCKED \in word'[COND] => LOCKED \in word[COND]
  BY <1>3, CondLockedByHolder
<1> QED
  BY <1>1, <1>4, <1>5 DEF SignalInv, Signalled, Signalling

(* Who waits for the condition variable is in the queue of the entry the   *)
(* table has for it, and its word says so.                                 *)
LEMMA CondQueue ==
  ASSUME Inv, NEW u \in CondWaiters
  PROVE  /\ table[COND] \in Entries /\ table[COND] # NULL
         /\ u \in Range(queue[table[COND]])
         /\ WAITING \in word[COND]
<1>1. u \in Threads /\ call[u].op = "cond_wait" /\ Queued(u) /\ pc[u] # "leave"
  BY DEF CondWaiters
<1>2. Target(u) = COND /\ Waits(u)
  BY <1>1 DEF Target, Waits
<1>3. pc[u] # "add"
  BY <1>1, QueuedLabels DEF SwitchLabels
<1>4. table[COND] \in Entries /\ table[COND] # NULL /\ u \in Range(queue[table[COND]])
  BY <1>1, <1>2, <1>3, WaitersHaveEntry
<1>5. WaitInv(u)
  BY <1>1 DEF Inv
<1> QED
  BY <1>2, <1>4, <1>5 DEF WaitInv

(* The signaller's own steps: cond_signal() itself ...                     *)
LEMMA SignalBegins ==
  ASSUME Inv, NEW t \in Threads, NEW op \in {"signal", "broadcast"}, cond_signal(t, op)
  PROVE  SignalInv(t)'
<1>1. /\ word' = [word EXCEPT ![COND] = word[COND] \ {LOCKED}]
      /\ call' = [call EXCEPT ![t] = [Call(op) EXCEPT !.seen = CondWaiters]]
      /\ pc[t] = "critical"
      /\ pc' = [pc EXCEPT ![t] = IF WAITING \in word[COND] THEN "unblock_get" ELSE "put"]
  BY DEF cond_signal, Goto
<1>2. /\ word \in [Words -> SUBSET {LOCKED, WAITING}] /\ COND \in Words
      /\ t \in DOMAIN pc /\ t \in DOMAIN call
  BY DEF Inv, Types, Words
<1>3. call'[t].op = op /\ call'[t].seen = CondWaiters
  BY <1>1, <1>2 DEF Call
<1>4. LOCKED \notin word'[COND]
  BY <1>1, <1>2
<1>5. CondWaiters' \subseteq CondWaiters
  <2>1. Step(t)
    BY DEF Step, UserStep
  <2> QED
    BY <1>1, <2>1, CondWaitersShrink
<1>6. CASE WAITING \in word[COND]
  <2>1. pc'[t] = "unblock_get"
    BY <1>1, <1>2, <1>6
  <2> QED
    BY <1>3, <1>4, <1>5, <2>1 DEF SignalInv
<1>7. CASE WAITING \notin word[COND]
  <2>1. pc'[t] = "put"
    BY <1>1, <1>2, <1>7
  <2>2. CondWaiters = {} /\ CondWaiters' = {}
    BY <1>5, <1>7, CondQueue
  <2> QED
    BY <1>3, <2>1, <2>2 DEF SignalInv, Signalled
<1> QED
  BY <1>6, <1>7

(* ... the look into the table ...                                         *)
LEMMA SignalLooksUp ==
  ASSUME Inv, NEW t \in Threads, get_to_unblock(t), SignalInv(t)
  PROVE  SignalInv(t)'
<1> SUFFICES ASSUME Signalling(t)' PROVE SignalInv(t)'
  BY DEF SignalInv
<1>0. /\ t \in DOMAIN pc /\ t \in DOMAIN call /\ call[t] \in Calls
      /\ pc[t] = "unblock_get"
  BY DEF Inv, Types, get_to_unblock
<1>1. call'[t].op = call[t].op /\ call'[t].seen = call[t].seen
  BY <1>0 DEF get_to_unblock, Calls
<1>2. Signalling(t) /\ Unblocked(t) = COND
  BY <1>1 DEF Signalling, Unblocked
<1>3. CondWaiters' \subseteq CondWaiters
  <2>1. Step(t)
    BY DEF Step, KernelStep
  <2> QED
    BY <1>0, <2>1, CondWaitersShrink
<1>4. CASE table[COND] = NULL
  <2>1. CondWaiters = {} /\ CondWaiters' = {}
    BY <1>3, <1>4, CondQueue
  <2>2. pc'[t] = "put"
    BY <1>0, <1>2, <1>4 DEF get_to_unblock, Goto, AfterUnblock, Signalling
  <2> QED
    BY <2>1, <2>2 DEF SignalInv, Signalled
<1>5. CASE table[COND] # NULL
  <2>1. pc'[t] = "unblock" /\ word' = word
    BY <1>0, <1>2, <1>5 DEF get_to_unblock, Goto
  <2> QED
    BY <1>0, <1>1, <1>2, <1>3, <2>1 DEF SignalInv
<1> QED
  BY <1>4, <1>5

(* ... the decision whether to notify ...                                  *)
LEMMA SignalUnblocks ==
  ASSUME Inv, NEW t \in Threads, user_mutex_unblock(t), SignalInv(t)
  PROVE  SignalInv(t)'
<1> SUFFICES ASSUME Signalling(t)' PROVE SignalInv(t)'
  BY DEF SignalInv
<1>0. t \in DOMAIN pc /\ pc[t] = "unblock" /\ call' = call
  BY DEF Inv, Types, user_mutex_unblock
<1>1. Signalling(t) /\ Unblocked(t) = COND
  BY <1>0 DEF Signalling, Unblocked
<1>2. COND \in Held(t) /\ LOCKED \notin word[COND]
  BY <1>0, <1>1 DEF Inv, Local, SignalInv
<1>3. Entry(t, COND) = table[COND]
  BY <1>2, HeldEntry
<1>4. CondWaiters' \subseteq CondWaiters
  <2>1. Step(t)
    BY DEF Step, KernelStep
  <2> QED
    BY <1>0, <2>1, CondWaitersShrink
<1>5. CASE queue[table[COND]] = <<>>
  <2>1. Range(<<>>) = {}
    BY DEF Range
  <2>2. CondWaiters = {} /\ CondWaiters' = {}
    BY <1>4, <1>5, <2>1, CondQueue
  <2>3. pc'[t] = "put"
    BY <1>0, <1>1, <1>3, <1>5 DEF user_mutex_unblock, NobodyWaits, Goto, AfterUnblock, Signalling
  <2> QED
    BY <2>2, <2>3 DEF SignalInv, Signalled
<1>6. CASE queue[table[COND]] # <<>>
  <2>1. pc'[t] = "notify"
    BY <1>0, <1>1, <1>2, <1>3, <1>6 DEF user_mutex_unblock, NobodyWaits, Goto, HandsOff
  <2> QED
    BY <1>0, <1>1, <1>4, <2>1 DEF SignalInv
<1> QED
  BY <1>5, <1>6

(* ... and the notification: a waiter it saw is gone.                      *)
LEMMA SignalNotifies ==
  ASSUME Inv, NEW t \in Threads, Notify(t), SignalInv(t)
  PROVE  SignalInv(t)'
<1> SUFFICES ASSUME Signalling(t)' PROVE SignalInv(t)'
  BY DEF SignalInv
<1> DEFINE e == table[COND]
<1>0. t \in DOMAIN pc /\ call' = call /\ pc[t] # "add"
  BY DEF Inv, Types, Notify
<1>1. Signalling(t) /\ Unblocked(t) = COND
  BY <1>0 DEF Signalling, Unblocked
<1>2. pc[t] = "notify" \/ pc[t] = "sem_release"
  BY DEF Notify
<1>3. COND \in Held(t)
  BY <1>1, <1>2 DEF Inv, Local
<1>4. Entry(t, COND) = e /\ e \in Entries
  BY <1>3, HeldEntry
<1>5. CondWaiters' \subseteq CondWaiters
  <2>1. Step(t)
    BY DEF Step, QueueStep
  <2> QED
    BY <1>0, <2>1, CondWaitersShrink
<1>6. queue'[e] = IF call[t].op = "broadcast" THEN <<>> ELSE AfterNotifyOne(e)
  BY <1>1, <1>4 DEF Notify, Inv, Types
<1>7. table' = table
  BY DEF Notify
<1>8. \A u \in CondWaiters' : u \in Range(queue'[e])
  <2> SUFFICES ASSUME NEW u \in CondWaiters' PROVE u \in Range(queue'[e])
    OBVIOUS
  <2>1. PICK f \in Entries : u \in Range(queue'[f])
    BY DEF CondWaiters, Queued
  <2>2. Inv'
    BY StepNotify
  <2>3. Entry(u, Target(u))' = f /\ Target(u)' = COND
    BY <2>1, <2>2 DEF Inv, QueueInv, CondWaiters, Target
  <2>4. u \in Threads /\ f # NULL
    BY UserMutexConstants DEF CondWaiters
  <2>5. table'[COND] = f
    BY <2>2, <2>3, <2>4 DEF Inv, TableInv, Addresses, Entry, Target
  <2> QED
    BY <1>7, <2>1, <2>5
<1>9. Range(<<>>) = {}
  BY DEF Range
<1>10. Signalled(t)'
  <2>1. CASE call[t].op = "broadcast"
    BY <1>0, <1>6, <1>8, <1>9, <2>1 DEF Signalled
  <2>2. CASE call[t].op # "broadcast"
    <3>0. Types /\ IsInjective(queue[e])
      BY <1>4 DEF Inv, QueueInv
    <3>1. CASE Notifiable(e) = {}
      <4>1. queue'[e] = <<>>
        BY <1>4, <1>6, <2>2, <3>0, <3>1, NotifyOneQueue
      <4> QED
        BY <1>0, <1>8, <1>9, <4>1 DEF Signalled
    <3>2. CASE Notifiable(e) # {}
      <4>1. PICK u \in Notifiable(e) : u \notin Range(AfterNotifyOne(e))
        BY <1>4, <3>0, <3>2, NotifyOneQueue
      <4>2. u \in CondWaiters
        <5>1. u \in Range(queue[e]) /\ pc[u] # "leave"
          BY DEF Notifiable
        <5>2. u \in Threads
          BY <1>4, <3>0, <5>1 DEF Types, Range
        <5>3. Entry(u, Target(u)) = e /\ call[u].op \in WaitOps
          BY <1>4, <5>1 DEF Inv, QueueInv
        <5>4. table[Target(u)] = e /\ Target(u) \in Addresses
          BY <1>4, <5>2, <5>3, UserMutexConstants DEF Inv, TableInv, Target, Addresses
        <5>5. Target(u) = COND
          BY <1>4, <5>4, UserMutexConstants DEF Inv, TableInv, Addresses
        <5>6. call[u].op = "cond_wait"
          BY <5>5 DEF Target
        <5> QED
          BY <1>4, <5>1, <5>2, <5>6 DEF CondWaiters, Queued
      <4>3. u \notin CondWaiters'
        BY <1>6, <1>8, <2>2, <4>1
      <4>4. u \in call[t].seen
        BY <1>1, <4>2 DEF SignalInv
      <4> QED
        BY <1>0, <2>2, <4>3, <4>4 DEF Signalled
    <3> QED
      BY <3>1, <3>2
  <2> QED
    BY <2>1, <2>2
<1>11. pc'[t] \in {"no_waiter", "finish"}
  BY <1>0 DEF Notify, Goto
<1> QED
  BY <1>0, <1>1, <1>5, <1>10, <1>11 DEF SignalInv

(* Nothing else in the kernel is for a signaller than to go back.          *)
LEMMA SignalEnds ==
  ASSUME Inv, NEW t \in Threads, SignalInv(t),
         no_waiter(t) \/ finish(t) \/ put_user_mutex_entry(t) \/ delete_entry(t)
  PROVE  SignalInv(t)'
<1> SUFFICES ASSUME Signalling(t)' PROVE SignalInv(t)'
  BY DEF SignalInv
<1>0. /\ t \in DOMAIN pc /\ t \in DOMAIN call /\ call[t] \in Calls
      /\ pc[t] \in {"no_waiter", "finish", "put"}
  BY DEF Inv, Types, no_waiter, finish, put_user_mutex_entry, delete_entry
<1>1. call'[t].op = call[t].op /\ call'[t].seen = call[t].seen
  <2>1. CASE no_waiter(t) \/ finish(t)
    BY <2>1 DEF no_waiter, finish
  <2>2. CASE put_user_mutex_entry(t)
    <3>1. PICK a \in Held(t) :
            call' = [call EXCEPT
                       ![t].ptr[a] = NULL,
                       ![t].dying = IF ref_count[Entry(t, a)] = 1 THEN <<a, Entry(t, a)>>
                                    ELSE <<>>]
      BY <2>2 DEF put_user_mutex_entry
    <3> DEFINE d == IF ref_count[Entry(t, a)] = 1 THEN <<a, Entry(t, a)>> ELSE <<>>
    <3> HIDE DEF d
    <3>2. call'[t] = [call[t] EXCEPT !.ptr[a] = NULL, !.dying = d]
      BY <1>0, <3>1 DEF d
    <3> QED
      BY <1>0, <3>2 DEF Calls
  <2>3. CASE delete_entry(t)
    BY <1>0, <2>3 DEF delete_entry, Calls
  <2> QED
    BY <2>1, <2>2, <2>3
<1>2. Signalling(t)
  BY <1>1 DEF Signalling
<1>3. CondWaiters' \subseteq CondWaiters
  <2>1. Step(t)
    BY DEF Step, KernelStep
  <2> QED
    BY <1>0, <2>1, CondWaitersShrink
<1>4. pc'[t] \in {"finish", "put"}
  <2>1. CASE no_waiter(t)
    BY <1>0, <2>1 DEF no_waiter, Goto
  <2>2. CASE finish(t)
    BY <1>0, <1>2, <2>2 DEF finish, Goto, AfterUnblock, Signalling
  <2>3. CASE put_user_mutex_entry(t) \/ delete_entry(t)
    BY <1>0, <2>3 DEF put_user_mutex_entry, delete_entry
  <2> QED
    BY <2>1, <2>2, <2>3
<1>5. Signalled(t) /\ CondWaiters \subseteq call[t].seen
  BY <1>0, <1>2 DEF SignalInv
<1>6. Signalled(t)'
  BY <1>1, <1>3, <1>5 DEF Signalled
<1> QED
  BY <1>1, <1>3, <1>4, <1>5, <1>6 DEF SignalInv

(* A step of any other kind is not a signaller's.                          *)
LEMMA SignalOwn ==
  ASSUME Inv, NEW t \in Threads, Step(t), SignalInv(t)
  PROVE  SignalInv(t)'
<1>0. t \in DOMAIN call /\ call[t] \in Calls
  BY DEF Inv, Types
<1>1. CASE UserStep(t)
  <2>1. CASE \E op \in {"signal", "broadcast"} : cond_signal(t, op)
    BY <2>1, SignalBegins
  <2>2. CASE mutex_lock(t) \/ mutex_unlock(t) \/ mutex_unlock_return(t)
    <3>1. call'[t].op \in {NULL, "lock", "unlock"}
      BY <1>0, <2>2 DEF mutex_lock, mutex_unlock, mutex_unlock_return, Enter, Call
    <3> QED
      BY <3>1 DEF SignalInv, Signalling
  <2>3. CASE mutex_lock_return(t)
    <3>1. call[t].status \in {B_OK, B_TIMED_OUT, B_INTERRUPTED}
      BY <2>3 DEF Inv, Local, mutex_lock_return, Returning, Types, Calls, WaitOps, Errors
    <3>2. call'[t].op \in {NULL, "lock"}
      <4>1. call' = [call EXCEPT ![t] = Call("lock")] \/ call' = [call EXCEPT ![t] = Call(NULL)]
        BY <2>3, <3>1 DEF mutex_lock_return, Enter
      <4>2. call'[t] = Call("lock") \/ call'[t] = Call(NULL)
        BY <1>0, <4>1
      <4> QED
        BY <4>2 DEF Call
    <3> QED
      BY <3>2 DEF SignalInv, Signalling
  <2>4. CASE cond_wait(t) \/ cond_wait_return(t) \/ cond_signal_return(t)
    <3>1. call'[t].op \in {NULL, "cond_wait"}
      BY <1>0, <2>4 DEF cond_wait, cond_wait_return, cond_signal_return, Enter, Call
    <3> QED
      BY <3>1 DEF SignalInv, Signalling
  <2>5. CASE cond_wait_relock(t)
    <3>1. call'[t].op = "relock"
      BY <1>0, <2>5 DEF cond_wait_relock, Enter, Call
    <3> QED
      BY <3>1 DEF SignalInv, Signalling
  <2>6. CASE sem_wait(t) \/ sem_post(t) \/ sem_return(t)
    <3>1. pc[t] = "idle" => call[t].op = NULL
      BY DEF Inv, Local
    <3>2. call'[t].op \in {NULL, "sem_wait", "sem_post"}
      BY <1>0, <2>6, <3>1 DEF sem_wait, sem_post, sem_return, Enter, Call
    <3> QED
      BY <3>2 DEF SignalInv, Signalling
  <2> QED
    BY <1>1, <2>1, <2>2, <2>3, <2>4, <2>5, <2>6 DEF UserStep
<1>2. CASE \/ get_to_unblock(t) \/ user_mutex_unblock(t) \/ Notify(t)
           \/ no_waiter(t) \/ finish(t) \/ put_user_mutex_entry(t) \/ delete_entry(t)
  BY <1>2, SignalLooksUp, SignalUnblocks, SignalNotifies, SignalEnds
<1>3. CASE GetStep(t)
  <2>1. pc[t] \in {"get", "get_to_post"}
    BY <1>3 DEF GetStep, get_to_post, get_to_wait
  <2>2. call[t].op \in WaitOps \cup {"sem_post"}
    BY <2>1 DEF Inv, Local
  <2>3. call'[t].op = call[t].op
    BY <1>0, <1>3 DEF GetStep, get_to_post, get_to_wait, get_user_mutex_entry, Calls
  <2> QED
    BY <2>2, <2>3 DEF SignalInv, Signalling, WaitOps
<1>4. CASE \/ user_mutex_prepare_to_lock(t) \/ unset_waiting(t)
           \/ user_mutex_sem_acquire_locked(t) \/ user_mutex_wait_locked(t)
           \/ wait_notified(t) \/ wait_leave(t) \/ check_waiting(t)
           \/ \E status \in {B_TIMED_OUT, B_INTERRUPTED} : wait_fails(t, status)
           \/ user_mutex_switch_lock(t)
  <2>1. pc[t] \in {"prepare", "clear", "add", "wait", "leave", "check_waiting", "switch"}
    BY <1>4 DEF user_mutex_prepare_to_lock, unset_waiting, user_mutex_sem_acquire_locked,
       user_mutex_wait_locked, wait_notified, wait_leave, check_waiting, wait_fails,
       user_mutex_switch_lock
  <2>2. call[t].op \in WaitOps
    BY <2>1 DEF Inv, Local, WaitOps
  <2>3. call'[t].op = call[t].op
    BY <1>0, <1>4 DEF user_mutex_prepare_to_lock, unset_waiting,
       user_mutex_sem_acquire_locked, user_mutex_wait_locked, wait_notified, wait_leave,
       check_waiting, wait_fails, user_mutex_switch_lock, Calls
  <2> QED
    BY <2>2, <2>3 DEF SignalInv, Signalling, WaitOps
<1> QED
  BY <1>1, <1>2, <1>3, <1>4 DEF Step, QueueStep, KernelStep

(* A step is one of some thread.                                           *)
LEMMA NextIsStep == Next <=> \E t \in Threads : Step(t)
BY DEF Next, Step, UserStep, GetStep, QueueStep, KernelStep

(* While a thread signals, it holds the mutex, nobody begins to wait, and  *)
(* once it has notified, the waiters it saw are not all there any more.    *)
THEOREM SignalInvariant == Spec => [](\A t \in Threads : SignalInv(t))
<1> DEFINE I == \A t \in Threads : SignalInv(t)
<1>1. Init => I
  BY DEF Init, SignalInv, Signalling, Call
<1>2. Inv /\ I /\ [Next]_vars => I'
  <2> SUFFICES ASSUME Inv, I, [Next]_vars, NEW u \in Threads PROVE SignalInv(u)'
    OBVIOUS
  <2>1. CASE Next
    <3>1. PICK t \in Threads : Step(t)
      BY <2>1, NextIsStep
    <3> QED
      BY <3>1, SignalOwn, SignalOthers
  <2>2. CASE UNCHANGED vars
    <3>1. pc' = pc /\ call' = call /\ queue' = queue /\ word' = word
      BY <2>2 DEF vars
    <3>2. CondWaiters' = CondWaiters
      BY <3>1 DEF CondWaiters, Queued
    <3> QED
      BY <3>1, <3>2 DEF SignalInv, Signalling, Signalled
  <2> QED
    BY <2>1, <2>2
<1> QED
  BY <1>1, <1>2, UserMutexInvariant, PTL DEF Spec

(* pthread_cond_signal() with the mutex held wakes one of those who waited *)
(* when it was called, pthread_cond_broadcast() all of them.               *)
THEOREM SignalsWake == Spec => SignalNotLost
<1> DEFINE I == \A t \in Threads : SignalInv(t)
           A == \A t \in Threads :
                  call[t].op \in {"signal", "broadcast"} /\ pc'[t] = "critical" =>
                    LET left == call[t].seen \cap CondWaiters IN
                    IF call[t].op = "broadcast" THEN left = {}
                    ELSE call[t].seen = {} \/ left # call[t].seen
<1>1. Inv /\ I /\ [Next]_vars => [A]_vars
  <2> SUFFICES ASSUME Inv, I, [Next]_vars, NEW t \in Threads,
                      Signalling(t), pc'[t] = "critical"
               PROVE  LET left == call[t].seen \cap CondWaiters IN
                      IF call[t].op = "broadcast" THEN left = {}
                      ELSE call[t].seen = {} \/ left # call[t].seen
    BY DEF Signalling
  <2>1. pc[t] \notin {"idle", "critical"} /\ t \in DOMAIN pc
    BY DEF Inv, Local, Signalling, Types
  <2>2. PICK u \in Threads : Step(u)
    BY <2>1, NextIsStep DEF vars
  <2>3. Step(t)
    BY <2>1, <2>2, OthersStay
  <2>4. pc[t] = "put"
    <3>1. CASE UserStep(t)
      BY <2>1, <3>1 DEF UserStep, mutex_lock, mutex_lock_return, mutex_unlock,
         mutex_unlock_return, cond_wait, cond_wait_relock, cond_wait_return, cond_signal,
         cond_signal_return, sem_wait, sem_post, sem_return, Returning
    <3>2. CASE GetStep(t)
      BY <2>1, <3>2 DEF GetStep, get_to_post, get_to_wait, get_user_mutex_entry, Goto
    <3>3. CASE QueueStep(t)
      BY <2>1, <3>3 DEF QueueStep, user_mutex_wait_locked, wait_leave, Notify, Goto
    <3>4. CASE KernelStep(t)
      BY <2>1, <3>4 DEF KernelStep, user_mutex_prepare_to_lock, unset_waiting,
         user_mutex_sem_acquire_locked, wait_notified, check_waiting, wait_fails,
         user_mutex_switch_lock, get_to_unblock, user_mutex_unblock, no_waiter, finish,
         put_user_mutex_entry, delete_entry, Goto, AfterPrepare, AfterUnblock
    <3> QED
      BY <2>3, <3>1, <3>2, <3>3, <3>4 DEF Step
  <2>5. Signalled(t) /\ CondWaiters \subseteq call[t].seen
    BY <2>4 DEF SignalInv
  <2> QED
    BY <2>5 DEF Signalled
<1> QED
  BY <1>1, UserMutexInvariant, SignalInvariant, PTL DEF Spec, SignalNotLost

=============================================================================
