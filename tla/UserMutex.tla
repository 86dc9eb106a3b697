----------------------------- MODULE UserMutex ------------------------------
(***************************************************************************)
(* User mutexes (src/system/kernel/locks/user_mutex.cpp) together with the *)
(* user-space halves built on them: mutexes, pthread condition variables,  *)
(* and unnamed POSIX semaphores (libroot's locks/mutex.cpp,                *)
(* pthread_mutex.cpp, pthread_cond.cpp, semaphore.cpp).                    *)
(*                                                                         *)
(* User space changes a word with atomics and calls the kernel only under  *)
(* contention.  The kernel keeps an entry per contended address in a       *)
(* table: a reference count, an rw_lock, and a condition variable.  Who    *)
(* starts to wait holds the entry's rw_lock as a reader, who unblocks      *)
(* holds it as a writer, user space holds nothing.  A program uses either  *)
(* a mutex with a condition variable, or a semaphore.                      *)
(*                                                                         *)
(* The rw_lock is taken by its specification (ReadersWriter), and the      *)
(* kernel's ConditionVariable by what its module shows: a waiter is        *)
(* notified, or it removes itself and has its own status.  A critical      *)
(* section of the table's lock is one step.                                *)
(***************************************************************************)
EXTENDS Integers, SequencesExt, FiniteSets

CONSTANTS
  Threads,
  Impatient,     \* those whose waits may time out or be interrupted
  Entries,       \* the memory entries are allocated from
  InitialUnits,  \* values a semaphore is initialized with
  MaxUnits       \* bound on a semaphore's value: no sem_post() beyond it

NULL == "NULL"

ASSUME UserMutexConstants ==
  /\ IsFiniteSet(Threads)
  /\ NULL \notin Entries
  /\ Impatient \subseteq Threads
  /\ InitialUnits \subseteq 0 .. MaxUnits /\ MaxUnits \in Nat

VARIABLES
  word,          \* the mutex's and the condition variable's flags
  sem,           \* the semaphore's value; -1: contended
  use,           \* what the program uses: "mutex" or "sem"
  waiter_count,  \* of the condition variable, protected by the mutex
  table,         \* the entry of an address
  ref_count,     \* of an entry
  queue,         \* fEntries of an entry's ConditionVariable
  pc, call,      \* per thread: where it is, and in what call
  balance        \* the semaphore's units: its initial value, plus posts,
                 \* less waits that have returned with one

vars == <<word, sem, use, waiter_count, table, ref_count, queue, pc, call,
          balance>>
kernel == <<table, ref_count, queue>>

LOCKED == "B_USER_MUTEX_LOCKED"
WAITING == "B_USER_MUTEX_WAITING"
MUTEX == "mutex"
COND == "cond"
SEM == "sem"
Addresses == {MUTEX, COND, SEM}

B_OK == "B_OK"
B_TIMED_OUT == "B_TIMED_OUT"
B_INTERRUPTED == "B_INTERRUPTED"

(* op: what the thread does in user space; status: how its acquisition     *)
(* ended; ptr: the entries it has a reference to; dying: an entry whose    *)
(* last reference it put, with the address; seen: whom a signal is for.    *)
NoPtr == [a \in Addresses |-> NULL]
Call(op) == [op |-> op, status |-> NULL, ptr |-> NoPtr, dying |-> <<>>,
             seen |-> {}]

(* The address a thread wants to acquire, and the one it unblocks *)
Target(t) == CASE call[t].op \in {"lock", "relock"} -> MUTEX
               [] call[t].op = "cond_wait" -> COND
               [] OTHER -> SEM
Unblocked(t) == CASE call[t].op \in {"unlock", "cond_wait"} -> MUTEX
                  [] call[t].op \in {"signal", "broadcast"} -> COND
                  [] OTHER -> SEM
Entry(t, a) == call[t].ptr[a]

Goto(t, label) == pc' = [pc EXCEPT ![t] = label]
Enter(t, op, label) == Goto(t, label) /\ call' = [call EXCEPT ![t] = Call(op)]

(* The rw_lock of an entry: its readers are between the change of the word *)
(* and ConditionVariable::Add(), its writer is in user_mutex_unblock() or  *)
(* user_mutex_sem_release().                                               *)
Readers(e) == {t \in Threads : pc[t] = "add" /\ Entry(t, Target(t)) = e}
Writers(e) == {t \in Threads :
                 /\ pc[t] \in {"notify", "no_waiter", "finish"}
                 /\ Entry(t, Unblocked(t)) = e}
ReadLockable(e) == Writers(e) = {}
WriteLockable(e) == Readers(e) = {} /\ Writers(e) = {}

Queued(t) == \E e \in Entries : t \in Range(queue[e])

(* Mutant: it is taken for granted that nobody waits. *)
NobodyWaits_Assumed(e) == TRUE

(* EntriesCount() == 0 *)
NobodyWaits(e) == queue[e] = <<>>

Init ==
  /\ use \in {"mutex", "sem"}
  /\ word = [a \in {MUTEX, COND} |-> {}]
  /\ sem \in IF use = "sem" THEN InitialUnits ELSE {0}
  /\ balance = sem
  /\ waiter_count = 0
  /\ table = NoPtr
  /\ ref_count = [e \in Entries |-> 0]
  /\ queue = [e \in Entries |-> <<>>]
  /\ pc = [t \in Threads |-> "idle"]
  /\ call = [t \in Threads |-> Call(NULL)]

-----------------------------------------------------------------------------
(* The table *)

(* get_user_mutex_entry(): look the entry up, or insert a new one *)
get_user_mutex_entry(t, label) ==
  LET a == IF call[t].op = "sem_post" THEN SEM ELSE Target(t) IN
  \E e \in Entries :
    /\ IF table[a] # NULL THEN e = table[a]
                          ELSE e \notin {table[b] : b \in Addresses}
    /\ table' = [table EXCEPT ![a] = e]
    /\ ref_count' = [ref_count EXCEPT ![e] = IF table[a] # NULL THEN @ + 1 ELSE 1]
    /\ queue' = [queue EXCEPT ![e] = IF table[a] # NULL THEN @ ELSE <<>>]
    /\ call' = [call EXCEPT ![t].ptr[a] = e]
    /\ Goto(t, label)

Held(t) == {a \in Addresses : Entry(t, a) # NULL}

(* put_user_mutex_entry() drops a reference, first that to the entry of    *)
(* the mutex in user_mutex_switch_lock() ...                               *)
put_user_mutex_entry(t) ==
  /\ pc[t] = "put" /\ call[t].dying = <<>>
  /\ \E a \in Held(t) :
       LET e == Entry(t, a) IN
       /\ MUTEX \in Held(t) => a = MUTEX
       /\ ref_count' = [ref_count EXCEPT ![e] = @ - 1]
       /\ call' = [call EXCEPT
                     ![t].ptr[a] = NULL,
                     ![t].dying = IF ref_count[e] = 1 THEN <<a, e>> ELSE <<>>]
  /\ UNCHANGED <<word, sem, use, waiter_count, table, queue, pc, balance>>

(* Mutant: a new reference is not looked for. *)
MayDelete_Referenced(a, e) == table[a] = e

(* "Was it removed & deleted while we were waiting for the lock?  Or did   *)
(* someone else acquire a reference to it?"                                *)
MayDelete(a, e) == table[a] = e /\ ref_count[e] = 0

(* ... and, if it was the last, deletes the entry under the table's lock.  *)
delete_entry(t) ==
  LET a == call[t].dying[1] IN
  /\ pc[t] = "put" /\ call[t].dying # <<>>
  /\ table' = IF MayDelete(a, call[t].dying[2])
              THEN [table EXCEPT ![a] = NULL] ELSE table
  /\ call' = [call EXCEPT ![t].dying = <<>>]
  /\ UNCHANGED <<word, sem, use, waiter_count, ref_count, queue, pc, balance>>

(* The system call is about to return. *)
Returning(t) == pc[t] = "put" /\ Held(t) = {} /\ call[t].dying = <<>>

-----------------------------------------------------------------------------
(* Waiting: user_mutex_lock(), and the part of user_mutex_switch_lock()    *)
(* and _user_mutex_sem_acquire() that is alike                             *)

get_to_wait(t) ==
  /\ pc[t] = "get"
  /\ get_user_mutex_entry(t, "prepare")
  /\ UNCHANGED <<word, sem, use, waiter_count, balance>>

(* Where user_mutex_switch_lock() goes on after its first half *)
AfterPrepare(t) == IF call[t].op = "cond_wait" THEN "switch" ELSE "put"

(* user_mutex_prepare_to_lock(): mark the word as locked and contended *)
user_mutex_prepare_to_lock(t) ==
  LET a == Target(t) IN
  /\ pc[t] = "prepare" /\ a # SEM
  /\ ReadLockable(Entry(t, a))
  /\ word' = [word EXCEPT ![a] = {LOCKED, WAITING}]
  /\ IF LOCKED \in word[a]
     THEN Goto(t, "add") /\ UNCHANGED call
     ELSE /\ call' = [call EXCEPT ![t].status = B_OK]
          /\ Goto(t, IF WAITING \in word[a] THEN AfterPrepare(t) ELSE "clear")
  /\ UNCHANGED <<sem, use, waiter_count, kernel, balance>>

(* "possibly unset waiting flag", with the write lock: by a thread that    *)
(* got the mutex, or whose wait failed                                     *)
unset_waiting(t) ==
  LET a == Target(t) IN
  /\ pc[t] = "clear"
  /\ WriteLockable(Entry(t, a))
  /\ word' = [word EXCEPT ![a] = IF NobodyWaits(Entry(t, a))
                                 THEN @ \ {WAITING} ELSE @]
  /\ Goto(t, AfterPrepare(t))
  /\ UNCHANGED <<sem, use, waiter_count, kernel, call, balance>>

(* Mutant: the value is decremented even if it is contended already. *)
SemAfterAcquire_Always(value) == value - 1

(* The loop of user_mutex_sem_acquire_locked() *)
SemAfterAcquire(value) == IF value > -1 THEN value - 1 ELSE value

user_mutex_sem_acquire_locked(t) ==
  /\ pc[t] = "prepare" /\ Target(t) = SEM
  /\ ReadLockable(Entry(t, SEM))
  /\ sem' = SemAfterAcquire(sem)
  /\ IF sem > 0 THEN /\ call' = [call EXCEPT ![t].status = B_OK]
                     /\ Goto(t, "put")
                ELSE Goto(t, "add") /\ UNCHANGED call
  /\ UNCHANGED <<word, use, waiter_count, kernel, balance>>

(* condition.Add(), and the read lock is given up *)
user_mutex_wait_locked(t) ==
  /\ pc[t] = "add"
  /\ queue' = [queue EXCEPT ![Entry(t, Target(t))] = Append(@, t)]
  /\ Goto(t, IF call[t].op = "cond_wait" THEN "switch" ELSE "wait")
  /\ UNCHANGED <<word, sem, use, waiter_count, table, ref_count, call, balance>>

(* ConditionVariableEntry::Wait() of a thread that was notified *)
wait_notified(t) ==
  /\ pc[t] = "wait" /\ ~Queued(t)
  /\ call' = [call EXCEPT ![t].status = B_OK]
  /\ Goto(t, "put")
  /\ UNCHANGED <<word, sem, use, waiter_count, kernel, balance>>

(* The wait times out or is interrupted: the thread takes itself out of    *)
(* the reach of notifiers first, and then off the queue.  A thread in      *)
(* cond_wait() locks the mutex again without a timeout.                    *)
wait_fails(t, status) ==
  /\ t \in Impatient /\ pc[t] = "wait" /\ Queued(t)
  /\ call[t].op = "relock" => status = B_INTERRUPTED
  /\ call' = [call EXCEPT ![t].status = status]
  /\ Goto(t, "leave")
  /\ UNCHANGED <<word, sem, use, waiter_count, kernel, balance>>

(* _RemoveFromVariable() *)
wait_leave(t) ==
  LET e == Entry(t, Target(t)) IN
  /\ pc[t] = "leave"
  /\ queue' = [queue EXCEPT ![e] = RemoveFirst(@, t)]
  /\ Goto(t, IF Target(t) = MUTEX THEN "check_waiting" ELSE "put")
  /\ UNCHANGED <<word, sem, use, waiter_count, table, ref_count, call, balance>>

(* user_mutex_lock_locked() looks, without a lock, whether the waiting     *)
(* flag may have to be unset.                                              *)
check_waiting(t) ==
  /\ pc[t] = "check_waiting"
  /\ Goto(t, IF NobodyWaits(Entry(t, MUTEX)) THEN "clear" ELSE "put")
  /\ UNCHANGED <<word, sem, use, waiter_count, kernel, call, balance>>

-----------------------------------------------------------------------------
(* Unblocking *)

(* Afterwards, user_mutex_switch_lock() waits unless it got the lock. *)
AfterUnblock(t) ==
  IF call[t].op = "cond_wait" /\ call[t].status # B_OK THEN "wait" ELSE "put"

(* _user_mutex_unblock() and the second half of user_mutex_switch_lock():  *)
(* an entry is not inserted here.  Without one nobody waits, which only    *)
(* _user_mutex_unblock() has the flag say.                                 *)
get_to_unblock(t) ==
  LET a == Unblocked(t)
      e == table[a]
  IN /\ pc[t] = "unblock_get"
     /\ IF e = NULL
        THEN /\ word' = [word EXCEPT ![a] =
                           IF call[t].op = "cond_wait" THEN @ ELSE @ \ {WAITING}]
             /\ Goto(t, AfterUnblock(t))
             /\ UNCHANGED <<ref_count, call>>
        ELSE /\ ref_count' = [ref_count EXCEPT ![e] = @ + 1]
             /\ call' = [call EXCEPT ![t].ptr[a] = e]
             /\ Goto(t, "unblock")
             /\ UNCHANGED word
     /\ UNCHANGED <<sem, use, waiter_count, table, queue, balance>>

(* Mutant: the waiter gets the mutex though somebody took it meanwhile. *)
HandsOff_Always(flags) == TRUE

(* "This is not merely an unblock, but a hand-off": not if the mutex has   *)
(* been locked in the meantime.                                            *)
HandsOff(flags) == LOCKED \notin flags

(* user_mutex_unblock() with the write lock, up to the notification *)
user_mutex_unblock(t) ==
  LET a == Unblocked(t)
      e == Entry(t, a)
      all == call[t].op = "broadcast"
  IN /\ pc[t] = "unblock"
     /\ WriteLockable(e)
     /\ IF NobodyWaits(e)
        THEN /\ word' = [word EXCEPT ![a] = @ \ {WAITING}]
             /\ Goto(t, AfterUnblock(t))
        ELSE /\ word' = [word EXCEPT ![a] = IF all THEN @ ELSE @ \cup {LOCKED}]
             /\ Goto(t, IF all \/ HandsOff(word[a]) THEN "notify"
                                                    ELSE AfterUnblock(t))
     /\ UNCHANGED <<sem, use, waiter_count, kernel, call, balance>>

(* The waiters that are not about to remove themselves *)
Notifiable(e) == {t \in Range(queue[e]) : pc[t] # "leave"}

(* The queue after NotifyOne(), which also clears those at the head out    *)
(* that are about to remove themselves                                     *)
AfterNotifyOne(e) ==
  LET n == SelectInSeq(queue[e], LAMBDA t : pc[t] # "leave")
  IN IF n = 0 THEN <<>> ELSE SubSeq(queue[e], n + 1, Len(queue[e]))

(* NotifyOne() or NotifyAll() of user_mutex_unblock(), and NotifyOne() of  *)
(* user_mutex_sem_release()                                                *)
Notify(t) ==
  LET e == Entry(t, Unblocked(t)) IN
  /\ \/ pc[t] = "notify"
     \/ pc[t] = "sem_release" /\ WriteLockable(e)
  /\ queue' = [queue EXCEPT ![e] = IF call[t].op = "broadcast" THEN <<>>
                                   ELSE AfterNotifyOne(e)]
  /\ Goto(t, IF Notifiable(e) = {} /\ call[t].op # "broadcast"
             THEN "no_waiter" ELSE "finish")
  /\ UNCHANGED <<word, sem, use, waiter_count, table, ref_count, call, balance>>

(* "no waiters - mark as uncontended and release" *)
Released(value) == value + (IF value < 0 THEN 2 ELSE 1)

(* Nobody was notified: the mutex is unlocked again, or the semaphore's    *)
(* value incremented.                                                      *)
no_waiter(t) ==
  LET a == Unblocked(t) IN
  /\ pc[t] = "no_waiter"
  /\ IF a = SEM
     THEN sem' = Released(sem) /\ Goto(t, "put") /\ UNCHANGED word
     ELSE /\ word' = [word EXCEPT ![a] = @ \ {LOCKED}]
          /\ Goto(t, "finish") /\ UNCHANGED sem
  /\ UNCHANGED <<use, waiter_count, kernel, call, balance>>

(* Without waiters the word is not contended any more; the write lock is   *)
(* given up.                                                               *)
finish(t) ==
  LET a == Unblocked(t)
      e == Entry(t, a)
  IN /\ pc[t] = "finish"
     /\ IF a = SEM
        THEN /\ sem' = IF NobodyWaits(e) /\ sem = -1 THEN 0 ELSE sem
             /\ UNCHANGED word
        ELSE /\ word' = [word EXCEPT ![a] = IF NobodyWaits(e)
                                            THEN @ \ {WAITING} ELSE @]
             /\ UNCHANGED sem
     /\ Goto(t, AfterUnblock(t))
     /\ UNCHANGED <<use, waiter_count, kernel, call, balance>>

-----------------------------------------------------------------------------
(* User space: mutexes *)

(* __mutex_lock(), pthread_mutex_lock() and pthread_mutex_timedlock() *)
mutex_lock(t) ==
  /\ use = "mutex" /\ pc[t] = "idle"
  /\ IF word[MUTEX] = {}
     THEN /\ word' = [word EXCEPT ![MUTEX] = {LOCKED}]
          /\ Enter(t, NULL, "critical")
     ELSE Enter(t, "lock", "get") /\ UNCHANGED word
  /\ UNCHANGED <<sem, use, waiter_count, kernel, balance>>

(* The kernel returns: an interrupted call is repeated. *)
mutex_lock_return(t) ==
  /\ Returning(t) /\ call[t].op = "lock"
  /\ CASE call[t].status = B_OK -> Enter(t, NULL, "critical")
       [] call[t].status = B_INTERRUPTED -> Enter(t, "lock", "get")
       [] call[t].status = B_TIMED_OUT -> Enter(t, NULL, "idle")
  /\ UNCHANGED <<word, sem, use, waiter_count, kernel, balance>>

(* __mutex_unlock() and pthread_mutex_unlock() *)
mutex_unlock(t) ==
  /\ pc[t] = "critical"
  /\ word' = [word EXCEPT ![MUTEX] = @ \ {LOCKED}]
  /\ IF WAITING \in word[MUTEX] THEN Enter(t, "unlock", "unblock_get")
                                ELSE Enter(t, NULL, "idle")
  /\ UNCHANGED <<sem, use, waiter_count, kernel, balance>>

mutex_unlock_return(t) ==
  /\ Returning(t) /\ call[t].op = "unlock"
  /\ Enter(t, NULL, "idle")
  /\ UNCHANGED <<word, sem, use, waiter_count, kernel, balance>>

-----------------------------------------------------------------------------
(* User space: condition variables *)

(* cond_wait(), up to the system call *)
cond_wait(t) ==
  /\ pc[t] = "critical"
  /\ waiter_count' = waiter_count + 1
  /\ word' = [word EXCEPT ![COND] = IF @ = {} THEN {LOCKED} ELSE @]
  /\ Enter(t, "cond_wait", "get")
  /\ UNCHANGED <<sem, use, kernel, balance>>

(* The second half of user_mutex_switch_lock(): the mutex is unlocked. *)
user_mutex_switch_lock(t) ==
  /\ pc[t] = "switch"
  /\ word' = [word EXCEPT ![MUTEX] = @ \ {LOCKED}]
  /\ Goto(t, IF WAITING \in word[MUTEX] THEN "unblock_get" ELSE AfterUnblock(t))
  /\ UNCHANGED <<sem, use, waiter_count, kernel, call, balance>>

(* Back in cond_wait(), with pthread_mutex_lock() ... *)
cond_wait_relock(t) ==
  /\ Returning(t)
  /\ \/ call[t].op = "cond_wait"
     \/ call[t].op = "relock" /\ call[t].status = B_INTERRUPTED
  /\ IF call[t].op = "cond_wait" /\ word[MUTEX] = {}
     THEN /\ word' = [word EXCEPT ![MUTEX] = {LOCKED}]
          /\ call' = [call EXCEPT ![t] = [Call("relock") EXCEPT !.status = B_OK]]
          /\ UNCHANGED pc
     ELSE Enter(t, "relock", "get") /\ UNCHANGED word
  /\ UNCHANGED <<sem, use, waiter_count, kernel, balance>>

(* ... and what follows it; the mutex is held. *)
cond_wait_return(t) ==
  /\ Returning(t) /\ call[t].op = "relock" /\ call[t].status = B_OK
  /\ waiter_count' = waiter_count - 1
  /\ word' = [word EXCEPT ![COND] = IF waiter_count = 1 THEN {} ELSE @]
  /\ Enter(t, NULL, "critical")
  /\ UNCHANGED <<sem, use, kernel, balance>>

(* Those who have waited since before now, and may still be woken *)
CondWaiters == {t \in Threads : /\ call[t].op = "cond_wait" /\ Queued(t)
                                /\ pc[t] # "leave"}

(* cond_signal(), by a thread that holds the mutex.  (Two threads that     *)
(* signal without it may both find the lock cleared, of which only one     *)
(* wakes somebody; this use is not considered.)                            *)
cond_signal(t, op) ==
  /\ pc[t] = "critical" /\ waiter_count > 0
  /\ word' = [word EXCEPT ![COND] = @ \ {LOCKED}]
  /\ call' = [call EXCEPT ![t] = [Call(op) EXCEPT !.seen = CondWaiters]]
  /\ Goto(t, IF WAITING \in word[COND] THEN "unblock_get" ELSE "put")
  /\ UNCHANGED <<sem, use, waiter_count, kernel, balance>>

cond_signal_return(t) ==
  /\ Returning(t) /\ call[t].op \in {"signal", "broadcast"}
  /\ Enter(t, NULL, "critical")
  /\ UNCHANGED <<word, sem, use, waiter_count, kernel, balance>>

-----------------------------------------------------------------------------
(* User space: unnamed semaphores *)

(* unnamed_sem_timedwait() *)
sem_wait(t) ==
  /\ use = "sem" /\ pc[t] = "idle"
  /\ IF sem > 0
     THEN sem' = sem - 1 /\ balance' = balance - 1 /\ UNCHANGED <<pc, call>>
     ELSE Enter(t, "sem_wait", "get") /\ UNCHANGED <<sem, balance>>
  /\ UNCHANGED <<word, use, waiter_count, kernel>>

(* unnamed_sem_post() *)
sem_post(t) ==
  /\ use = "sem" /\ pc[t] = "idle"
  /\ balance < MaxUnits
  /\ balance' = balance + 1
  /\ IF sem > -1 THEN sem' = sem + 1 /\ UNCHANGED <<pc, call>>
                 ELSE Enter(t, "sem_post", "get_to_post") /\ UNCHANGED sem
  /\ UNCHANGED <<word, use, waiter_count, kernel>>

(* _user_mutex_sem_release() *)
get_to_post(t) ==
  /\ pc[t] = "get_to_post"
  /\ get_user_mutex_entry(t, "sem_release")
  /\ UNCHANGED <<word, sem, use, waiter_count, balance>>

sem_return(t) ==
  /\ Returning(t) /\ call[t].op \in {"sem_wait", "sem_post"}
  /\ balance' = balance - (IF call[t].status = B_OK THEN 1 ELSE 0)
  /\ Enter(t, NULL, "idle")
  /\ UNCHANGED <<word, sem, use, waiter_count, kernel>>

-----------------------------------------------------------------------------
Next ==
  \E t \in Threads :
    \/ mutex_lock(t) \/ mutex_lock_return(t)
    \/ mutex_unlock(t) \/ mutex_unlock_return(t)
    \/ cond_wait(t) \/ cond_wait_relock(t) \/ cond_wait_return(t)
    \/ \E op \in {"signal", "broadcast"} : cond_signal(t, op)
    \/ cond_signal_return(t)
    \/ sem_wait(t) \/ sem_post(t) \/ get_to_post(t) \/ sem_return(t)
    \/ get_to_wait(t) \/ user_mutex_prepare_to_lock(t) \/ unset_waiting(t)
    \/ user_mutex_sem_acquire_locked(t) \/ user_mutex_wait_locked(t)
    \/ wait_notified(t) \/ wait_leave(t) \/ check_waiting(t)
    \/ \E status \in {B_TIMED_OUT, B_INTERRUPTED} : wait_fails(t, status)
    \/ user_mutex_switch_lock(t)
    \/ get_to_unblock(t) \/ user_mutex_unblock(t) \/ Notify(t)
    \/ no_waiter(t) \/ finish(t)
    \/ put_user_mutex_entry(t) \/ delete_entry(t)

Spec == Init /\ [][Next]_vars

-----------------------------------------------------------------------------
(* Type correctness of the words, the table, the entries and the calls *)
TypeOK ==
  /\ word \in [{MUTEX, COND} -> SUBSET {LOCKED, WAITING}]
  /\ sem \in -1 .. MaxUnits /\ balance \in 0 .. MaxUnits
  /\ waiter_count \in 0 .. Cardinality(Threads)
  /\ table \in [Addresses -> Entries \cup {NULL}]
  /\ ref_count \in [Entries -> 0 .. 2 * Cardinality(Threads)]
  /\ \A e \in Entries : queue[e] \in Seq(Threads) /\ IsInjective(queue[e])

(* A notified thread has what it waits for, even before it runs. *)
Acquired(t) == \/ call[t].status = B_OK
               \/ pc[t] = "wait" /\ ~Queued(t)

MutexHolders ==
  {t \in Threads :
     \/ pc[t] = "critical"
     \/ call[t].op \in {"signal", "broadcast"}
     \/ call[t].op = "cond_wait" /\
          pc[t] \in {"get", "prepare", "add", "clear", "switch"}
     \/ call[t].op \in {"lock", "relock"} /\ Acquired(t)}

(* On its way from one holder to the next *)
HandedOff == {t \in Threads : /\ Unblocked(t) = MUTEX
                              /\ pc[t] \in {"notify", "no_waiter"}}

UnitsBeingPosted ==
  {t \in Threads : /\ call[t].op = "sem_post"
                   /\ pc[t] \in {"get_to_post", "sem_release", "no_waiter"}}

(* A mutex is one unit, a semaphore as many as were put into it: each unit *)
(* is either there to be taken, held by exactly one thread, or on its way  *)
(* from one to another, however locking in user space, hand-off in the     *)
(* kernel, timeouts and signals interleave.  In particular no two threads  *)
(* ever hold the mutex, and a wait that fails has not taken anything.      *)
UnitsConserved ==
  /\ Cardinality(MutexHolders) + Cardinality(HandedOff)
       = IF LOCKED \in word[MUTEX] THEN 1 ELSE 0
  /\ balance = (IF sem > 0 THEN sem ELSE 0) + Cardinality(UnitsBeingPosted)
       + Cardinality({t \in Threads : call[t].op = "sem_wait" /\ Acquired(t)})

(* "unblockers can be sure that no waiters will start waiting during       *)
(* unblock, and they can thus safely (without races) unset WAITING"        *)
(* (user_mutex.cpp): the word of everybody who waits says so, and if the   *)
(* mutex is not locked, somebody is about to unblock the waiter.           *)
NoForgottenWaiter ==
  \A t \in Threads :
    Queued(t) /\ pc[t] # "leave" =>
      IF Target(t) = SEM THEN sem = -1
      ELSE /\ WAITING \in word[Target(t)]
           /\ Target(t) = MUTEX =>
                \/ LOCKED \in word[MUTEX]
                \/ \E u \in Threads : /\ Unblocked(u) = MUTEX
                                      /\ pc[u] \in {"unblock_get", "unblock"}

(* Whoever works on an entry works on the one the table has for the        *)
(* address, so waiters and unblockers meet, and it is not deleted under    *)
(* them: get_user_mutex_entry() may revive an entry that                   *)
(* put_user_mutex_entry() is about to delete.                              *)
EntryInUse ==
  /\ \A t \in Threads, a \in Addresses :
       Entry(t, a) # NULL => table[a] = Entry(t, a)
  /\ \A a \in Addresses : table[a] # NULL =>
       ref_count[table[a]] = Cardinality({t \in Threads : Entry(t, a) # NULL})

(* pthread_cond_signal() with the mutex held wakes one of those who waited *)
(* when it was called, pthread_cond_broadcast() all of them, unless they   *)
(* have given up.                                                          *)
SignalNotLost ==
  [][\A t \in Threads :
       call[t].op \in {"signal", "broadcast"} /\ pc'[t] = "critical" =>
         LET left == call[t].seen \cap CondWaiters IN
         IF call[t].op = "broadcast" THEN left = {}
         ELSE call[t].seen = {} \/ left # call[t].seen]_vars
=============================================================================
