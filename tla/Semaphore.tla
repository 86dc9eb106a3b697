----------------------------- MODULE Semaphore ------------------------------
(***************************************************************************)
(* The kernel's counting semaphores (src/system/kernel/sem.cpp).           *)
(*                                                                         *)
(* A semaphore lives in slot id % sMaxSems of a table; the slot's next     *)
(* semaphore gets the id plus sMaxSems, so an old id is recognized.  What  *)
(* is done under a slot's spinlock is one step.  A thread that is waiting  *)
(* may time out or be interrupted at any time: only the scheduler lock     *)
(* protects that, so it stays in the queue until it, or the next thread    *)
(* that looks at the queue, removes it.                                    *)
(***************************************************************************)
EXTENDS Integers, SequencesExt, FiniteSetsExt, ThreadBlocking

CONSTANTS
  Threads,
  Impatient,      \* those that use a timeout and can be interrupted
  Switching,      \* those that release another semaphore as they acquire one
  sMaxSems,       \* slots of the table
  MaxID,          \* bound on the ids
  InitialCounts,  \* counts semaphores are created with
  AcquireCounts,  \* counts to acquire in one call
  ReleaseCounts,  \* counts to release in one call
  MaxCount        \* bound on net_count: no release beyond it

ASSUME SemaphoreConstants ==
  /\ IsFiniteSet(Threads)
  /\ Impatient \subseteq Threads /\ Switching \subseteq Threads
  /\ sMaxSems \in Nat \ {0} /\ MaxID \in Nat /\ MaxCount \in Nat
  /\ InitialCounts \subseteq 0 .. MaxCount
  /\ AcquireCounts \subseteq Nat \ {0} /\ ReleaseCounts \subseteq Nat \ {0}

VARIABLES
  sems,       \* sSems: id, count, net_count, queue, and next_id when unused
  freeSems,   \* the free list, as a sequence of slots
  pc,         \* where a thread is in switch_sem_etc(), or in deleting
  call,       \* a thread's arguments: id, count, the semaphore to be released
  wait,       \* thread->wait.status
  balance     \* the current semaphore's units: what it was created with, plus
              \* what was released, less what calls returned with

vars == <<sems, freeSems, pc, call, wait, balance>>

Slots == 0 .. sMaxSems - 1
IDs == 0 .. MaxID
NONE == -1                        \* no semaphore: id < 0
B_BAD_SEM_ID == "B_BAD_SEM_ID"
NoCall == [id |-> NONE, count |-> 0, release |-> NONE]

SlotOf(id) == id % sMaxSems
Valid(id) == sems[SlotOf(id)].id = id

(* The ids that have been given out so far *)
KnownIDs == {id \in IDs : LET sem == sems[SlotOf(id)]
                          IN id <= sem.id \/ id < sem.next_id}

Goto(t, label) == pc' = [pc EXCEPT ![t] = label]
Return(t) == Goto(t, "idle") /\ call' = [call EXCEPT ![t] = NoCall]

(* haiku_sem_init() *)
Init ==
  /\ sems = [s \in Slots |-> [id |-> NONE, count |-> 0, net_count |-> 0,
                              queue |-> <<>>, next_id |-> s]]
  /\ freeSems = [i \in 1 .. sMaxSems |-> i - 1]
  /\ pc = [t \in Threads |-> "idle"]
  /\ call = [t \in Threads |-> NoCall]
  /\ wait = [t \in Threads |-> B_OK]
  /\ balance = [s \in Slots |-> 0]

-----------------------------------------------------------------------------
(* create_sem_etc() *)
create_sem_etc(t, count) ==
  /\ pc[t] = "idle"
  /\ freeSems # <<>>
  /\ LET s == Head(freeSems) IN
     /\ sems[s].next_id <= MaxID
     /\ sems' = [sems EXCEPT ![s] = [id |-> sems[s].next_id, count |-> count,
                                     net_count |-> count, queue |-> <<>>,
                                     next_id |-> sems[s].next_id]]
     /\ balance' = [balance EXCEPT ![s] = count]
  /\ freeSems' = Tail(freeSems)
  /\ UNCHANGED <<pc, call, wait>>

(* Mutant: nobody is woken. *)
delete_sem_NoWakeup(t, id) ==
  LET s == SlotOf(id) IN
  /\ pc[t] = "idle" /\ Valid(id)
  /\ sems' = [sems EXCEPT ![s].id = NONE]
  /\ balance' = [balance EXCEPT ![s] = 0]
  /\ Goto(t, "free_slot")
  /\ call' = [call EXCEPT ![t].id = id]
  /\ UNCHANGED <<freeSems, wait>>

(* delete_sem_internal() and sem_delete_owned_sems(), both by way of       *)
(* uninit_sem_locked(): everybody who waits is woken, ...                  *)
delete_sem(t, id) ==
  LET s == SlotOf(id) IN
  /\ pc[t] = "idle" /\ Valid(id)
  /\ wait' = thread_unblock(wait, ToSet(sems[s].queue), B_BAD_SEM_ID)
  /\ sems' = [sems EXCEPT ![s].id = NONE, ![s].queue = <<>>,
                          ![s].count = 0, ![s].net_count = 0]
  /\ balance' = [balance EXCEPT ![s] = 0]
  /\ Goto(t, "free_slot")
  /\ call' = [call EXCEPT ![t].id = id]
  /\ UNCHANGED freeSems

(* ... and the slot is put into the free list, under sSemsSpinlock only.   *)
free_sem_slot(t) ==
  LET s == SlotOf(call[t].id) IN
  /\ pc[t] = "free_slot"
  /\ sems' = [sems EXCEPT ![s].next_id = call[t].id + sMaxSems]
  /\ freeSems' = Append(freeSems, s)
  /\ Return(t)
  /\ UNCHANGED <<wait, balance>>

-----------------------------------------------------------------------------
(* The loops of release_sem_etc() and remove_thread_from_sem() go through  *)
(* the queue from its head.  Their state: the semaphore's counts, what is  *)
(* left to release, who was woken, how many entries left the queue, and    *)
(* whether the loop ended at a thread that has to go on waiting.           *)
Loop(sem, left) ==
  [count |-> sem.count, net_count |-> sem.net_count, left |-> left,
   woken |-> {}, removed |-> 0, ended |-> FALSE]

(* Mutant: its count is not given back. *)
Skipped_CountLost(l, c) == [l EXCEPT !.removed = @ + 1]

(* The thread is no longer waiting: its acquisition failed. *)
Skipped(l, c) == [l EXCEPT !.count = @ + c, !.removed = @ + 1]

(* Mutant: a thread that takes more than what is left to release gets the  *)
(* difference for free.                                                    *)
ReleaseLoop_Free(l, t) ==
  LET c == call[t].count
      delta == Min({l.left, c})
  IN IF l.ended \/ l.left = 0 THEN l
     ELSE IF ~thread_is_blocked(wait, t) THEN Skipped(l, c)
     ELSE IF c > l.net_count + l.left
     THEN [l EXCEPT !.count = @ + l.left, !.net_count = @ + l.left,
                    !.left = 0, !.ended = TRUE]
     ELSE [l EXCEPT !.count = @ + c, !.left = @ - delta,
                    !.woken = @ \cup {t}, !.removed = @ + 1]

ReleaseLoop(l, t) ==
  LET c == call[t].count
      delta == Min({l.left, c})
  IN IF l.ended \/ l.left = 0 THEN l
     ELSE IF ~thread_is_blocked(wait, t) THEN Skipped(l, c)
     ELSE IF c > l.net_count + l.left
     THEN [l EXCEPT !.count = @ + l.left, !.net_count = @ + l.left,
                    !.left = 0, !.ended = TRUE]
     ELSE [l EXCEPT !.count = @ + delta, !.net_count = @ + delta - c,
                    !.left = @ - delta, !.woken = @ \cup {t},
                    !.removed = @ + 1]

RemoveLoop(l, t) ==
  LET c == call[t].count
  IN IF l.ended THEN l
     ELSE IF ~thread_is_blocked(wait, t) THEN Skipped(l, c)
     ELSE IF c > l.net_count THEN [l EXCEPT !.ended = TRUE]
     ELSE [l EXCEPT !.net_count = @ - c, !.woken = @ \cup {t},
                    !.removed = @ + 1]

(* The two loops, for all of a queue *)
ReleasePass(start, queue) ==
  LET l[i \in 0 .. Len(queue)] ==
        IF i = 0 THEN start ELSE ReleaseLoop(l[i - 1], queue[i])
  IN l[Len(queue)]

RemovePass(start, queue) ==
  LET l[i \in 0 .. Len(queue)] ==
        IF i = 0 THEN start ELSE RemoveLoop(l[i - 1], queue[i])
  IN l[Len(queue)]

(* A semaphore after a loop; what was not needed by anybody in the queue   *)
(* is added unless only waiting threads were meant.                        *)
After(sem, l, ifWaitingOnly) ==
  LET rest == IF ifWaitingOnly THEN 0 ELSE l.left
  IN [sem EXCEPT !.count = l.count + rest, !.net_count = l.net_count + rest,
                 !.queue = SubSeq(@, l.removed + 1, Len(@))]

(* release_sem_etc(), with or without B_RELEASE_IF_WAITING_ONLY *)
ReleaseUnits(id, count, ifWaitingOnly) ==
  LET s == SlotOf(id)
      l == ReleasePass(Loop(sems[s], count), sems[s].queue)
  IN IF Valid(id)
     THEN /\ sems[s].net_count + count <= MaxCount
          /\ sems' = [sems EXCEPT ![s] = After(@, l, ifWaitingOnly)]
          /\ wait' = thread_unblock(wait, l.woken, B_OK)
          /\ balance' = [balance EXCEPT ![s] =
                           @ + count - IF ifWaitingOnly THEN l.left ELSE 0]
     ELSE UNCHANGED <<sems, wait, balance>>

release_sem_etc(t, id, count, ifWaitingOnly) ==
  /\ pc[t] = "idle" /\ Valid(id)
  /\ ReleaseUnits(id, count, ifWaitingOnly)
  /\ UNCHANGED <<freeSems, pc, call>>

(* release_sem_etc() with B_RELEASE_ALL: as many units as everybody in the *)
(* queue waits for, but no more than the threads that still wait take.  If *)
(* status is an error, that is what these return with, and they acquire    *)
(* nothing.                                                                *)
release_all(t, id, status) ==
  LET s == SlotOf(id)
      all == sems[s].net_count - sems[s].count
      l == ReleasePass(Loop(sems[s], all), sems[s].queue)
  IN /\ pc[t] = "idle" /\ Valid(id)
     /\ all > 0
     /\ sems' = [sems EXCEPT ![s] = After(@, l, TRUE)]
     /\ wait' = thread_unblock(wait, l.woken, status)
     /\ balance' = [balance EXCEPT ![s] =
                      IF status = B_OK THEN @ + all - l.left ELSE @]
     /\ UNCHANGED <<freeSems, pc, call>>

-----------------------------------------------------------------------------
(* switch_sem_etc(); acquire_sem_etc() is the case of no semaphore to be   *)
(* released.  Calls that return an error at once and change nothing (a     *)
(* stale id, a timeout of 0) are left out.                                 *)

Acquirable(id, count) == Valid(id) /\ sems[SlotOf(id)].count - count >= 0

(* The caller need not wait.  semToBeReleased is not released then. *)
acquire_at_once(t, id, count) ==
  LET s == SlotOf(id) IN
  /\ pc[t] = "idle" /\ Acquirable(id, count)
  /\ sems' = [sems EXCEPT ![s].count = @ - count, ![s].net_count = @ - count]
  /\ balance' = [balance EXCEPT ![s] = @ - count]
  /\ UNCHANGED <<freeSems, pc, call, wait>>

(* A signal is pending: the other semaphore is released all the same.  If  *)
(* it is in the same slot the thread deadlocks with itself, which is not   *)
(* considered here.                                                        *)
acquire_interrupted(t, id, count, semToBeReleased) ==
  /\ pc[t] = "idle" /\ t \in Impatient \cap Switching
  /\ Valid(id) /\ ~Acquirable(id, count)
  /\ SlotOf(semToBeReleased) # SlotOf(id) /\ Valid(semToBeReleased)
  /\ ReleaseUnits(semToBeReleased, 1, FALSE)
  /\ UNCHANGED <<freeSems, pc, call>>

(* The caller queues up. *)
acquire_enqueue(t, id, count, semToBeReleased) ==
  LET s == SlotOf(id) IN
  /\ pc[t] = "idle" /\ Valid(id) /\ ~Acquirable(id, count)
  /\ semToBeReleased = NONE \/ t \in Switching
  /\ sems' = [sems EXCEPT ![s].count = @ - count, ![s].queue = Append(@, t)]
  /\ wait' = thread_prepare_to_block(wait, t)
  /\ call' = [call EXCEPT ![t] = [id |-> id, count |-> count,
                                  release |-> semToBeReleased]]
  /\ Goto(t, IF semToBeReleased = NONE THEN "block" ELSE "release_other")
  /\ UNCHANGED <<freeSems, balance>>

release_other(t) ==
  /\ pc[t] = "release_other"
  /\ ReleaseUnits(call[t].release, 1, FALSE)
  /\ Goto(t, "block")
  /\ call' = [call EXCEPT ![t].release = NONE]
  /\ UNCHANGED freeSems

(* thread_block_with_timeout() runs out of time, or the thread gets a      *)
(* signal.                                                                 *)
timeout(t) ==
  /\ t \in Impatient /\ pc[t] = "block" /\ thread_is_blocked(wait, t)
  /\ wait' = thread_block_timeout(wait, t)
  /\ UNCHANGED <<sems, freeSems, pc, call, balance>>

interrupt(t) ==
  /\ t \in Impatient /\ thread_is_blocked(wait, t)
  /\ wait' = thread_unblock(wait, {t}, B_INTERRUPTED)
  /\ UNCHANGED <<sems, freeSems, pc, call, balance>>

(* Mutant: the threads behind are not looked at. *)
Removed_NoWakeup(sem, t) ==
  [sem |-> [sem EXCEPT !.count = @ + call[t].count,
                       !.queue = RemoveFirst(@, t)],
   woken |-> {}]

(* remove_thread_from_sem(): the semaphore without t in its queue, and the *)
(* threads that this lets go on                                            *)
Removed(sem, t) ==
  LET without == [sem EXCEPT !.count = @ + call[t].count,
                             !.queue = RemoveFirst(@, t)]
      l == RemovePass(Loop(without, 0), without.queue)
  IN [sem |-> After(without, l, TRUE), woken |-> l.woken]

(* thread_block() returned. *)
acquire_return(t) ==
  LET s == SlotOf(call[t].id)
      queued == Contains(sems[s].queue, t)
      r == Removed(sems[s], t)
  IN /\ pc[t] = "block" /\ ~thread_is_blocked(wait, t)
     /\ sems' = IF queued THEN [sems EXCEPT ![s] = r.sem] ELSE sems
     /\ wait' = [thread_unblock(wait, IF queued THEN r.woken ELSE {}, B_OK)
                  EXCEPT ![t] = B_OK]    \* returned, no longer of interest
     /\ balance' = IF wait[t] = B_OK /\ Valid(call[t].id)
                   THEN [balance EXCEPT ![s] = @ - call[t].count] ELSE balance
     /\ Return(t)
     /\ UNCHANGED freeSems

-----------------------------------------------------------------------------
Next ==
  \E t \in Threads :
    \/ \E count \in InitialCounts : create_sem_etc(t, count)
    \/ free_sem_slot(t) \/ release_other(t) \/ acquire_return(t)
    \/ timeout(t) \/ interrupt(t)
    \/ \E id \in KnownIDs :
         \/ delete_sem(t, id)
         \/ \E status \in {B_OK, B_ERROR} : release_all(t, id, status)
         \/ \E count \in ReleaseCounts, ifWaitingOnly \in BOOLEAN :
              release_sem_etc(t, id, count, ifWaitingOnly)
         \/ \E count \in AcquireCounts :
              \/ acquire_at_once(t, id, count)
              \/ \E other \in KnownIDs : acquire_interrupted(t, id, count, other)
              \/ \E other \in KnownIDs \cup {NONE} :
                   acquire_enqueue(t, id, count, other)

Spec == Init /\ [][Next]_vars

-----------------------------------------------------------------------------
Calling == {t \in Threads : pc[t] \in {"release_other", "block"}}
CountOf(t) == call[t].count
UsedSlots == {s \in Slots : sems[s].id # NONE}

(* The sum of the counts of a set of threads: the size of the set of all   *)
(* the units they ask for                                                  *)
Units(S) == UNION {{t} \X (1 .. CountOf(t)) : t \in S}
Total(S) == Cardinality(Units(S))

(* "count + acquisition count of all blocked threads" (sem.cpp, struct     *)
(* sem_entry): net_count is what is really there, and never negative,      *)
(* however releases, failed acquisitions, and removals from the queue have *)
(* interleaved.                                                            *)
NetCount ==
  \A s \in UsedSlots :
    /\ sems[s].net_count \in 0 .. MaxCount
    /\ sems[s].net_count = sems[s].count + Total(ToSet(sems[s].queue))

(* No unit of a semaphore is lost or made up: what it was created with and *)
(* what was released since is what calls have returned with, what threads  *)
(* on their way out of switch_sem_etc() have got, and net_count.  A call   *)
(* that fails has acquired nothing.                                        *)
UnitsConserved ==
  \A s \in UsedSlots :
    balance[s] = sems[s].net_count +
      Total({t \in Calling : wait[t] = B_OK /\ call[t].id = sems[s].id})

(* The first thread of the queue, if it has not given up, waits for more   *)
(* than there is.                                                          *)
HeadMustWait(s) ==
  LET queue == sems[s].queue IN
  queue # <<>> /\ thread_is_blocked(wait, Head(queue))
    => CountOf(Head(queue)) > sems[s].net_count

(* "The thread is still waiting. If its count is satisfied, unblock it.    *)
(* Otherwise we can't unblock any other thread." (sem.cpp,                 *)
(* release_sem_etc()): nobody who could go on is left blocked.             *)
NoLostWakeup == \A s \in UsedSlots : HeadMustWait(s)

(* Once a thread that timed out or was interrupted has left the queue      *)
(* (remove_thread_from_sem()), nobody behind it who could go on is left    *)
(* blocked, whatever releases missed before: the thread it stood in the    *)
(* way of is woken, and the ones behind that one.                          *)
FailedAcquisitionWakes ==
  [][\A t \in Threads, s \in Slots :
       pc[t] = "block" /\ pc'[t] = "idle" /\ Contains(sems[s].queue, t)
         => HeadMustWait(s)']_vars

(* A thread that waits is in the queue of the semaphore it waits for, and  *)
(* that semaphore exists: deleting it, or reusing its slot, leaves nobody  *)
(* behind.  Nobody is in two queues.                                       *)
NoOrphanedWaiter ==
  /\ \A t \in Calling : thread_is_blocked(wait, t) =>
       /\ Valid(call[t].id)
       /\ Contains(sems[SlotOf(call[t].id)].queue, t)
  /\ \A s \in Slots : \A t \in ToSet(sems[s].queue) : call[t].id = sems[s].id
=============================================================================
