------------------------- MODULE ConditionVariable -------------------------
(***************************************************************************)
(* The kernel's condition variables (src/system/kernel                     *)
(* /condition_variable.cpp): one published variable, waiting threads that  *)
(* each have a ConditionVariableEntry on their stack, and threads or       *)
(* interrupt handlers that notify.                                         *)
(*                                                                         *)
(* An entry leaves the variable in one of two ways, and both may be under  *)
(* way at once: the notifier takes it off the list, or its thread, after a *)
(* timeout or an interruption, removes it.  They settle the matter without *)
(* a common lock: who swaps entry->fThread for NULL decides, the other     *)
(* side waits, on fVariable = NULL or on fEntriesCount.  Neither may touch *)
(* the other's memory afterwards: the entry is gone when its thread        *)
(* returns, the variable when Unpublish() returns.                         *)
(*                                                                         *)
(* Each access that races in this protocol is a step of its own; what      *)
(* happens under fLock and is read only under fLock is part of it.         *)
(***************************************************************************)
EXTENDS Integers, SequencesExt, ThreadBlocking

CONSTANTS
  Waiters,       \* threads that wait, and their entries
  Notifiers,     \* threads and interrupt handlers that notify
  Unpublishers,  \* notifiers that unpublish (and delete) the variable
  Nobody

ASSUME ConditionVariableConstants ==
  /\ Waiters \cap Notifiers = {}
  /\ Unpublishers \subseteq Notifiers
  /\ Nobody \notin Waiters \cup Notifiers
  /\ IsFiniteSet(Waiters)

VARIABLES
  \* the variable
  fEntries, fEntriesCount, fLock,
  published,       \* in sConditionVariableHash
  \* the entry of each waiter
  fThread,         \* not NULL
  fVariable,       \* not NULL
  fWaitStatus,
  \* the thread of each waiter
  wait,            \* thread->wait.status
  asleep,          \* thread->state = B_THREAD_WAITING
  scheduler_lock,  \* the notifier that holds thread->scheduler_lock
  \* local variables of the notifier that holds fLock (one at a time)
  all, result, entry, lastWaitStatus, removedCount,
  \* control, and what the waiters are told
  pc,
  taken,           \* a notifier swapped the entry's fThread
  told             \* what Wait() returned last

variable == <<fEntries, fEntriesCount, fLock, published>>
entries == <<fThread, fVariable, fWaitStatus>>
threads == <<wait, asleep, scheduler_lock>>
locals == <<all, result, entry, lastWaitStatus, removedCount>>
ghosts == <<taken, told>>
vars == <<fEntries, fEntriesCount, fLock, published, fThread, fVariable,
          fWaitStatus, wait, asleep, scheduler_lock, all, result, entry,
          lastWaitStatus, removedCount, pc, taken, told>>

STATUS_ADDED == "STATUS_ADDED"
STATUS_WAITING == "STATUS_WAITING"
B_WOULD_BLOCK == "B_WOULD_BLOCK"
B_ENTRY_NOT_FOUND == "B_ENTRY_NOT_FOUND"

Goto(t, label) == pc' = [pc EXCEPT ![t] = label]
NotifyResults == {B_OK, B_ENTRY_NOT_FOUND}

(* Publish() of a fresh variable *)
Init ==
  /\ fEntries = <<>> /\ fEntriesCount = 0 /\ fLock = Nobody /\ published = TRUE
  /\ fThread = [t \in Waiters |-> FALSE]
  /\ fVariable = [t \in Waiters |-> FALSE]
  /\ fWaitStatus = [t \in Waiters |-> STATUS_ADDED]
  /\ wait = [t \in Waiters |-> B_OK]
  /\ asleep = [t \in Waiters |-> FALSE]
  /\ scheduler_lock = [t \in Waiters |-> Nobody]
  /\ all = FALSE /\ result = B_OK /\ entry = Nobody
  /\ lastWaitStatus = STATUS_ADDED /\ removedCount = 0
  /\ pc = [t \in Waiters \cup Notifiers |-> "idle"]
  /\ taken = [t \in Waiters |-> FALSE]
  /\ told = [t \in Waiters |-> B_OK]

-----------------------------------------------------------------------------
(* The waiting thread *)

(* ConditionVariableEntry::Add(object), with _AddToLockedVariable(); the   *)
(* lookup and fLock are taken hand over hand, so it happens when fLock is  *)
(* acquired.                                                               *)
Add(t) ==
  /\ pc[t] = "idle"
  /\ published /\ fLock = Nobody
  /\ fThread' = [fThread EXCEPT ![t] = TRUE]
  /\ fVariable' = [fVariable EXCEPT ![t] = TRUE]
  /\ fWaitStatus' = [fWaitStatus EXCEPT ![t] = STATUS_ADDED]
  /\ fEntries' = Append(fEntries, t)
  /\ fEntriesCount' = fEntriesCount + 1
  /\ Goto(t, "added")
  /\ UNCHANGED <<fLock, published, threads, locals, ghosts>>

Return(t, status) ==
  /\ told' = [told EXCEPT ![t] = status]
  /\ Goto(t, "returned")

(* Wait() reads fVariable: there is something to wait for, or not any      *)
(* more.                                                                   *)
Wait(t) ==
  /\ pc[t] = "added"
  /\ IF fVariable[t] THEN Goto(t, "wait") /\ UNCHANGED told
                     ELSE Return(t, fWaitStatus[t])
  /\ UNCHANGED <<variable, entries, threads, locals, taken>>

(* Wait() with a relative timeout of 0, and the destructor of an entry     *)
(* that was not waited for.                                                *)
Leave(t) ==
  /\ pc[t] = "added"
  /\ fVariable[t]
  /\ Goto(t, "remove")
  /\ wait' = [wait EXCEPT ![t] = B_WOULD_BLOCK]
  /\ UNCHANGED <<variable, entries, asleep, scheduler_lock, locals, ghosts>>

(* Mutant: Wait() does not look at the status again. *)
AlreadyNotified_NotChecked(t) == FALSE

AlreadyNotified(t) == fWaitStatus[t] \in NotifyResults

(* Wait() under the thread's scheduler_lock: notified meanwhile, or block. *)
PrepareToBlock(t) ==
  /\ pc[t] = "wait"
  /\ scheduler_lock[t] = Nobody
  /\ IF AlreadyNotified(t)
     THEN Return(t, fWaitStatus[t]) /\ UNCHANGED <<fWaitStatus, wait>>
     ELSE /\ fWaitStatus' = [fWaitStatus EXCEPT ![t] = STATUS_WAITING]
          /\ wait' = thread_prepare_to_block(wait, t)
          /\ Goto(t, "prepared")
          /\ UNCHANGED told
  /\ UNCHANGED <<variable, fThread, fVariable, asleep, scheduler_lock, locals,
                 taken>>

(* thread_block[_with_timeout](): go to sleep, if still blocked.           *)
Block(t) ==
  /\ pc[t] = "prepared"
  /\ scheduler_lock[t] = Nobody
  /\ IF thread_is_blocked(wait, t)
     THEN asleep' = [asleep EXCEPT ![t] = TRUE] /\ Goto(t, "asleep")
     ELSE Goto(t, "remove") /\ UNCHANGED asleep
  /\ UNCHANGED <<variable, entries, wait, scheduler_lock, locals, ghosts>>

(* A timeout or a signal unblocks the thread.                              *)
Interrupt(t) ==
  /\ pc[t] \in {"prepared", "asleep"}
  /\ thread_is_blocked(wait, t)
  /\ scheduler_lock[t] = Nobody
  /\ wait' = thread_block_timeout(wait, t)
  /\ asleep' = [asleep EXCEPT ![t] = FALSE]
  /\ UNCHANGED <<variable, entries, scheduler_lock, locals, pc, ghosts>>

(* The thread was woken and runs again. *)
WakeUp(t) ==
  /\ pc[t] = "asleep"
  /\ ~asleep[t]
  /\ Goto(t, "remove")
  /\ UNCHANGED <<variable, entries, threads, locals, ghosts>>

(* _RemoveFromVariable(): who clears fThread?                              *)
RemoveFromVariable(t) ==
  /\ pc[t] = "remove"
  /\ fThread' = [fThread EXCEPT ![t] = FALSE]
  /\ IF fThread[t] THEN Goto(t, "remove_check") ELSE Goto(t, "remove_spin")
  /\ UNCHANGED <<variable, fVariable, fWaitStatus, threads, locals, ghosts>>

(* Mutant: what thread_block() returned goes to the caller. *)
StatusToReturn_BlockResult(t) == wait[t]

(* The end of Wait(): "We need to always return the actual wait status, if *)
(* we received one."                                                       *)
StatusToReturn(t) ==
  IF fWaitStatus[t] \in NotifyResults THEN fWaitStatus[t] ELSE wait[t]

(* Mutant: the thread does not wait for the notifier. *)
NotifierIsThrough_NotAwaited(t) == TRUE

NotifierIsThrough(t) == ~fVariable[t]

(* The notifier was first: wait until it is through with us.               *)
RemoveSpin(t) ==
  /\ pc[t] = "remove_spin"
  /\ NotifierIsThrough(t)
  /\ Return(t, StatusToReturn(t))
  /\ UNCHANGED <<variable, entries, threads, locals, taken>>

(* We were first: has the variable cleared us out, or can we get fLock?    *)
RemoveCheck(t) ==
  /\ pc[t] = "remove_check"
  /\ Goto(t, IF fVariable[t] THEN "remove_try" ELSE "remove_ack")
  /\ UNCHANGED <<variable, entries, threads, locals, ghosts>>

(* A failed try leads back to the check, and from there to the next try    *)
(* unless fVariable was unset: the rounds that change nothing are no steps.*)
RemoveTry(t) ==
  /\ pc[t] = "remove_try"
  /\ \/ /\ fLock = Nobody
        /\ fLock' = t
        /\ Goto(t, "remove_locked")
     \/ /\ fLock # Nobody /\ ~fVariable[t]
        /\ Goto(t, "remove_check")
        /\ UNCHANGED fLock
  /\ UNCHANGED <<fEntries, fEntriesCount, published, entries, threads, locals,
                 ghosts>>

(* Mutant: the removal is not acknowledged. *)
CountAfterAck_Unchanged == fEntriesCount

(* "The variable must have cleared us out. Acknowledge this and return."   *)
CountAfterAck == fEntriesCount - 1

RemoveAcknowledge(t) ==
  /\ pc[t] = "remove_ack"
  /\ fEntriesCount' = CountAfterAck
  /\ Return(t, StatusToReturn(t))
  /\ UNCHANGED <<fEntries, fLock, published, entries, threads, locals, taken>>

RemoveLocked(t) ==
  /\ pc[t] = "remove_locked"
  /\ fEntries' = RemoveFirst(fEntries, t)
  /\ fVariable' = [fVariable EXCEPT ![t] = FALSE]
  /\ fEntriesCount' = fEntriesCount - 1
  /\ fLock' = Nobody
  /\ Return(t, StatusToReturn(t))
  /\ UNCHANGED <<published, fThread, fWaitStatus, threads, locals, taken>>

(* The entry is destroyed, and the thread goes on; it may well block again *)
(* right away, for something else.                                         *)
Done(t) ==
  /\ pc[t] = "returned"
  /\ \/ Goto(t, "idle") /\ wait' = [wait EXCEPT ![t] = B_OK]
     \/ Goto(t, "blocked_elsewhere") /\ wait' = thread_prepare_to_block(wait, t)
  /\ fWaitStatus' = [fWaitStatus EXCEPT ![t] = STATUS_ADDED]
  /\ taken' = [taken EXCEPT ![t] = FALSE]
  /\ told' = [told EXCEPT ![t] = B_OK]
  /\ UNCHANGED <<variable, fThread, fVariable, asleep, scheduler_lock, locals>>

UnblockedElsewhere(t) ==
  /\ pc[t] = "blocked_elsewhere"
  /\ wait' = thread_unblock(wait, {t}, B_OK)
  /\ Goto(t, "idle")
  /\ UNCHANGED <<variable, entries, asleep, scheduler_lock, locals, ghosts>>

-----------------------------------------------------------------------------
(* The notifier *)

(* NotifyOne(), NotifyAll(): _Notify() acquires fLock.                     *)
Notify(n, everyone) ==
  /\ pc[n] = "idle"
  /\ published /\ fLock = Nobody
  /\ fLock' = n
  /\ all' = everyone
  /\ result' = B_OK
  /\ Goto(n, "notify")
  /\ UNCHANGED <<fEntries, fEntriesCount, published, entries, threads, entry,
                 lastWaitStatus, removedCount, ghosts>>

Unpublish(n) ==
  /\ n \in Unpublishers
  /\ pc[n] = "idle"
  /\ published /\ fLock = Nobody
  /\ fLock' = n
  /\ published' = FALSE
  /\ all' = TRUE
  /\ result' = B_ENTRY_NOT_FOUND
  /\ Goto(n, "notify")
  /\ UNCHANGED <<fEntries, fEntriesCount, entries, threads, entry,
                 lastWaitStatus, removedCount, ghosts>>

(* A new variable is published after the old one is gone. *)
Publish(n) ==
  /\ n \in Unpublishers
  /\ ~published
  /\ \A m \in Notifiers : pc[m] = "idle"
  /\ published' = TRUE
  /\ fEntries' = <<>> /\ fEntriesCount' = 0 /\ fLock' = Nobody
  /\ UNCHANGED <<entries, threads, locals, pc, ghosts>>

(* The end of _NotifyLocked() and of its locals, and fLock is released.    *)
NotifyEnd(n) ==
  /\ fLock' = Nobody
  /\ all' = FALSE /\ result' = B_OK /\ entry' = Nobody
  /\ lastWaitStatus' = STATUS_ADDED /\ removedCount' = 0
  /\ Goto(n, "idle")

(* _NotifyLocked(): take the next entry off the list and swap its fThread; *)
(* with none left, release fLock.                                          *)
NotifyNext(n) ==
  /\ pc[n] = "notify"
  /\ \/ /\ fEntries = <<>>
        /\ NotifyEnd(n)
        /\ UNCHANGED <<fEntries, fThread, taken>>
     \/ /\ fEntries # <<>>
        /\ LET e == Head(fEntries) IN
           /\ fEntries' = Tail(fEntries)
           /\ entry' = e
           /\ fThread' = [fThread EXCEPT ![e] = FALSE]
           /\ IF fThread[e]
              THEN /\ taken' = [taken EXCEPT ![e] = TRUE]
                   /\ Goto(n, "notify_status")
                   /\ UNCHANGED removedCount
              ELSE /\ removedCount' = fEntriesCount - 1
                   /\ Goto(n, "notify_clear")
                   /\ UNCHANGED taken
        /\ UNCHANGED <<fLock, all, result, lastWaitStatus>>
  /\ UNCHANGED <<fEntriesCount, published, fVariable, fWaitStatus, threads,
                 told>>

(* The entry is removing itself: clear its variable ...                    *)
NotifyClear(n) ==
  /\ pc[n] = "notify_clear"
  /\ fVariable' = [fVariable EXCEPT ![entry] = FALSE]
  /\ Goto(n, "notify_await")
  /\ UNCHANGED <<variable, fThread, fWaitStatus, threads, locals, ghosts>>

(* Mutant: the notifier goes on at once. *)
Acknowledged_NotAwaited == TRUE

(* ... and wait for it to acknowledge this in fEntriesCount.               *)
Acknowledged == fEntriesCount = removedCount

NotifyAwait(n) ==
  /\ pc[n] = "notify_await"
  /\ Acknowledged
  /\ Goto(n, "notify")
  /\ UNCHANGED <<variable, entries, threads, locals, ghosts>>

(* Mutant: threads are unblocked after fVariable is unset only. *)
UnblockEarly_Never(e) == FALSE

(* Whether the thread has to be unblocked before fVariable is unset: it    *)
(* waits, but does not sleep (any more, or yet).                           *)
UnblockEarly(e) == fWaitStatus[e] = STATUS_WAITING /\ ~asleep[e]

(* The thread is ours to notify: with its scheduler_lock, set the status.  *)
NotifyStatus(n) ==
  LET e == entry IN
  /\ pc[n] = "notify_status"
  /\ scheduler_lock[e] = Nobody
  /\ scheduler_lock' = [scheduler_lock EXCEPT ![e] = n]
  /\ fWaitStatus' = [fWaitStatus EXCEPT ![e] = result]
  /\ IF UnblockEarly(e)
     THEN /\ wait' = thread_unblock(wait, {e}, result)
          /\ lastWaitStatus' = result
     ELSE /\ lastWaitStatus' = fWaitStatus[e]
          /\ UNCHANGED wait
  /\ Goto(n, "notify_unset")
  /\ UNCHANGED <<variable, fThread, fVariable, asleep, all, result, entry,
                 removedCount, ghosts>>

(* "We may not validly access the entry once we unset its fVariable."      *)
NotifyUnset(n) ==
  /\ pc[n] = "notify_unset"
  /\ fVariable' = [fVariable EXCEPT ![entry] = FALSE]
  /\ Goto(n, "notify_count")
  /\ UNCHANGED <<variable, fThread, fWaitStatus, threads, locals, ghosts>>

(* Mutant: the removal is left to the thread to count. *)
CountAfterNotify_Unchanged == fEntriesCount

(* "No matter what the thread is doing, as we were the ones to clear its   *)
(* fThread, so we are the ones responsible for decrementing"               *)
CountAfterNotify == fEntriesCount - 1

(* Count it out, unblock the thread if it sleeps, and go on with the next  *)
(* entry or release fLock.                                                 *)
NotifyUnblock(n) ==
  LET e == entry IN
  /\ pc[n] = "notify_count"
  /\ fEntriesCount' = CountAfterNotify
  /\ IF lastWaitStatus = STATUS_WAITING
     THEN /\ wait' = thread_unblock(wait, {e}, result)
          /\ asleep' = [asleep EXCEPT ![e] = @ /\ ~thread_is_blocked(wait, e)]
     ELSE UNCHANGED <<wait, asleep>>
  /\ scheduler_lock' = [scheduler_lock EXCEPT ![e] = Nobody]
  /\ IF all
     THEN Goto(n, "notify") /\ UNCHANGED <<fLock, locals>>
     ELSE NotifyEnd(n)
  /\ UNCHANGED <<fEntries, published, entries, ghosts>>

-----------------------------------------------------------------------------
WaiterStep(t) ==
  \/ Wait(t) \/ PrepareToBlock(t) \/ Block(t) \/ WakeUp(t)
  \/ RemoveFromVariable(t) \/ RemoveSpin(t) \/ RemoveCheck(t) \/ RemoveTry(t)
  \/ RemoveAcknowledge(t) \/ RemoveLocked(t)

NotifierStep(n) ==
  \/ NotifyNext(n) \/ NotifyClear(n) \/ NotifyAwait(n) \/ NotifyStatus(n)
  \/ NotifyUnset(n) \/ NotifyUnblock(n)

Next ==
  \/ \E t \in Waiters : \/ Add(t) \/ Leave(t) \/ Interrupt(t) \/ WaiterStep(t)
                        \/ Done(t) \/ UnblockedElsewhere(t)
  \/ \E n \in Notifiers : \/ \E everyone \in BOOLEAN : Notify(n, everyone)
                          \/ Unpublish(n) \/ Publish(n) \/ NotifierStep(n)

Spec == Init /\ [][Next]_vars

(* Threads that are ready run, notifiers go on, and a thread that tries    *)
(* for fLock again and again gets it in the end.                           *)
Fairness ==
  /\ \A t \in Waiters : /\ WF_vars(WaiterStep(t))
                        /\ SF_vars(RemoveTry(t) /\ fLock = Nobody)
  /\ \A n \in Notifiers : WF_vars(NotifierStep(n))

FairSpec == Spec /\ Fairness

-----------------------------------------------------------------------------
(* Properties *)

(* Where the state of variable, entries and threads ranges; fEntriesCount  *)
(* never counts more entries than there are, nor fewer than none.          *)
TypeOK ==
  /\ fEntries \in Seq(Waiters)
  /\ fEntriesCount \in 0 .. Cardinality(Waiters)
  /\ fLock \in Waiters \cup Notifiers \cup {Nobody}
  /\ published \in BOOLEAN
  /\ fThread \in [Waiters -> BOOLEAN] /\ fVariable \in [Waiters -> BOOLEAN]
  /\ fWaitStatus \in [Waiters -> {STATUS_ADDED, STATUS_WAITING} \cup NotifyResults]
  /\ asleep \in [Waiters -> BOOLEAN]
  /\ scheduler_lock \in [Waiters -> Notifiers \cup {Nobody}]
  /\ entry \in Waiters \cup {Nobody}

(* "We may not validly access the entry once we unset its fVariable":      *)
(* while a notifier still has to write to an entry it took off the list,   *)
(* the thread of that entry has not returned from Wait().                  *)
EntryAccessIsSafe ==
  \A n \in Notifiers :
    pc[n] \in {"notify_clear", "notify_status", "notify_unset"} =>
      pc[entry] \notin {"idle", "returned", "blocked_elsewhere"}

(* "until we do that, we may validly use our cached pointer to the         *)
(* variable": a thread that removes its entry by itself is through with    *)
(* the variable when Unpublish() returns; and when it gets fLock, the      *)
(* entry's fVariable, which it follows, is not NULL.                       *)
VariableAccessIsSafe ==
  \A t \in Waiters :
    /\ pc[t] \in {"remove_check", "remove_try", "remove_ack", "remove_locked"} =>
         published \/ \E n \in Notifiers : pc[n] # "idle"
    /\ pc[t] = "remove_locked" => fVariable[t]

(* fEntriesCount is the list, and those entries taken off it whose removal *)
(* is still to be counted by the notifier or acknowledged by the thread.   *)
EntriesCounted ==
  fEntriesCount =
    Len(fEntries)
      + Cardinality({n \in Notifiers : pc[n] \in {"notify_status", "notify_unset",
                                                 "notify_count", "notify_clear"}})
      + Cardinality({n \in Notifiers : pc[n] = "notify_await" /\ ~Acknowledged})

(* A notifier unblocks nobody who waits for something else by now ("in     *)
(* case it tries to re-block itself immediately after we unset             *)
(* fVariable").                                                            *)
NoStrayUnblock ==
  \A n \in Notifiers :
    pc[n] = "notify_count" /\ lastWaitStatus = STATUS_WAITING =>
      pc[entry] = "asleep"

(* What Wait() returns is what happened: the notifier's result if and only *)
(* if a notifier took the entry, even if a timeout came first.             *)
TruthfulStatus ==
  \A t \in Waiters :
    pc[t] = "returned" => (taken[t] <=> told[t] \in NotifyResults)

(* "the thread will be watching the condition variable before the          *)
(* interrupt can be triggered, and the interrupt will wake up the thread"  *)
(* (docs/user/drivers/synchronization_primitives.dox): who was added       *)
(* before NotifyAll() gets back from Wait().                               *)
WatchingThreadWakes ==
  \A t \in Waiters :
    (t \in Range(fEntries) /\ \E n \in Notifiers : pc[n] = "notify" /\ all)
      ~> pc[t] = "returned"

(* Both sides wait for each other with spinning only for a while: every    *)
(* notification and every removal comes to an end.                         *)
SpinsEnd ==
  /\ \A n \in Notifiers : pc[n] # "idle" ~> pc[n] = "idle"
  /\ \A t \in Waiters : pc[t] = "remove" ~> pc[t] = "returned"

=============================================================================
