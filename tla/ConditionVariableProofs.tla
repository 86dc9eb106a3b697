---------------------- MODULE ConditionVariableProofs ----------------------
(***************************************************************************)
(* Proofs about ConditionVariable: for any number of waiters, notifiers    *)
(* and unpublishers, with timeouts, interruptions and republication.       *)
(***************************************************************************)
EXTENDS ConditionVariable, QueueLemmas

(* Where a waiter is: not waiting; not yet past the swap of its fThread;   *)
(* removing its entry by itself.                                           *)
Out == {"idle", "returned", "blocked_elsewhere"}
Before == {"added", "wait", "prepared", "asleep", "remove"}
Self == {"remove_check", "remove_try", "remove_ack", "remove_locked"}
WaiterLabels == Out \cup Before \cup Self \cup {"remove_spin"}

(* Where a notifier is with an entry it has taken off the list             *)
Removing == {"notify_clear", "notify_await"}
Notifying == {"notify_status", "notify_unset", "notify_count"}
NotifierLabels == {"idle", "notify"} \cup Removing \cup Notifying

WaitStatuses == {Blocked, B_OK, B_ENTRY_NOT_FOUND, B_TIMED_OUT, B_WOULD_BLOCK}
EntryStatuses == {STATUS_ADDED, STATUS_WAITING} \cup NotifyResults

(* Types of what TypeOK leaves open                                        *)
Types ==
  /\ fEntries \in Seq(Waiters) /\ IsInjective(fEntries)
  /\ fEntriesCount \in Int /\ removedCount \in Int
  /\ fLock \in Waiters \cup Notifiers \cup {Nobody}
  /\ published \in BOOLEAN
  /\ fThread \in [Waiters -> BOOLEAN] /\ fVariable \in [Waiters -> BOOLEAN]
  /\ fWaitStatus \in [Waiters -> EntryStatuses]
  /\ wait \in [Waiters -> WaitStatuses]
  /\ asleep \in [Waiters -> BOOLEAN]
  /\ scheduler_lock \in [Waiters -> Notifiers \cup {Nobody}]
  /\ all \in BOOLEAN /\ result \in NotifyResults
  /\ entry \in Waiters \cup {Nobody}
  /\ lastWaitStatus \in EntryStatuses
  /\ pc \in [Waiters \cup Notifiers -> WaiterLabels \cup NotifierLabels]
  /\ \A t \in Waiters : pc[t] \in WaiterLabels
  /\ \A n \in Notifiers : pc[n] \in NotifierLabels
  /\ taken \in [Waiters -> BOOLEAN]
  /\ told \in [Waiters -> WaitStatuses \cup EntryStatuses]

(* fLock says who is in the sections it protects, and a waiter's           *)
(* scheduler_lock which notifier is about to unblock it.                   *)
Locks ==
  /\ \A n \in Notifiers : fLock = n <=> pc[n] # "idle"
  /\ \A t \in Waiters : fLock = t <=> pc[t] = "remove_locked"
  /\ \A t \in Waiters, n \in Notifiers :
       scheduler_lock[t] = n <=>
         entry = t /\ pc[n] \in {"notify_unset", "notify_count"}

(* A notifier at one of these labels works on the entry of t.              *)
WorksOn(t, labels) == entry = t /\ \E n \in Notifiers : pc[n] \in labels

Listed(t) == t \in Range(fEntries)

(* What holds of a waiter and its entry, by where the waiter is            *)
WaiterInv(t) ==
  /\ pc[t] \in Out => ~Listed(t) /\ ~fVariable[t]
  /\ pc[t] \in {"idle", "blocked_elsewhere"} =>
       ~taken[t] /\ fWaitStatus[t] \notin NotifyResults
  /\ pc[t] = "returned" => (taken[t] <=> told[t] \in NotifyResults)
  /\ fThread[t] <=> pc[t] \in Before /\ Listed(t)
  /\ pc[t] \in Before \cup {"remove_spin"} =>
       /\ taken[t] <=> ~Listed(t)
       /\ fVariable[t] <=>
            Listed(t) \/ WorksOn(t, {"notify_status", "notify_unset"})
       /\ fWaitStatus[t] \in NotifyResults <=>
            ~Listed(t) /\ ~WorksOn(t, {"notify_status"})
  /\ pc[t] = "remove_spin" => ~Listed(t)
  /\ pc[t] \in {"prepared", "asleep", "remove", "remove_spin"} \cup Self
       /\ wait[t] \in NotifyResults => fWaitStatus[t] \in NotifyResults
  /\ pc[t] \in Self =>
       /\ ~taken[t] /\ fWaitStatus[t] \notin NotifyResults
       /\ fVariable[t] <=> Listed(t) \/ WorksOn(t, {"notify_clear"})
       /\ Listed(t) \/ WorksOn(t, {"notify_clear"})
            \/ (WorksOn(t, {"notify_await"}) /\ ~Acknowledged)
  /\ pc[t] = "remove_ack" => ~fVariable[t]
  /\ pc[t] = "remove_locked" => Listed(t)
  /\ asleep[t] => pc[t] = "asleep" /\ wait[t] = Blocked

(* What holds of a notifier and the entry it took off the list             *)
NotifierInv(n) ==
  /\ pc[n] \in Removing \cup Notifying => entry \in Waiters /\ ~Listed(entry)
  /\ pc[n] = "notify_clear" =>
       pc[entry] \in {"remove_check", "remove_try"} /\ ~Acknowledged
  /\ pc[n] = "notify_await" => Acknowledged \/ pc[entry] \in Self
  /\ pc[n] \in Removing => fEntriesCount \in {removedCount, removedCount + 1}
  /\ pc[n] \in {"notify_status", "notify_unset"} =>
       pc[entry] \in Before \cup {"remove_spin"}
  /\ pc[n] \in {"notify_unset", "notify_count"} /\ lastWaitStatus = STATUS_WAITING
       => pc[entry] = "asleep" /\ asleep[entry]
  /\ pc[n] = "notify_count" => pc[entry] \notin Self
  /\ pc[n] # "idle" => published \/ all

(* An entry that is off the list and not counted out yet                   *)
Pending ==
  \E n \in Notifiers :
    \/ pc[n] \in Notifying \cup {"notify_clear"}
    \/ pc[n] = "notify_await" /\ ~Acknowledged

Counted == fEntriesCount = Len(fEntries) + (IF Pending THEN 1 ELSE 0)

(* After Unpublish() the list is empty, or about to be emptied.            *)
Unpublished ==
  ~published => fEntries = <<>> \/ \E n \in Notifiers : pc[n] # "idle"

Inv ==
  /\ Types /\ Locks /\ Counted /\ Unpublished
  /\ \A t \in Waiters : WaiterInv(t)
  /\ \A n \in Notifiers : NotifierInv(n)

-----------------------------------------------------------------------------
(* Publish() of a fresh variable establishes the invariant.                *)
LEMMA InitInv == Init => Inv
<1> SUFFICES ASSUME Init PROVE Inv
  OBVIOUS
<1> USE ConditionVariableConstants DEF Init
<1>0. Range(fEntries) = {} /\ Len(fEntries) = 0
  BY DEF Range
<1>1. Types
  <2>1. /\ fEntries \in Seq(Waiters) /\ IsInjective(fEntries)
        /\ fEntriesCount \in Int /\ removedCount \in Int
        /\ fLock \in Waiters \cup Notifiers \cup {Nobody}
        /\ published \in BOOLEAN
    BY DEF IsInjective
  <2>2. /\ fThread \in [Waiters -> BOOLEAN] /\ fVariable \in [Waiters -> BOOLEAN]
        /\ fWaitStatus \in [Waiters -> EntryStatuses]
        /\ wait \in [Waiters -> WaitStatuses]
        /\ asleep \in [Waiters -> BOOLEAN]
        /\ scheduler_lock \in [Waiters -> Notifiers \cup {Nobody}]
    BY DEF EntryStatuses, WaitStatuses
  <2>3. /\ all \in BOOLEAN /\ result \in NotifyResults
        /\ entry \in Waiters \cup {Nobody}
        /\ lastWaitStatus \in EntryStatuses
    BY DEF NotifyResults, EntryStatuses
  <2>4. /\ pc \in [Waiters \cup Notifiers -> WaiterLabels \cup NotifierLabels]
        /\ \A t \in Waiters : pc[t] \in WaiterLabels
        /\ \A n \in Notifiers : pc[n] \in NotifierLabels
    BY DEF WaiterLabels, NotifierLabels, Out
  <2>5. /\ taken \in [Waiters -> BOOLEAN]
        /\ told \in [Waiters -> WaitStatuses \cup EntryStatuses]
    BY DEF WaitStatuses
  <2> QED
    BY <2>1, <2>2, <2>3, <2>4, <2>5 DEF Types
<1>2. Locks
  BY DEF Locks
<1>3. Counted
  BY <1>0 DEF Counted, Pending, Notifying
<1>4. Unpublished
  BY DEF Unpublished
<1>5. ASSUME NEW t \in Waiters PROVE WaiterInv(t)
  BY <1>0 DEF WaiterInv, Out, Before, Self, Listed, NotifyResults, B_OK,
       B_ENTRY_NOT_FOUND, STATUS_ADDED
<1>6. ASSUME NEW n \in Notifiers PROVE NotifierInv(n)
  BY DEF NotifierInv, Removing, Notifying
<1> QED
  BY <1>1, <1>2, <1>3, <1>4, <1>5, <1>6 DEF Inv

(* An entry is appended to the list, and its fThread set.                  *)
LEMMA StepAdd ==
  ASSUME Inv, NEW t \in Waiters, Add(t)
  PROVE  Inv'
<1> USE ConditionVariableConstants
    DEF Inv, Add, Goto, variable, entries, threads, locals, ghosts
<1>0. /\ fEntries' \in Seq(Waiters) /\ IsInjective(fEntries')
      /\ Range(fEntries') = Range(fEntries) \cup {t}
      /\ Len(fEntries') = Len(fEntries) + 1
      /\ Len(fEntries) \in Nat
  BY AppendMembers, LenProperties DEF Types, WaiterInv, Listed, Out
<1>1. Types'
  BY <1>0 DEF Types, WaiterLabels, Before, EntryStatuses
<1>2. Locks'
  BY DEF Locks, Types
<1>3. Counted'
  BY <1>0 DEF Counted, Pending, Types, Acknowledged, Locks, NotifierInv, Out,
     Before, Self, Removing, Notifying
<1>4. Unpublished'
  BY DEF Unpublished, Types, Locks, NotifierInv
<1>5. ASSUME NEW u \in Waiters PROVE WaiterInv(u)'
  BY <1>0 DEF WaiterInv, NotifierInv, Types, Locks, Out, Before, Self,
     Removing, Notifying, Listed, WorksOn, Acknowledged, NotifyResults,
     EntryStatuses, WaitStatuses, B_OK, B_ENTRY_NOT_FOUND, B_TIMED_OUT,
     B_WOULD_BLOCK, STATUS_ADDED, STATUS_WAITING, Blocked
<1>6. ASSUME NEW m \in Notifiers PROVE NotifierInv(m)'
  BY DEF Locks, Types, NotifierInv, Removing, Notifying
<1> QED
  BY <1>1, <1>2, <1>3, <1>4, <1>5, <1>6 DEF Inv

(* Wait() finds its entry taken already, or goes on.                       *)
LEMMA StepWait ==
  ASSUME Inv, NEW t \in Waiters, Wait(t)
  PROVE  Inv'
<1> USE ConditionVariableConstants
    DEF Inv, Wait, Return, Goto, variable, entries, threads, locals, ghosts
<1>1. Types'
  BY DEF Types, WaiterLabels, Before, Out
<1>2. Locks'
  BY DEF Locks, Types
<1>3. Counted'
  BY DEF Counted, Pending, Types, Acknowledged, Locks, NotifierInv, Out,
     Before, Self, Removing, Notifying
<1>4. Unpublished'
  BY DEF Unpublished, Types, Locks, NotifierInv
<1>5. ASSUME NEW u \in Waiters PROVE WaiterInv(u)'
  BY DEF WaiterInv, NotifierInv, Types, Locks, Out, Before, Self, Removing,
     Notifying, Listed, WorksOn, Acknowledged, NotifyResults, EntryStatuses,
     WaitStatuses, B_OK, B_ENTRY_NOT_FOUND, B_TIMED_OUT, B_WOULD_BLOCK,
     STATUS_ADDED, STATUS_WAITING, Blocked
<1>6. ASSUME NEW m \in Notifiers PROVE NotifierInv(m)'
  BY DEF NotifierInv, WaiterInv, WorksOn, Types, Locks, Out, Before, Self,
     Removing, Notifying, Listed, Acknowledged, NotifyResults, EntryStatuses,
     WaitStatuses, B_OK, B_ENTRY_NOT_FOUND, B_TIMED_OUT, B_WOULD_BLOCK,
     STATUS_ADDED, STATUS_WAITING, Blocked
<1> QED
  BY <1>1, <1>2, <1>3, <1>4, <1>5, <1>6 DEF Inv

(* A wait without a timeout: the entry is removed again.                   *)
LEMMA StepLeave ==
  ASSUME Inv, NEW t \in Waiters, Leave(t)
  PROVE  Inv'
<1> USE ConditionVariableConstants
    DEF Inv, Leave, Goto, variable, entries, threads, locals, ghosts
<1>1. Types'
  BY DEF Types, WaiterLabels, Before, WaitStatuses
<1>2. Locks'
  BY DEF Locks, Types
<1>3. Counted'
  BY DEF Counted, Pending, Types, Acknowledged, Locks, NotifierInv, Out,
     Before, Self, Removing, Notifying
<1>4. Unpublished'
  BY DEF Unpublished, Types, Locks, NotifierInv
<1>5. ASSUME NEW u \in Waiters PROVE WaiterInv(u)'
  BY DEF WaiterInv, NotifierInv, Types, Locks, Out, Before, Self, Removing,
     Notifying, Listed, WorksOn, Acknowledged, NotifyResults, EntryStatuses,
     WaitStatuses, B_OK, B_ENTRY_NOT_FOUND, B_TIMED_OUT, B_WOULD_BLOCK,
     STATUS_ADDED, STATUS_WAITING, Blocked
<1>6. ASSUME NEW m \in Notifiers PROVE NotifierInv(m)'
  BY DEF NotifierInv, WaiterInv, WorksOn, Types, Locks, Out, Before, Self,
     Removing, Notifying, Listed, Acknowledged, NotifyResults, EntryStatuses,
     WaitStatuses, B_OK, B_ENTRY_NOT_FOUND, B_TIMED_OUT, B_WOULD_BLOCK,
     STATUS_ADDED, STATUS_WAITING, Blocked
<1> QED
  BY <1>1, <1>2, <1>3, <1>4, <1>5, <1>6 DEF Inv

(* Under its scheduler_lock the thread either sees a result or may sleep.  *)
LEMMA StepPrepareToBlock ==
  ASSUME Inv, NEW t \in Waiters, PrepareToBlock(t)
  PROVE  Inv'
<1> USE ConditionVariableConstants
    DEF Inv, PrepareToBlock, Return, AlreadyNotified, thread_prepare_to_block,
        Goto, variable, entries, threads, locals, ghosts
<1>1. Types'
  <2>1. /\ pc' \in [Waiters \cup Notifiers -> WaiterLabels \cup NotifierLabels]
        /\ \A u \in Waiters : pc'[u] \in WaiterLabels
        /\ \A m \in Notifiers : pc'[m] \in NotifierLabels
    BY DEF Types, WaiterLabels, Before, Out
  <2>2. /\ fWaitStatus' \in [Waiters -> EntryStatuses]
        /\ wait' \in [Waiters -> WaitStatuses]
        /\ told' \in [Waiters -> WaitStatuses \cup EntryStatuses]
    BY DEF Types, EntryStatuses, WaitStatuses
  <2> QED
    BY <2>1, <2>2 DEF Types
<1>2. Locks'
  BY DEF Locks, Types
<1>3. Counted'
  BY DEF Counted, Pending, Types, Acknowledged, Locks, NotifierInv, Out,
     Before, Self, Removing, Notifying
<1>4. Unpublished'
  BY DEF Unpublished, Types, Locks, NotifierInv
<1>5. ASSUME NEW u \in Waiters PROVE WaiterInv(u)'
  BY DEF WaiterInv, NotifierInv, Types, Locks, Out, Before, Self, Removing,
     Notifying, Listed, WorksOn, Acknowledged, NotifyResults, EntryStatuses,
     WaitStatuses, B_OK, B_ENTRY_NOT_FOUND, B_TIMED_OUT, B_WOULD_BLOCK,
     STATUS_ADDED, STATUS_WAITING, Blocked
<1>6. ASSUME NEW m \in Notifiers PROVE NotifierInv(m)'
  BY DEF NotifierInv, WaiterInv, WorksOn, Types, Locks, Out, Before, Self,
     Removing, Notifying, Listed, Acknowledged, NotifyResults, EntryStatuses,
     WaitStatuses, B_OK, B_ENTRY_NOT_FOUND, B_TIMED_OUT, B_WOULD_BLOCK,
     STATUS_ADDED, STATUS_WAITING, Blocked
<1> QED
  BY <1>1, <1>2, <1>3, <1>4, <1>5, <1>6 DEF Inv

(* The thread goes to sleep, unless it was unblocked meanwhile.            *)
LEMMA StepBlock ==
  ASSUME Inv, NEW t \in Waiters, Block(t)
  PROVE  Inv'
<1> USE ConditionVariableConstants
    DEF Inv, Block, thread_is_blocked, Goto, variable, entries, threads,
        locals, ghosts
<1>1. Types'
  <2>1. /\ pc' \in [Waiters \cup Notifiers -> WaiterLabels \cup NotifierLabels]
        /\ \A u \in Waiters : pc'[u] \in WaiterLabels
        /\ \A m \in Notifiers : pc'[m] \in NotifierLabels
    BY DEF Types, WaiterLabels, Before
  <2>2. asleep' \in [Waiters -> BOOLEAN]
    BY DEF Types
  <2> QED
    BY <2>1, <2>2 DEF Types
<1>2. Locks'
  BY DEF Locks, Types
<1>3. Counted'
  BY DEF Counted, Pending, Types, Acknowledged, Locks, NotifierInv, Out,
     Before, Self, Removing, Notifying
<1>4. Unpublished'
  BY DEF Unpublished, Types, Locks, NotifierInv
<1>5. ASSUME NEW u \in Waiters PROVE WaiterInv(u)'
  BY DEF WaiterInv, NotifierInv, Types, Locks, Out, Before, Self, Removing,
     Notifying, Listed, WorksOn, Acknowledged, NotifyResults, EntryStatuses,
     WaitStatuses, B_OK, B_ENTRY_NOT_FOUND, B_TIMED_OUT, B_WOULD_BLOCK,
     STATUS_ADDED, STATUS_WAITING, Blocked
<1>6. ASSUME NEW m \in Notifiers PROVE NotifierInv(m)'
  BY DEF NotifierInv, WaiterInv, WorksOn, Types, Locks, Out, Before, Self,
     Removing, Notifying, Listed, Acknowledged, NotifyResults, EntryStatuses,
     WaitStatuses, B_OK, B_ENTRY_NOT_FOUND, B_TIMED_OUT, B_WOULD_BLOCK,
     STATUS_ADDED, STATUS_WAITING, Blocked
<1> QED
  BY <1>1, <1>2, <1>3, <1>4, <1>5, <1>6 DEF Inv

(* A timeout or a signal does not look at entry or variable.               *)
LEMMA StepInterrupt ==
  ASSUME Inv, NEW t \in Waiters, Interrupt(t)
  PROVE  Inv'
<1> USE ConditionVariableConstants
    DEF Inv, Interrupt, thread_unblock, thread_is_blocked,
        thread_block_timeout, Goto, variable, entries, threads, locals, ghosts
<1>1. Types'
  BY DEF Types, WaitStatuses
<1>2. Locks'
  BY DEF Locks, Types
<1>3. Counted'
  BY DEF Counted, Pending, Types, Acknowledged, Locks, NotifierInv, Out,
     Before, Self, Removing, Notifying
<1>4. Unpublished'
  BY DEF Unpublished, Types, Locks, NotifierInv
<1>5. ASSUME NEW u \in Waiters PROVE WaiterInv(u)'
  BY DEF WaiterInv, NotifierInv, Types, Locks, Out, Before, Self, Removing,
     Notifying, Listed, WorksOn, Acknowledged, NotifyResults, EntryStatuses,
     WaitStatuses, B_OK, B_ENTRY_NOT_FOUND, B_TIMED_OUT, B_WOULD_BLOCK,
     STATUS_ADDED, STATUS_WAITING, Blocked
<1>6. ASSUME NEW m \in Notifiers PROVE NotifierInv(m)'
  BY DEF NotifierInv, WaiterInv, WorksOn, Types, Locks, Out, Before, Self,
     Removing, Notifying, Listed, Acknowledged, NotifyResults, EntryStatuses,
     WaitStatuses, B_OK, B_ENTRY_NOT_FOUND, B_TIMED_OUT, B_WOULD_BLOCK,
     STATUS_ADDED, STATUS_WAITING, Blocked
<1> QED
  BY <1>1, <1>2, <1>3, <1>4, <1>5, <1>6 DEF Inv

(* A thread that was woken still has its entry to remove.                  *)
LEMMA StepWakeUp ==
  ASSUME Inv, NEW t \in Waiters, WakeUp(t)
  PROVE  Inv'
<1> USE ConditionVariableConstants
    DEF Inv, WakeUp, Goto, variable, entries, threads, locals, ghosts
<1>1. Types'
  BY DEF Types, WaiterLabels, Before
<1>2. Locks'
  BY DEF Locks, Types
<1>3. Counted'
  BY DEF Counted, Pending, Types, Acknowledged, Locks, NotifierInv, Out,
     Before, Self, Removing, Notifying
<1>4. Unpublished'
  BY DEF Unpublished, Types, Locks, NotifierInv
<1>5. ASSUME NEW u \in Waiters PROVE WaiterInv(u)'
  BY DEF WaiterInv, NotifierInv, Types, Locks, Out, Before, Self, Removing,
     Notifying, Listed, WorksOn, Acknowledged, NotifyResults, EntryStatuses,
     WaitStatuses, B_OK, B_ENTRY_NOT_FOUND, B_TIMED_OUT, B_WOULD_BLOCK,
     STATUS_ADDED, STATUS_WAITING, Blocked
<1>6. ASSUME NEW m \in Notifiers PROVE NotifierInv(m)'
  BY DEF NotifierInv, WaiterInv, WorksOn, Types, Locks, Out, Before, Self,
     Removing, Notifying, Listed, Acknowledged, NotifyResults, EntryStatuses,
     WaitStatuses, B_OK, B_ENTRY_NOT_FOUND, B_TIMED_OUT, B_WOULD_BLOCK,
     STATUS_ADDED, STATUS_WAITING, Blocked
<1> QED
  BY <1>1, <1>2, <1>3, <1>4, <1>5, <1>6 DEF Inv

(* The swap of fThread decides who removes the entry.                      *)
LEMMA StepRemoveFromVariable ==
  ASSUME Inv, NEW t \in Waiters, RemoveFromVariable(t)
  PROVE  Inv'
<1> USE ConditionVariableConstants
    DEF Inv, RemoveFromVariable, Goto, variable, entries, threads, locals,
        ghosts
<1>1. Types'
  BY DEF Types, WaiterLabels, Self
<1>2. Locks'
  BY DEF Locks, Types
<1>3. Counted'
  BY DEF Counted, Pending, Types, Acknowledged, Locks, NotifierInv, Out,
     Before, Self, Removing, Notifying
<1>4. Unpublished'
  BY DEF Unpublished, Types, Locks, NotifierInv
<1>5. ASSUME NEW u \in Waiters PROVE WaiterInv(u)'
  BY DEF WaiterInv, NotifierInv, Types, Locks, Out, Before, Self, Removing,
     Notifying, Listed, WorksOn, Acknowledged, NotifyResults, EntryStatuses,
     WaitStatuses, B_OK, B_ENTRY_NOT_FOUND, B_TIMED_OUT, B_WOULD_BLOCK,
     STATUS_ADDED, STATUS_WAITING, Blocked
<1>6. ASSUME NEW m \in Notifiers PROVE NotifierInv(m)'
  BY DEF NotifierInv, WaiterInv, WorksOn, Types, Locks, Out, Before, Self,
     Removing, Notifying, Listed, Acknowledged, NotifyResults, EntryStatuses,
     WaitStatuses, B_OK, B_ENTRY_NOT_FOUND, B_TIMED_OUT, B_WOULD_BLOCK,
     STATUS_ADDED, STATUS_WAITING, Blocked
<1> QED
  BY <1>1, <1>2, <1>3, <1>4, <1>5, <1>6 DEF Inv

(* The notifier is through with an entry when fVariable is unset.          *)
LEMMA StepRemoveSpin ==
  ASSUME Inv, NEW t \in Waiters, RemoveSpin(t)
  PROVE  Inv'
<1> USE ConditionVariableConstants
    DEF Inv, RemoveSpin, Return, NotifierIsThrough, StatusToReturn, Goto,
        variable, entries, threads, locals, ghosts
<1>1. Types'
  BY DEF Types, WaiterLabels, Out
<1>2. Locks'
  BY DEF Locks, Types
<1>3. Counted'
  BY DEF Counted, Pending, Types, Acknowledged, Locks, NotifierInv, Out,
     Before, Self, Removing, Notifying
<1>4. Unpublished'
  BY DEF Unpublished, Types, Locks, NotifierInv
<1>5. ASSUME NEW u \in Waiters PROVE WaiterInv(u)'
  BY DEF WaiterInv, NotifierInv, Types, Locks, Out, Before, Self, Removing,
     Notifying, Listed, WorksOn, Acknowledged, NotifyResults, EntryStatuses,
     WaitStatuses, B_OK, B_ENTRY_NOT_FOUND, B_TIMED_OUT, B_WOULD_BLOCK,
     STATUS_ADDED, STATUS_WAITING, Blocked
<1>6. ASSUME NEW m \in Notifiers PROVE NotifierInv(m)'
  BY DEF NotifierInv, WaiterInv, WorksOn, Types, Locks, Out, Before, Self,
     Removing, Notifying, Listed, Acknowledged, NotifyResults, EntryStatuses,
     WaitStatuses, B_OK, B_ENTRY_NOT_FOUND, B_TIMED_OUT, B_WOULD_BLOCK,
     STATUS_ADDED, STATUS_WAITING, Blocked
<1> QED
  BY <1>1, <1>2, <1>3, <1>4, <1>5, <1>6 DEF Inv

(* fVariable is unset only if a notifier awaits the acknowledgement.       *)
LEMMA StepRemoveCheck ==
  ASSUME Inv, NEW t \in Waiters, RemoveCheck(t)
  PROVE  Inv'
<1> USE ConditionVariableConstants
    DEF Inv, RemoveCheck, Goto, variable, entries, threads, locals, ghosts
<1>1. Types'
  BY DEF Types, WaiterLabels, Self
<1>2. Locks'
  BY DEF Locks, Types
<1>3. Counted'
  BY DEF Counted, Pending, Types, Acknowledged, Locks, NotifierInv, Out,
     Before, Self, Removing, Notifying
<1>4. Unpublished'
  BY DEF Unpublished, Types, Locks, NotifierInv
<1>5. ASSUME NEW u \in Waiters PROVE WaiterInv(u)'
  BY DEF WaiterInv, NotifierInv, Types, Locks, Out, Before, Self, Removing,
     Notifying, Listed, WorksOn, Acknowledged, NotifyResults, EntryStatuses,
     WaitStatuses, B_OK, B_ENTRY_NOT_FOUND, B_TIMED_OUT, B_WOULD_BLOCK,
     STATUS_ADDED, STATUS_WAITING, Blocked
<1>6. ASSUME NEW m \in Notifiers PROVE NotifierInv(m)'
  BY DEF NotifierInv, WaiterInv, WorksOn, Types, Locks, Out, Before, Self,
     Removing, Notifying, Listed, Acknowledged, NotifyResults, EntryStatuses,
     WaitStatuses, B_OK, B_ENTRY_NOT_FOUND, B_TIMED_OUT, B_WOULD_BLOCK,
     STATUS_ADDED, STATUS_WAITING, Blocked
<1> QED
  BY <1>1, <1>2, <1>3, <1>4, <1>5, <1>6 DEF Inv

(* With fLock, no notifier works on an entry.                              *)
LEMMA StepRemoveTry ==
  ASSUME Inv, NEW t \in Waiters, RemoveTry(t)
  PROVE  Inv'
<1> USE ConditionVariableConstants
    DEF Inv, RemoveTry, Goto, variable, entries, threads, locals, ghosts
<1>1. Types'
  BY DEF Types, WaiterLabels, Self
<1>2. Locks'
  BY DEF Locks, Types
<1>3. Counted'
  BY DEF Counted, Pending, Types, Acknowledged, Locks, NotifierInv, Out,
     Before, Self, Removing, Notifying
<1>4. Unpublished'
  BY DEF Unpublished, Types, Locks, NotifierInv
<1>5. ASSUME NEW u \in Waiters PROVE WaiterInv(u)'
  BY DEF WaiterInv, NotifierInv, Types, Locks, Out, Before, Self, Removing,
     Notifying, Listed, WorksOn, Acknowledged, NotifyResults, EntryStatuses,
     WaitStatuses, B_OK, B_ENTRY_NOT_FOUND, B_TIMED_OUT, B_WOULD_BLOCK,
     STATUS_ADDED, STATUS_WAITING, Blocked
<1>6. ASSUME NEW m \in Notifiers PROVE NotifierInv(m)'
  BY DEF NotifierInv, WaiterInv, WorksOn, Types, Locks, Out, Before, Self,
     Removing, Notifying, Listed, Acknowledged, NotifyResults, EntryStatuses,
     WaitStatuses, B_OK, B_ENTRY_NOT_FOUND, B_TIMED_OUT, B_WOULD_BLOCK,
     STATUS_ADDED, STATUS_WAITING, Blocked
<1> QED
  BY <1>1, <1>2, <1>3, <1>4, <1>5, <1>6 DEF Inv

(* The acknowledgement is the one the notifier awaits.                     *)
LEMMA StepRemoveAcknowledge ==
  ASSUME Inv, NEW t \in Waiters, RemoveAcknowledge(t)
  PROVE  Inv'
<1> USE ConditionVariableConstants
    DEF Inv, RemoveAcknowledge, Return, CountAfterAck, StatusToReturn, Goto,
        variable, entries, threads, locals, ghosts
<1>1. Types'
  BY DEF Types, WaiterLabels, Out
<1>2. Locks'
  BY DEF Locks, Types
<1>3. Counted'
  <2>1. PICK n \in Notifiers : entry = t /\ pc[n] = "notify_await" /\ ~Acknowledged
    BY DEF WaiterInv, NotifierInv, WorksOn, Self, Listed
  <2>2. Pending /\ ~Pending'
    BY <2>1 DEF Pending, Types, Acknowledged, Locks, NotifierInv, Removing,
       Notifying
  <2> QED
    BY <2>2, LenProperties DEF Counted, Types
<1>4. Unpublished'
  BY DEF Unpublished, Types, Locks, NotifierInv
<1>5. ASSUME NEW u \in Waiters PROVE WaiterInv(u)'
  BY DEF WaiterInv, NotifierInv, Types, Locks, Out, Before, Self, Removing,
     Notifying, Listed, WorksOn, Acknowledged, NotifyResults, EntryStatuses,
     WaitStatuses, B_OK, B_ENTRY_NOT_FOUND, B_TIMED_OUT, B_WOULD_BLOCK,
     STATUS_ADDED, STATUS_WAITING, Blocked
<1>6. ASSUME NEW m \in Notifiers PROVE NotifierInv(m)'
  BY DEF NotifierInv, WaiterInv, WorksOn, Types, Locks, Out, Before, Self,
     Removing, Notifying, Listed, Acknowledged, NotifyResults, EntryStatuses,
     WaitStatuses, B_OK, B_ENTRY_NOT_FOUND, B_TIMED_OUT, B_WOULD_BLOCK,
     STATUS_ADDED, STATUS_WAITING, Blocked
<1> QED
  BY <1>1, <1>2, <1>3, <1>4, <1>5, <1>6 DEF Inv

(* A waiter removes its own entry.                                         *)
LEMMA StepRemoveLocked ==
  ASSUME Inv, NEW t \in Waiters, RemoveLocked(t)
  PROVE  Inv'
<1> USE ConditionVariableConstants
    DEF Inv, RemoveLocked, Return, StatusToReturn, Goto, variable, entries,
        threads, locals, ghosts
<1>0. /\ fEntries' \in Seq(Waiters) /\ IsInjective(fEntries')
      /\ Range(fEntries') = Range(fEntries) \ {t}
      /\ Len(fEntries') = Len(fEntries) - 1
      /\ Len(fEntries) \in Nat
  BY RemoveFirstMembers, LenProperties DEF Types, WaiterInv, Listed
<1>1. Types'
  BY <1>0 DEF Types, WaiterLabels, Out
<1>2. Locks'
  BY DEF Locks, Types
<1>3. Counted'
  BY <1>0 DEF Counted, Pending, Types, Acknowledged, Locks, NotifierInv, Out,
     Before, Self, Removing, Notifying
<1>4. Unpublished'
  BY <1>0 DEF Unpublished, Types, Locks, NotifierInv, Listed, WaiterInv
<1>5. ASSUME NEW u \in Waiters PROVE WaiterInv(u)'
  BY <1>0 DEF WaiterInv, NotifierInv, Types, Locks, Out, Before, Self,
     Removing, Notifying, Listed, WorksOn, Acknowledged, NotifyResults,
     EntryStatuses, WaitStatuses, B_OK, B_ENTRY_NOT_FOUND, B_TIMED_OUT,
     B_WOULD_BLOCK, STATUS_ADDED, STATUS_WAITING, Blocked
<1>6. ASSUME NEW m \in Notifiers PROVE NotifierInv(m)'
  BY <1>0 DEF NotifierInv, WaiterInv, WorksOn, Types, Locks, Out, Before,
     Self, Removing, Notifying, Listed, Acknowledged, NotifyResults,
     EntryStatuses, WaitStatuses, B_OK, B_ENTRY_NOT_FOUND, B_TIMED_OUT,
     B_WOULD_BLOCK, STATUS_ADDED, STATUS_WAITING, Blocked
<1> QED
  BY <1>1, <1>2, <1>3, <1>4, <1>5, <1>6 DEF Inv

(* The entry is gone.                                                      *)
LEMMA StepDone ==
  ASSUME Inv, NEW t \in Waiters, Done(t)
  PROVE  Inv'
<1> USE ConditionVariableConstants
    DEF Inv, Done, thread_prepare_to_block, Goto, variable, entries, threads,
        locals, ghosts
<1>1. Types'
  BY DEF Types, WaiterLabels, Out, EntryStatuses, WaitStatuses
<1>2. Locks'
  BY DEF Locks, Types
<1>3. Counted'
  BY DEF Counted, Pending, Types, Acknowledged, Locks, NotifierInv, Out,
     Before, Self, Removing, Notifying
<1>4. Unpublished'
  BY DEF Unpublished, Types, Locks, NotifierInv
<1>5. ASSUME NEW u \in Waiters PROVE WaiterInv(u)'
  BY DEF WaiterInv, NotifierInv, Types, Locks, Out, Before, Self, Removing,
     Notifying, Listed, WorksOn, Acknowledged, NotifyResults, EntryStatuses,
     WaitStatuses, B_OK, B_ENTRY_NOT_FOUND, B_TIMED_OUT, B_WOULD_BLOCK,
     STATUS_ADDED, STATUS_WAITING, Blocked
<1>6. ASSUME NEW m \in Notifiers PROVE NotifierInv(m)'
  BY DEF NotifierInv, WaiterInv, WorksOn, Types, Locks, Out, Before, Self,
     Removing, Notifying, Listed, Acknowledged, NotifyResults, EntryStatuses,
     WaitStatuses, B_OK, B_ENTRY_NOT_FOUND, B_TIMED_OUT, B_WOULD_BLOCK,
     STATUS_ADDED, STATUS_WAITING, Blocked
<1> QED
  BY <1>1, <1>2, <1>3, <1>4, <1>5, <1>6 DEF Inv

(* What the thread waited for meanwhile is none of our business.           *)
LEMMA StepUnblockedElsewhere ==
  ASSUME Inv, NEW t \in Waiters, UnblockedElsewhere(t)
  PROVE  Inv'
<1> USE ConditionVariableConstants
    DEF Inv, UnblockedElsewhere, thread_unblock, Goto, variable, entries,
        threads, locals, ghosts
<1>1. Types'
  BY DEF Types, WaiterLabels, Out, WaitStatuses
<1>2. Locks'
  BY DEF Locks, Types
<1>3. Counted'
  BY DEF Counted, Pending, Types, Acknowledged, Locks, NotifierInv, Out,
     Before, Self, Removing, Notifying
<1>4. Unpublished'
  BY DEF Unpublished, Types, Locks, NotifierInv
<1>5. ASSUME NEW u \in Waiters PROVE WaiterInv(u)'
  BY DEF WaiterInv, NotifierInv, Types, Locks, Out, Before, Self, Removing,
     Notifying, Listed, WorksOn, Acknowledged, NotifyResults, EntryStatuses,
     WaitStatuses, B_OK, B_ENTRY_NOT_FOUND, B_TIMED_OUT, B_WOULD_BLOCK,
     STATUS_ADDED, STATUS_WAITING, Blocked
<1>6. ASSUME NEW m \in Notifiers PROVE NotifierInv(m)'
  BY DEF NotifierInv, WaiterInv, WorksOn, Types, Locks, Out, Before, Self,
     Removing, Notifying, Listed, Acknowledged, NotifyResults, EntryStatuses,
     WaitStatuses, B_OK, B_ENTRY_NOT_FOUND, B_TIMED_OUT, B_WOULD_BLOCK,
     STATUS_ADDED, STATUS_WAITING, Blocked
<1> QED
  BY <1>1, <1>2, <1>3, <1>4, <1>5, <1>6 DEF Inv

(* A notifier acquires fLock.                                              *)
LEMMA StepNotify ==
  ASSUME Inv, NEW n \in Notifiers, NEW everyone \in BOOLEAN, Notify(n, everyone)
  PROVE  Inv'
<1> USE ConditionVariableConstants
    DEF Inv, Notify, Goto, variable, entries, threads, locals, ghosts
<1>1. Types'
  BY DEF Types, NotifierLabels, NotifyResults
<1>2. Locks'
  BY DEF Locks, Types
<1>3. Counted'
  BY DEF Counted, Pending, Types, Acknowledged, Locks, NotifierInv, Notifying
<1>4. Unpublished'
  BY DEF Unpublished, Types, Locks, NotifierInv
<1>5. ASSUME NEW u \in Waiters PROVE WaiterInv(u)'
  BY DEF WaiterInv, Types, Locks, Listed, WorksOn, Acknowledged
<1>6. ASSUME NEW m \in Notifiers PROVE NotifierInv(m)'
  BY DEF NotifierInv, Types, Locks, Removing, Notifying, Listed, Acknowledged
<1> QED
  BY <1>1, <1>2, <1>3, <1>4, <1>5, <1>6 DEF Inv

(* Unpublish() is a NotifyAll() after which nobody is added.               *)
LEMMA StepUnpublish ==
  ASSUME Inv, NEW n \in Notifiers, Unpublish(n)
  PROVE  Inv'
<1> USE ConditionVariableConstants
    DEF Inv, Unpublish, Goto, variable, entries, threads, locals, ghosts
<1>1. Types'
  BY DEF Types, NotifierLabels, NotifyResults
<1>2. Locks'
  BY DEF Locks, Types
<1>3. Counted'
  BY DEF Counted, Pending, Types, Acknowledged, Locks, NotifierInv, Out,
     Before, Self, Removing, Notifying
<1>4. Unpublished'
  BY DEF Unpublished, Types, Locks, NotifierInv
<1>5. ASSUME NEW u \in Waiters PROVE WaiterInv(u)'
  BY DEF WaiterInv, NotifierInv, Types, Locks, Out, Before, Self, Removing,
     Notifying, Listed, WorksOn, Acknowledged, NotifyResults, EntryStatuses,
     WaitStatuses, B_OK, B_ENTRY_NOT_FOUND, B_TIMED_OUT, B_WOULD_BLOCK,
     STATUS_ADDED, STATUS_WAITING, Blocked
<1>6. ASSUME NEW m \in Notifiers PROVE NotifierInv(m)'
  BY DEF NotifierInv, WaiterInv, WorksOn, Types, Locks, Out, Before, Self,
     Removing, Notifying, Listed, Acknowledged, NotifyResults, EntryStatuses,
     WaitStatuses, B_OK, B_ENTRY_NOT_FOUND, B_TIMED_OUT, B_WOULD_BLOCK,
     STATUS_ADDED, STATUS_WAITING, Blocked
<1> QED
  BY <1>1, <1>2, <1>3, <1>4, <1>5, <1>6 DEF Inv

(* When a variable is published again, nothing is left of the old one.     *)
LEMMA StepPublish ==
  ASSUME Inv, NEW n \in Notifiers, Publish(n)
  PROVE  Inv'
<1> USE ConditionVariableConstants
    DEF Inv, Publish, Goto, variable, entries, threads, locals, ghosts
<1>0. /\ fEntries = <<>> /\ fEntriesCount = 0 /\ Range(fEntries) = {}
      /\ fLock = Nobody
  <2>1. fEntries = <<>>
    BY DEF Unpublished
  <2>2. Len(fEntries) = 0 /\ Range(fEntries) = {}
    BY <2>1 DEF Range
  <2>3. fEntriesCount = 0
    BY <2>2 DEF Counted, Pending, Notifying
  <2>4. ASSUME NEW t \in Waiters PROVE fLock # t
    BY <2>2 DEF Locks, WaiterInv, Listed
  <2> QED
    BY <2>1, <2>2, <2>3, <2>4 DEF Locks, Types
<1>1. Types'
  BY <1>0 DEF Types
<1>2. Locks'
  BY <1>0 DEF Locks, Types
<1>3. Counted'
  BY <1>0 DEF Counted, Pending, Types, Acknowledged, Locks, NotifierInv, Out,
     Before, Self, Removing, Notifying
<1>4. Unpublished'
  BY <1>0 DEF Unpublished, Types, Locks, NotifierInv
<1>5. ASSUME NEW u \in Waiters PROVE WaiterInv(u)'
  BY <1>0 DEF WaiterInv, NotifierInv, Types, Locks, Out, Before, Self,
     Removing, Notifying, Listed, WorksOn, Acknowledged, NotifyResults,
     EntryStatuses, WaitStatuses, B_OK, B_ENTRY_NOT_FOUND, B_TIMED_OUT,
     B_WOULD_BLOCK, STATUS_ADDED, STATUS_WAITING, Blocked
<1>6. ASSUME NEW m \in Notifiers PROVE NotifierInv(m)'
  BY <1>0 DEF NotifierInv, WaiterInv, WorksOn, Types, Locks, Out, Before,
     Self, Removing, Notifying, Listed, Acknowledged, NotifyResults,
     EntryStatuses, WaitStatuses, B_OK, B_ENTRY_NOT_FOUND, B_TIMED_OUT,
     B_WOULD_BLOCK, STATUS_ADDED, STATUS_WAITING, Blocked
<1> QED
  BY <1>1, <1>2, <1>3, <1>4, <1>5, <1>6 DEF Inv

(* The locals of _NotifyLocked() after its end                             *)
LEMMA NotifyEndTypes ==
  ASSUME NEW n, NotifyEnd(n)
  PROVE  /\ all' \in BOOLEAN /\ result' \in NotifyResults
         /\ entry' \in Waiters \cup {Nobody}
         /\ lastWaitStatus' \in EntryStatuses /\ removedCount' \in Int
         /\ fLock' \in Waiters \cup Notifiers \cup {Nobody}
<1>1. all' \in BOOLEAN
  BY DEF NotifyEnd
<1>2. result' \in NotifyResults
  BY DEF NotifyEnd, NotifyResults
<1>3. entry' \in Waiters \cup {Nobody}
  BY DEF NotifyEnd
<1>4. lastWaitStatus' \in EntryStatuses /\ removedCount' \in Int
  BY DEF NotifyEnd, EntryStatuses
<1>5. fLock' \in Waiters \cup Notifiers \cup {Nobody}
  BY DEF NotifyEnd
<1> QED
  BY <1>1, <1>2, <1>3, <1>4, <1>5

(* The first entry is taken off the list, or there is none left.           *)
LEMMA StepNotifyNext ==
  ASSUME Inv, NEW n \in Notifiers, NotifyNext(n)
  PROVE  Inv'
<1> USE ConditionVariableConstants
    DEF Inv, NotifyNext, NotifyEnd, Goto, variable, entries, threads, locals,
        ghosts
<1>0. fEntries # <<>> =>
        /\ Tail(fEntries) \in Seq(Waiters) /\ IsInjective(Tail(fEntries))
        /\ Head(fEntries) \in Waiters
        /\ Head(fEntries) \in Range(fEntries)
        /\ Range(fEntries) = Range(Tail(fEntries)) \cup {Head(fEntries)}
        /\ Head(fEntries) \notin Range(Tail(fEntries))
        /\ Len(Tail(fEntries)) = Len(fEntries) - 1
        /\ Len(fEntries) \in Nat \ {0}
  BY TailMembers, HeadTailProperties, EmptySeq DEF Types
<1>1. CASE fEntries = <<>>
  <2> USE <1>1
  <2>1. Types'
    <3>1. /\ pc' \in [Waiters \cup Notifiers -> WaiterLabels \cup NotifierLabels]
          /\ \A u \in Waiters : pc'[u] \in WaiterLabels
          /\ \A m \in Notifiers : pc'[m] \in NotifierLabels
      BY DEF Types, NotifierLabels
    <3>2. NotifyEnd(n)
      OBVIOUS
    <3> QED
      BY <3>1, <3>2, NotifyEndTypes DEF Types
  <2>2. Locks'
    BY DEF Locks, Types
  <2>3. Counted'
    BY DEF Counted, Pending, Types, Locks, Notifying
  <2>4. Unpublished'
    BY DEF Unpublished
  <2>5. ASSUME NEW u \in Waiters PROVE WaiterInv(u)'
    BY DEF WaiterInv, Types, Locks, Listed, WorksOn
  <2>6. ASSUME NEW m \in Notifiers PROVE NotifierInv(m)'
    BY DEF NotifierInv, Types, Locks, Removing, Notifying
  <2> QED
    BY <2>1, <2>2, <2>3, <2>4, <2>5, <2>6
<1>2. CASE fEntries # <<>>
  <2> DEFINE e == Head(fEntries)
  <2>0. /\ fEntries' = Tail(fEntries) /\ entry' = e
        /\ fThread' = [fThread EXCEPT ![e] = FALSE]
        /\ UNCHANGED <<fLock, all, result, lastWaitStatus, fEntriesCount, published,
                       fVariable, fWaitStatus, wait, asleep, scheduler_lock, told>>
        /\ \/ /\ fThread[e] /\ taken' = [taken EXCEPT ![e] = TRUE]
              /\ pc' = [pc EXCEPT ![n] = "notify_status"]
              /\ removedCount' = removedCount
           \/ /\ ~fThread[e] /\ removedCount' = fEntriesCount - 1
              /\ pc' = [pc EXCEPT ![n] = "notify_clear"]
              /\ taken' = taken
    BY <1>2 DEF Types
  <2>00. /\ pc[n] = "notify" /\ fLock = n /\ n \notin Waiters
         /\ \A m \in Notifiers : m # n => pc[m] = "idle"
    BY DEF Locks
  <2>e. /\ e \in Waiters /\ Listed(e) /\ fVariable[e] /\ ~taken[e]
        /\ fWaitStatus[e] \notin NotifyResults
        /\ fThread[e] => pc[e] \in Before
        /\ ~fThread[e] => pc[e] \in {"remove_check", "remove_try"}
    BY <1>0, <1>2, <2>00 DEF WaiterInv, Types, WaiterLabels, Out, Before,
       Self, Listed, Locks
  <2>l. \A u : Listed(u)' <=> Listed(u) /\ u # e
    BY <1>0, <1>2, <2>0 DEF Listed
  <2> HIDE DEF NotifyNext
  <2> USE <1>0, <1>2, <2>0, <2>00, <2>e, <2>l
  <2> HIDE DEF e
  <2>1. Types'
    <3>1. /\ pc' \in [Waiters \cup Notifiers -> WaiterLabels \cup NotifierLabels]
          /\ \A u \in Waiters : pc'[u] \in WaiterLabels
          /\ \A m \in Notifiers : pc'[m] \in NotifierLabels
      BY DEF Types, NotifierLabels, Notifying, Removing
    <3>2. /\ fThread' \in [Waiters -> BOOLEAN] /\ taken' \in [Waiters -> BOOLEAN]
          /\ removedCount' \in Int
          /\ entry' \in Waiters \cup {Nobody}
      <4>1. CASE fThread[e]
        BY <4>1 DEF Types
      <4>2. CASE ~fThread[e]
        BY <4>2 DEF Types
      <4> QED
        BY <4>1, <4>2
    <3> QED
      BY <3>1, <3>2 DEF Types, e
  <2>2. Locks'
    <3>1. /\ \A m \in Notifiers : fLock' = m <=> pc'[m] # "idle"
          /\ \A u \in Waiters : pc'[u] = pc[u] /\ fLock' # u
      BY DEF Types
    <3>2. ASSUME NEW u \in Waiters, NEW m \in Notifiers
          PROVE  /\ scheduler_lock'[u] # m
                 /\ pc'[m] \notin {"notify_unset", "notify_count"}
      BY DEF Locks, Types
    <3> QED
      BY <3>1, <3>2 DEF Locks
  <2>3. Counted'
    BY DEF Counted, Pending, Types, Acknowledged, Removing, Notifying, e
  <2>4. Unpublished'
    BY DEF Unpublished, Types
  <2>5. ASSUME NEW u \in Waiters PROVE WaiterInv(u)'
    <3>1. CASE u = e
      <4>1. CASE fThread[e]
        BY <3>1, <4>1 DEF WaiterInv, Types, Out, Before, Self, WorksOn
      <4>2. CASE ~fThread[e]
        BY <3>1, <4>2 DEF WaiterInv, Types, Out, Before, Self, WorksOn,
           Acknowledged
      <4> QED
        BY <4>1, <4>2
    <3>2. CASE u # e
      BY <3>2 DEF WaiterInv, Types, Out, Before, Self, WorksOn
    <3> QED
      BY <3>1, <3>2
  <2>6. ASSUME NEW m \in Notifiers PROVE NotifierInv(m)'
    <3>1. CASE m # n
      BY <3>1 DEF NotifierInv, Types, Removing, Notifying
    <3>2. CASE m = n
      <4>1. CASE fThread[e]
        BY <3>2, <4>1 DEF NotifierInv, Types, Removing, Notifying
      <4>2. CASE ~fThread[e]
        BY <3>2, <4>2 DEF NotifierInv, Types, Removing, Notifying, Acknowledged
      <4> QED
        BY <4>1, <4>2
    <3> QED
      BY <3>1, <3>2
  <2> QED
    BY <2>1, <2>2, <2>3, <2>4, <2>5, <2>6
<1> QED
  BY <1>1, <1>2

(* The entry is told to acknowledge its removal.                           *)
LEMMA StepNotifyClear ==
  ASSUME Inv, NEW n \in Notifiers, NotifyClear(n)
  PROVE  Inv'
<1> USE ConditionVariableConstants
    DEF Inv, NotifyClear, Goto, variable, entries, threads, locals, ghosts
<1>1. Types'
  BY DEF Types, NotifierLabels, Removing
<1>2. Locks'
  BY DEF Locks, Types
<1>3. Counted'
  BY DEF Counted, Pending, Types, Acknowledged, Locks, NotifierInv, Out,
     Before, Self, Removing, Notifying
<1>4. Unpublished'
  BY DEF Unpublished, Types, Locks, NotifierInv
<1>5. ASSUME NEW u \in Waiters PROVE WaiterInv(u)'
  BY DEF WaiterInv, NotifierInv, Types, Locks, Out, Before, Self, Removing,
     Notifying, Listed, WorksOn, Acknowledged, NotifyResults, EntryStatuses,
     WaitStatuses, B_OK, B_ENTRY_NOT_FOUND, B_TIMED_OUT, B_WOULD_BLOCK,
     STATUS_ADDED, STATUS_WAITING, Blocked
<1>6. ASSUME NEW m \in Notifiers PROVE NotifierInv(m)'
  BY DEF NotifierInv, WaiterInv, WorksOn, Types, Locks, Out, Before, Self,
     Removing, Notifying, Listed, Acknowledged, NotifyResults, EntryStatuses,
     WaitStatuses, B_OK, B_ENTRY_NOT_FOUND, B_TIMED_OUT, B_WOULD_BLOCK,
     STATUS_ADDED, STATUS_WAITING, Blocked
<1> QED
  BY <1>1, <1>2, <1>3, <1>4, <1>5, <1>6 DEF Inv

(* After the acknowledgement the notifier is through with the entry.       *)
LEMMA StepNotifyAwait ==
  ASSUME Inv, NEW n \in Notifiers, NotifyAwait(n)
  PROVE  Inv'
<1> USE ConditionVariableConstants
    DEF Inv, NotifyAwait, Goto, variable, entries, threads, locals, ghosts
<1>1. Types'
  BY DEF Types, NotifierLabels
<1>2. Locks'
  BY DEF Locks, Types
<1>3. Counted'
  BY DEF Counted, Pending, Types, Acknowledged, Locks, NotifierInv, Out,
     Before, Self, Removing, Notifying
<1>4. Unpublished'
  BY DEF Unpublished, Types, Locks, NotifierInv
<1>5. ASSUME NEW u \in Waiters PROVE WaiterInv(u)'
  BY DEF WaiterInv, NotifierInv, Types, Locks, Out, Before, Self, Removing,
     Notifying, Listed, WorksOn, Acknowledged, NotifyResults, EntryStatuses,
     WaitStatuses, B_OK, B_ENTRY_NOT_FOUND, B_TIMED_OUT, B_WOULD_BLOCK,
     STATUS_ADDED, STATUS_WAITING, Blocked
<1>6. ASSUME NEW m \in Notifiers PROVE NotifierInv(m)'
  BY DEF NotifierInv, WaiterInv, WorksOn, Types, Locks, Out, Before, Self,
     Removing, Notifying, Listed, Acknowledged, NotifyResults, EntryStatuses,
     WaitStatuses, B_OK, B_ENTRY_NOT_FOUND, B_TIMED_OUT, B_WOULD_BLOCK,
     STATUS_ADDED, STATUS_WAITING, Blocked
<1> QED
  BY <1>1, <1>2, <1>3, <1>4, <1>5, <1>6 DEF Inv

(* The result is stored while the thread cannot leave Wait().              *)
LEMMA StepNotifyStatus ==
  ASSUME Inv, NEW n \in Notifiers, NotifyStatus(n)
  PROVE  Inv'
<1> USE ConditionVariableConstants
    DEF Inv, NotifyStatus, UnblockEarly, thread_unblock, Goto, variable,
        entries, threads, locals, ghosts
<1>1. Types'
  <2>1. /\ pc' \in [Waiters \cup Notifiers -> WaiterLabels \cup NotifierLabels]
        /\ \A u \in Waiters : pc'[u] \in WaiterLabels
        /\ \A m \in Notifiers : pc'[m] \in NotifierLabels
    BY DEF Types, NotifierLabels, Notifying
  <2>2. /\ scheduler_lock' \in [Waiters -> Notifiers \cup {Nobody}]
        /\ fWaitStatus' \in [Waiters -> EntryStatuses]
        /\ lastWaitStatus' \in EntryStatuses
    BY DEF Types, EntryStatuses, NotifierInv, Notifying
  <2>3. wait' \in [Waiters -> WaitStatuses]
    BY DEF Types, WaitStatuses, NotifyResults
  <2> QED
    BY <2>1, <2>2, <2>3 DEF Types
<1>2. Locks'
  BY DEF Locks, Types
<1>3. Counted'
  BY DEF Counted, Pending, Types, Acknowledged, Locks, NotifierInv, Out,
     Before, Self, Removing, Notifying
<1>4. Unpublished'
  BY DEF Unpublished, Types, Locks, NotifierInv
<1>5. ASSUME NEW u \in Waiters PROVE WaiterInv(u)'
  BY DEF WaiterInv, NotifierInv, Types, Locks, Out, Before, Self, Removing,
     Notifying, Listed, WorksOn, Acknowledged, NotifyResults, EntryStatuses,
     WaitStatuses, B_OK, B_ENTRY_NOT_FOUND, B_TIMED_OUT, B_WOULD_BLOCK,
     STATUS_ADDED, STATUS_WAITING, Blocked
<1>6. ASSUME NEW m \in Notifiers PROVE NotifierInv(m)'
  BY DEF NotifierInv, WaiterInv, WorksOn, Types, Locks, Out, Before, Self,
     Removing, Notifying, Listed, Acknowledged, NotifyResults, EntryStatuses,
     WaitStatuses, B_OK, B_ENTRY_NOT_FOUND, B_TIMED_OUT, B_WOULD_BLOCK,
     STATUS_ADDED, STATUS_WAITING, Blocked
<1> QED
  BY <1>1, <1>2, <1>3, <1>4, <1>5, <1>6 DEF Inv

(* The last access to the entry                                            *)
LEMMA StepNotifyUnset ==
  ASSUME Inv, NEW n \in Notifiers, NotifyUnset(n)
  PROVE  Inv'
<1> USE ConditionVariableConstants
    DEF Inv, NotifyUnset, Goto, variable, entries, threads, locals, ghosts
<1>1. Types'
  BY DEF Types, NotifierLabels, Notifying
<1>2. Locks'
  BY DEF Locks, Types
<1>3. Counted'
  BY DEF Counted, Pending, Types, Acknowledged, Locks, NotifierInv, Out,
     Before, Self, Removing, Notifying
<1>4. Unpublished'
  BY DEF Unpublished, Types, Locks, NotifierInv
<1>5. ASSUME NEW u \in Waiters PROVE WaiterInv(u)'
  BY DEF WaiterInv, NotifierInv, Types, Locks, Out, Before, Self, Removing,
     Notifying, Listed, WorksOn, Acknowledged, NotifyResults, EntryStatuses,
     WaitStatuses, B_OK, B_ENTRY_NOT_FOUND, B_TIMED_OUT, B_WOULD_BLOCK,
     STATUS_ADDED, STATUS_WAITING, Blocked
<1>6. ASSUME NEW m \in Notifiers PROVE NotifierInv(m)'
  BY DEF NotifierInv, WaiterInv, WorksOn, Types, Locks, Out, Before, Self,
     Removing, Notifying, Listed, Acknowledged, NotifyResults, EntryStatuses,
     WaitStatuses, B_OK, B_ENTRY_NOT_FOUND, B_TIMED_OUT, B_WOULD_BLOCK,
     STATUS_ADDED, STATUS_WAITING, Blocked
<1> QED
  BY <1>1, <1>2, <1>3, <1>4, <1>5, <1>6 DEF Inv

(* The entry is counted out, and a sleeping thread unblocked.              *)
LEMMA StepNotifyUnblock ==
  ASSUME Inv, NEW n \in Notifiers, NotifyUnblock(n)
  PROVE  Inv'
<1> USE ConditionVariableConstants
    DEF Inv, NotifyUnblock, NotifyEnd, CountAfterNotify, thread_unblock,
        thread_is_blocked, Goto, variable, entries, threads, locals, ghosts
<1>1. Types'
  <2>1. /\ pc' \in [Waiters \cup Notifiers -> WaiterLabels \cup NotifierLabels]
        /\ \A u \in Waiters : pc'[u] \in WaiterLabels
        /\ \A m \in Notifiers : pc'[m] \in NotifierLabels
    BY DEF Types, NotifierLabels
  <2>2. scheduler_lock' \in [Waiters -> Notifiers \cup {Nobody}]
    <3>1. scheduler_lock' = [scheduler_lock EXCEPT ![entry] = Nobody]
      OBVIOUS
    <3> QED
      BY <3>1 DEF Types
  <2>2b. fEntriesCount' \in Int
    BY DEF Types
  <2>2a. fLock' \in Waiters \cup Notifiers \cup {Nobody}
    <3>1. CASE all
      BY <3>1 DEF Types
    <3>2. CASE ~all
      BY <3>2
    <3> QED
      BY <3>1, <3>2
  <2>3. wait' \in [Waiters -> WaitStatuses]
    BY DEF Types, WaitStatuses, NotifyResults
  <2>4. /\ all' \in BOOLEAN /\ result' \in NotifyResults
        /\ entry' \in Waiters \cup {Nobody}
        /\ lastWaitStatus' \in EntryStatuses /\ removedCount' \in Int
    <3>1. CASE all
      BY <3>1 DEF Types
    <3>2. CASE ~all
      <4> NotifyEnd(n)
        BY <3>2
      <4> HIDE DEF NotifyUnblock, NotifyEnd
      <4> QED
        BY NotifyEndTypes
    <3> QED
      BY <3>1, <3>2
  <2>5. asleep' \in [Waiters -> BOOLEAN]
    <3> DEFINE b == asleep[entry] /\ ~thread_is_blocked(wait, entry)
    <3>1. b \in BOOLEAN
      OBVIOUS
    <3>2. asleep' = [asleep EXCEPT ![entry] = b] \/ asleep' = asleep
      BY Zenon
    <3> HIDE DEF b
    <3> QED
      BY <3>1, <3>2 DEF Types
  <2> QED
    BY <2>1, <2>2, <2>2a, <2>2b, <2>3, <2>4, <2>5 DEF Types
<1>2. Locks'
  BY DEF Locks, Types
<1>3. Counted'
  BY DEF Counted, Pending, Types, Acknowledged, Locks, NotifierInv, Out,
     Before, Self, Removing, Notifying
<1>4. Unpublished'
  BY DEF Unpublished, Types, Locks, NotifierInv
<1>5. ASSUME NEW u \in Waiters PROVE WaiterInv(u)'
  BY DEF WaiterInv, NotifierInv, Types, Locks, Out, Before, Self, Removing,
     Notifying, Listed, WorksOn, Acknowledged, NotifyResults, EntryStatuses,
     WaitStatuses, B_OK, B_ENTRY_NOT_FOUND, B_TIMED_OUT, B_WOULD_BLOCK,
     STATUS_ADDED, STATUS_WAITING, Blocked
<1>6. ASSUME NEW m \in Notifiers PROVE NotifierInv(m)'
  BY DEF NotifierInv, WaiterInv, WorksOn, Types, Locks, Out, Before, Self,
     Removing, Notifying, Listed, Acknowledged, NotifyResults, EntryStatuses,
     WaitStatuses, B_OK, B_ENTRY_NOT_FOUND, B_TIMED_OUT, B_WOULD_BLOCK,
     STATUS_ADDED, STATUS_WAITING, Blocked
<1> QED
  BY <1>1, <1>2, <1>3, <1>4, <1>5, <1>6 DEF Inv

(* Every step keeps the invariant.                                         *)
LEMMA StepInv == Inv /\ [Next]_vars => Inv'
<1> SUFFICES ASSUME Inv, [Next]_vars PROVE Inv'
  OBVIOUS
<1>1. CASE UNCHANGED vars
  BY <1>1 DEF vars, Inv, Types, Locks, Counted, Unpublished, WaiterInv,
     NotifierInv, WorksOn, Listed, Pending, Acknowledged
<1>2. ASSUME NEW t \in Waiters, WaiterStep(t) PROVE Inv'
  BY <1>2, StepWait, StepPrepareToBlock, StepBlock, StepWakeUp,
     StepRemoveFromVariable, StepRemoveSpin, StepRemoveCheck, StepRemoveTry,
     StepRemoveAcknowledge, StepRemoveLocked DEF WaiterStep
<1>3. ASSUME NEW t \in Waiters,
             Add(t) \/ Leave(t) \/ Interrupt(t) \/ Done(t) \/ UnblockedElsewhere(t)
      PROVE  Inv'
  BY <1>3, StepAdd, StepLeave, StepInterrupt, StepDone, StepUnblockedElsewhere
<1>4. ASSUME NEW n \in Notifiers, NotifierStep(n) PROVE Inv'
  BY <1>4, StepNotifyNext, StepNotifyClear, StepNotifyAwait, StepNotifyStatus,
     StepNotifyUnset, StepNotifyUnblock DEF NotifierStep
<1>5. ASSUME NEW n \in Notifiers,
             \/ \E everyone \in BOOLEAN : Notify(n, everyone)
             \/ Unpublish(n) \/ Publish(n)
      PROVE  Inv'
  BY <1>5, StepNotify, StepUnpublish, StepPublish
<1> QED
  BY <1>1, <1>2, <1>3, <1>4, <1>5 DEF Next

-----------------------------------------------------------------------------
(* The inductive invariant holds at all times.                             *)
THEOREM Invariant == Spec => []Inv
  BY InitInv, StepInv, PTL DEF Spec

(* A list that holds each of some entries at most once is no longer than   *)
(* there are waiters, those of its entries that are off it counted too.    *)
LEMMA CountBounded ==
  ASSUME Inv
  PROVE  fEntriesCount \in 0 .. Cardinality(Waiters)
<1> USE ConditionVariableConstants
<1>1. /\ fEntries \in Seq(Waiters) /\ IsInjective(fEntries)
      /\ Range(fEntries) \subseteq Waiters /\ Len(fEntries) \in Nat
  BY RangeOfSeq, LenProperties DEF Inv, Types
<1>2. IsFiniteSet(Range(fEntries)) /\ Cardinality(Range(fEntries)) = Len(fEntries)
  <2>1. FirstOf(fEntries, Len(fEntries)) = Range(fEntries)
    BY <1>1, LenProperties DEF FirstOf, Range
  <2> QED
    BY <1>1, <2>1, SplitMembers
<1>3. Cardinality(Waiters) \in Nat
  BY FS_CardinalityType
<1>4. CASE ~Pending
  <2>1. Cardinality(Range(fEntries)) <= Cardinality(Waiters)
    BY <1>1, FS_Subset
  <2> QED
    BY <1>1, <1>2, <1>3, <1>4, <2>1 DEF Inv, Counted
<1>5. CASE Pending
  <2>1. entry \in Waiters /\ entry \notin Range(fEntries)
    BY <1>5 DEF Inv, NotifierInv, Pending, Listed, Removing, Notifying
  <2>2. Cardinality(Range(fEntries) \cup {entry}) = Len(fEntries) + 1
    BY <1>2, <2>1, FS_AddElement
  <2>3. Cardinality(Range(fEntries) \cup {entry}) <= Cardinality(Waiters)
    BY <1>1, <2>1, FS_Subset
  <2> QED
    BY <1>1, <1>3, <1>5, <2>2, <2>3 DEF Inv, Counted
<1> QED
  BY <1>4, <1>5

(* TypeOK: in particular fEntriesCount counts no more entries than there   *)
(* are waiters, and never drops below zero, although four places of        *)
(* condition_variable.cpp change it, two of them without fLock.            *)
THEOREM TypeCorrect == Spec => []TypeOK
<1>1. Inv => TypeOK
  BY CountBounded DEF Inv, Types, TypeOK, EntryStatuses
<1> QED
  BY <1>1, Invariant, PTL

(* A notifier only writes to entries whose threads are still in Wait().    *)
THEOREM EntriesAlive == Spec => []EntryAccessIsSafe
<1>1. Inv => EntryAccessIsSafe
  BY DEF Inv, NotifierInv, EntryAccessIsSafe, Before, Removing
<1> QED
  BY <1>1, Invariant, PTL

(* A waiter that removes its entry by itself does so while the variable    *)
(* exists, Unpublish() notwithstanding.                                    *)
THEOREM VariableAlive == Spec => []VariableAccessIsSafe
<1>1. ASSUME Inv, NEW t \in Waiters, pc[t] \in Self
      PROVE  published \/ \E n \in Notifiers : pc[n] # "idle"
  <2>1. CASE Listed(t)
    BY <1>1, <2>1 DEF Inv, Unpublished, Listed, Range
  <2>2. CASE ~Listed(t)
    BY <1>1, <2>2 DEF Inv, WaiterInv, WorksOn
  <2> QED
    BY <2>1, <2>2
<1>2. ASSUME Inv, NEW t \in Waiters, pc[t] = "remove_locked"
      PROVE  fVariable[t]
  BY <1>2 DEF Inv, WaiterInv, Self
<1>3. Inv => VariableAccessIsSafe
  BY <1>1, <1>2 DEF VariableAccessIsSafe, Self
<1> QED
  BY <1>3, Invariant, PTL

(* fEntriesCount is exact at every moment.                                 *)
THEOREM CountExact == Spec => []EntriesCounted
<1> DEFINE P == {n \in Notifiers : pc[n] \in {"notify_status", "notify_unset",
                                              "notify_count", "notify_clear"}}
           Q == {n \in Notifiers : pc[n] = "notify_await" /\ ~Acknowledged}
<1>1. ASSUME Inv PROVE EntriesCounted
  <2>0. Len(fEntries) \in Nat
    BY <1>1, LenProperties DEF Inv, Types
  <2>1. \A n, m \in Notifiers : pc[n] # "idle" /\ pc[m] # "idle" => n = m
    BY <1>1 DEF Inv, Locks
  <2>2. Cardinality(P) + Cardinality(Q) = IF Pending THEN 1 ELSE 0
    <3>1. Cardinality({}) = 0 /\ \A n : Cardinality({n}) = 1
      BY FS_EmptySet, FS_Singleton
    <3>2. CASE ~Pending
      <4>1. P = {} /\ Q = {}
        BY <3>2 DEF Pending, Notifying
      <4> QED
        BY <3>1, <3>2, <4>1
    <3>3. ASSUME NEW n \in Notifiers, n \in P
          PROVE  Cardinality(P) + Cardinality(Q) = 1 /\ Pending
      <4>1. P = {n} /\ Q = {}
        BY <2>1, <3>3
      <4>2. Pending
        BY <3>3 DEF Pending, Notifying
      <4>3. Cardinality(P) = 1 /\ Cardinality(Q) = 0
        BY <3>1, <4>1, Zenon
      <4> QED
        BY <4>2, <4>3
    <3>4. ASSUME NEW n \in Notifiers, n \in Q
          PROVE  Cardinality(P) + Cardinality(Q) = 1 /\ Pending
      <4>1. P = {} /\ Q = {n}
        BY <2>1, <3>4
      <4>2. Pending
        BY <3>4 DEF Pending, Notifying
      <4> HIDE DEF P, Q
      <4> QED
        BY <3>1, <4>1, <4>2
    <3>5. Pending => \E n \in Notifiers : n \in P \/ n \in Q
      BY DEF Pending, Notifying
    <3> QED
      BY <3>2, <3>3, <3>4, <3>5
  <2>3. fEntriesCount = Len(fEntries) + (Cardinality(P) + Cardinality(Q))
    BY <1>1, <2>2 DEF Inv, Counted
  <2>4. IsFiniteSet(P) /\ IsFiniteSet(Q)
    <3>1. P \subseteq {fLock} /\ Q \subseteq {fLock}
      BY <1>1 DEF Inv, Locks
    <3> QED
      BY <3>1, FS_Singleton, FS_Subset
  <2>5. Cardinality(P) \in Nat /\ Cardinality(Q) \in Nat
    BY <2>4, FS_CardinalityType
  <2>6. EntriesCounted <=>
          fEntriesCount = Len(fEntries) + Cardinality(P) + Cardinality(Q)
    BY DEF EntriesCounted
  <2> HIDE DEF P, Q
  <2> QED
    BY <2>0, <2>3, <2>5, <2>6
<1> QED
  BY <1>1, Invariant, PTL

(* Who is unblocked by a notifier still sleeps in the Wait() the notifier  *)
(* found it in.                                                            *)
THEOREM NoStray == Spec => []NoStrayUnblock
<1>1. Inv => NoStrayUnblock
  BY DEF Inv, NotifierInv, NoStrayUnblock
<1> QED
  BY <1>1, Invariant, PTL

(* Wait() tells the truth about who took the entry off the list.           *)
THEOREM Truthful == Spec => []TruthfulStatus
<1>1. Inv => TruthfulStatus
  BY DEF Inv, WaiterInv, TruthfulStatus
<1> QED
  BY <1>1, Invariant, PTL

=============================================================================
