----------------------------- MODULE BFSJournal -----------------------------
(***************************************************************************)
(* The journal of the Be File System                                       *)
(* (src/add-ons/kernel/file_systems/bfs/Journal.cpp), with the block cache *)
(* below it (module BlockCache), crashes, and the replay of the log at the *)
(* next mount.                                                             *)
(*                                                                         *)
(* Three kinds of threads work here at the same time.  The owner of the    *)
(* journal's lock runs a client's transaction, flushes the log, or flushes *)
(* everything; pc is where it is.  The block cache's notifier/writer       *)
(* thread writes blocks of closed transactions back at any time, and calls *)
(* Journal::_TransactionWritten() for the transactions that are completely *)
(* on the disk, without the journal's lock.                                *)
(*                                                                         *)
(* A block's contents are the number of the client transaction that wrote  *)
(* it, 0 for what was on the disk first.  The transactions considered fit  *)
(* into the log (LogHoldsVolume), so no sub transaction is ever detached.  *)
(***************************************************************************)
EXTENDS BlockCache

CONSTANTS
  LogSize,             \* fLogSize, in blocks
  MaxTransactionSize,  \* fMaxTransactionSize
  MaxRuns,             \* run_array::MaxRuns()
  MaxTransactions,     \* bound on the transactions clients start
  MaxCrashes           \* bound on the crashes

Capacity == MaxRuns - 1    \* run_array::MaxRuns() of an array

(* ceil(n / k) *)
Ceil(n, k) == (n + k - 1) \div k

ASSUME JournalConstants ==
  /\ LogSize \in Nat \ {0} /\ MaxTransactionSize \in Nat
  /\ MaxRuns \in Nat \ {0, 1}
  /\ MaxTransactions \in Nat /\ MaxCrashes \in Nat

ASSUME LogHoldsVolume ==
  Cardinality(Blocks) + Ceil(Cardinality(Blocks), Capacity) <= LogSize

VARIABLES
  disk, log, superBlockOnDisk,    \* what survives a crash
  superBlock,                     \* fVolume->SuperBlock()
  LogStart, LogEnd,               \* fVolume->LogStart(), LogEnd()
  fEntries, fUnwrittenTransactions, fTransactionID, fHasSubtransaction,
  entry,                          \* the log entry being written, or replayed
  pc, task,                       \* where the lock's owner is, and what it does
  sync,                           \* where it is in cache_sync_transaction()
  cache,                          \* the cached blocks
  writer,                         \* the BlockWriters of the two threads
  pending_notifications,
  hook,                           \* where _TransactionWritten() is
  started, crashes,               \* count what is bounded
  finished, logged                \* the volume after each finished transaction,
                                  \* and how many of them the log makes durable

diskVars == <<disk, log, superBlockOnDisk>>
logVars == <<superBlock, LogStart, LogEnd, fEntries, entry>>
transactionVars == <<fUnwrittenTransactions, fTransactionID, fHasSubtransaction>>
cacheVars == <<cache, writer, pending_notifications, hook>>
ghostVars == <<started, crashes, finished, logged>>
vars == <<disk, log, superBlockOnDisk, superBlock, LogStart, LogEnd, fEntries,
          entry, fUnwrittenTransactions, fTransactionID, fHasSubtransaction,
          pc, task, sync, cache, writer, pending_notifications, hook, started,
          crashes, finished, logged>>

Values == 0 .. MaxTransactions
Writers == {"notifier", "journal"}
SYNC == NO_TRANSACTION   \* the notification of wait_for_notifications()
Idle == [busy |-> {}, todo |-> {}]
NoEntry == [id |-> NO_TRANSACTION, start |-> 0, written |-> 0]

(* A block of the log is a run array or data; an array with no run is not  *)
(* valid (_CheckRunArray()).                                               *)
RunArray(runs) == [runs |-> runs, data |-> NULL]
Data(data) == [runs |-> <<>>, data |-> data]

Init ==
  /\ disk = [b \in Blocks |-> 0]
  /\ log = [p \in 0 .. LogSize - 1 |-> Data(NULL)]
  /\ superBlockOnDisk = [log_start |-> 0, log_end |-> 0]
  /\ superBlock = superBlockOnDisk
  /\ LogStart = 0 /\ LogEnd = 0
  /\ fEntries = <<>> /\ entry = NoEntry
  /\ fUnwrittenTransactions = 0 /\ fTransactionID = 0
  /\ fHasSubtransaction = FALSE
  /\ pc = "unlocked" /\ task = "client" /\ sync = "none"
  /\ cache = [b \in Blocks |-> NewBlock(0)]
  /\ writer = [w \in Writers |-> Idle]
  /\ pending_notifications = <<>> /\ hook = "none"
  /\ started = 0 /\ crashes = 0
  /\ finished = <<disk>> /\ logged = 1

-----------------------------------------------------------------------------
(* Sizes, and the layout of a log entry *)

FreeLogBlocks ==
  IF LogStart <= LogEnd THEN LogSize - LogEnd + LogStart ELSE LogStart - LogEnd

TransactionSize ==
  LET count == Cardinality(InTransaction(cache))
  IN count + Ceil(count, MaxRuns)

(* The RunArrays of the open transaction: arrays of sorted runs of one     *)
(* block, each with room for Capacity of them                              *)
Changed == SortedBy([b \in InTransaction(cache) |-> b])
LogEntryLength == Len(Changed) + Ceil(Len(Changed), Capacity)

(* Block i of the log entry: an array, followed by the blocks it names *)
EntryBlock(i) ==
  LET first == (i \div (Capacity + 1)) * Capacity
      n == i % (Capacity + 1)
  IN IF n = 0
     THEN RunArray(SubSeq(Changed, first + 1, Min({first + Capacity,
                                                  Len(Changed)})))
     ELSE Data(cache[Changed[first + n]].current)

(* Mutant: the end is not wrapped around. *)
LogPosition_Unwrapped(start, length) == (start % LogSize) + length

(* logPosition after an entry has been written: LogSize, not 0, for one    *)
(* that ends where the log ends                                            *)
LogPosition(start, length) ==
  LET end == (start % LogSize) + length
  IN IF end > LogSize THEN end - LogSize ELSE end

(* The entry to be written fills the log, or ends where the log ends. *)
AtBoundary ==
  \/ LogEntryLength = FreeLogBlocks
  \/ LogPosition(LogEnd, LogEntryLength) = LogSize

-----------------------------------------------------------------------------
(* The block cache's side *)

Busy == UNION {writer[w].busy : w \in Writers}

(* TransactionLocker: waits until no block is being written. *)
TransactionLocked == Busy = {}

(* BlockWriter::Add() for a set of blocks *)
StartWriting(w, blocks) ==
  writer' = [writer EXCEPT ![w] = [busy |-> blocks, todo |-> blocks]]

(* BlockWriter::Write(): one block; after the last one, all of them are    *)
(* done, and the listeners of transactions this completes are notified.    *)
WriteBlock(w, b) ==
  LET last == writer[w].todo = {b} IN
  /\ b \in writer[w].todo
  /\ disk' = [disk EXCEPT ![b] = WriteData(cache[b])]
  /\ \/ /\ ~last
        /\ writer' = [writer EXCEPT ![w].todo = @ \ {b}]
        /\ UNCHANGED <<cache, pending_notifications>>
     \/ /\ last
        /\ writer' = [writer EXCEPT ![w] = Idle]
        /\ cache' = BlocksDone(cache, writer[w].busy)
        /\ pending_notifications' =
             pending_notifications \o WrittenTransactions(cache, writer[w].busy)
  /\ UNCHANGED <<log, superBlockOnDisk, hook, pc, task, sync>>
  /\ UNCHANGED <<logVars, transactionVars, ghostVars>>

(* Mutant: the notifier thread waits for the journal's lock. *)
NotifierFree_LocksJournal ==
  pc = "unlocked" /\ writer["notifier"] = Idle /\ hook = "none"

(* The notifier thread does one thing at a time. *)
NotifierFree == writer["notifier"] = Idle /\ hook = "none"

(* block_notifier_and_writer(): takes blocks of closed transactions (not   *)
(* always all of them: there is a limit per turn).                         *)
NotifierWrites ==
  /\ NotifierFree
  /\ \E blocks \in (SUBSET (InPrevious(cache) \ Busy)) \ {{}} :
       StartWriting("notifier", blocks)
  /\ UNCHANGED <<pc, task, sync, cache, pending_notifications, hook>>
  /\ UNCHANGED <<diskVars, logVars, transactionVars, ghostVars>>

(* Mutant: nothing waits for the notifier thread. *)
WaitForNotifications_Skipped ==
  /\ sync' = "done"
  /\ UNCHANGED pending_notifications

(* wait_for_notifications() queues a notification behind the pending ones  *)
(* and waits for its turn.                                                 *)
WaitForNotifications ==
  /\ sync' = "wait"
  /\ pending_notifications' = Append(pending_notifications, SYNC)

(* cache_sync_transaction() and block_cache_sync() write the blocks of all *)
(* closed transactions; only the former waits for those that another       *)
(* thread writes right now.                                                *)
SyncStart ==
  /\ sync = "start"
  /\ pc # "flush" => TransactionLocked
  /\ StartWriting("journal", InPrevious(cache) \ Busy)
  /\ sync' = "write"
  /\ UNCHANGED <<pc, task, cache, pending_notifications, hook>>
  /\ UNCHANGED <<diskVars, logVars, transactionVars, ghostVars>>

SyncWritten ==
  /\ sync = "write" /\ writer["journal"] = Idle
  /\ hook = "none"      \* sCachesLock
  /\ WaitForNotifications
  /\ UNCHANGED <<pc, task, cache, writer, hook>>
  /\ UNCHANGED <<diskVars, logVars, transactionVars, ghostVars>>

-----------------------------------------------------------------------------
(* Client transactions *)

(* Journal::Lock() of an outermost transaction *)
Lock ==
  /\ pc = "unlocked" /\ started < MaxTransactions
  /\ TransactionLocked
  /\ \/ /\ fUnwrittenTransactions > 0
        /\ cache' = cache_start_sub_transaction(cache)
        /\ fHasSubtransaction' = TRUE
        /\ UNCHANGED fTransactionID
     \/ /\ fUnwrittenTransactions = 0
        /\ fTransactionID' = fTransactionID + 1    \* cache_start_transaction()
        /\ UNCHANGED <<cache, fHasSubtransaction>>
  /\ pc' = "open" /\ task' = "client"
  /\ started' = started + 1
  /\ UNCHANGED <<fUnwrittenTransactions, sync, writer, pending_notifications,
                 hook, crashes, finished, logged>>
  /\ UNCHANGED <<diskVars, logVars>>

(* The client changes a block. *)
Change(b) ==
  /\ pc = "open"
  /\ b \notin Busy                        \* wait_for_busy_writing_block()
  /\ cache[b].current # started
  /\ cache' = get_writable_cached_block(cache, b, started)
  /\ UNCHANGED <<pc, task, sync, writer, pending_notifications, hook>>
  /\ UNCHANGED <<diskVars, logVars, transactionVars, ghostVars>>

(* _TransactionDone(true): small transactions are collected. *)
Done ==
  /\ pc = "open"
  /\ TransactionLocked                    \* cache_blocks_in_transaction()
  /\ finished' = Append(finished, [b \in Blocks |-> cache[b].current])
  /\ \/ /\ TransactionSize < MaxTransactionSize
        /\ \/ /\ TransactionSize > FreeLogBlocks
              /\ pc' = "batch" /\ sync' = "start"
              /\ UNCHANGED fUnwrittenTransactions
           \/ /\ TransactionSize <= FreeLogBlocks
              /\ pc' = "unlocked"
              /\ fUnwrittenTransactions' = fUnwrittenTransactions + 1
              /\ UNCHANGED sync
     \/ /\ TransactionSize >= MaxTransactionSize
        /\ pc' = "log"
        /\ UNCHANGED <<fUnwrittenTransactions, sync>>
  /\ UNCHANGED <<fTransactionID, fHasSubtransaction, task, started, crashes,
                 logged>>
  /\ UNCHANGED <<diskVars, logVars, cacheVars>>

(* ... once cache_sync_transaction() returns *)
DoneSynced ==
  /\ pc = "batch" /\ sync = "done"
  /\ pc' = "unlocked" /\ sync' = "none"
  /\ fUnwrittenTransactions' = fUnwrittenTransactions + 1
  /\ UNCHANGED <<fTransactionID, fHasSubtransaction, task>>
  /\ UNCHANGED <<diskVars, logVars, cacheVars, ghostVars>>

(* _TransactionDone(false), also by the destructor of a Transaction whose  *)
(* Done() has failed.  Aborting all of the cache's transaction drops every *)
(* transaction since the last one that was logged.                         *)
Abort ==
  /\ pc \in {"open", "failed"}
  /\ TransactionLocked
  /\ \/ /\ fHasSubtransaction
        /\ cache' = cache_abort_sub_transaction(cache)
        /\ UNCHANGED <<fUnwrittenTransactions, finished>>
     \/ /\ ~fHasSubtransaction
        /\ cache' = cache_abort_transaction(cache)
        /\ fUnwrittenTransactions' = 0
        /\ finished' = SubSeq(finished, 1, logged)
  /\ pc' = "unlocked"
  /\ UNCHANGED <<fTransactionID, fHasSubtransaction, task, sync, writer,
                 pending_notifications, hook, started, crashes, logged>>
  /\ UNCHANGED <<diskVars, logVars>>

-----------------------------------------------------------------------------
(* Flushing.  _FlushLog() is called by the log flusher thread when the     *)
(* transaction has been idle, and by FlushLogAndBlocks().                  *)

FlushLog ==
  /\ pc = "unlocked" /\ fUnwrittenTransactions # 0
  /\ pc' = "log" /\ task' \in {"flush_log", "flush_all"}
  /\ UNCHANGED sync
  /\ UNCHANGED <<diskVars, logVars, transactionVars, cacheVars, ghostVars>>

FlushBlocksOnly ==
  /\ pc = "unlocked" /\ fUnwrittenTransactions = 0
  /\ pc' = "flush" /\ task' = "flush_all" /\ sync' = "start"
  /\ UNCHANGED <<diskVars, logVars, transactionVars, cacheVars, ghostVars>>

FlushDone ==
  /\ pc = "flush" /\ sync = "done"
  /\ pc' = "unlocked" /\ sync' = "none"
  /\ UNCHANGED task
  /\ UNCHANGED <<diskVars, logVars, transactionVars, cacheVars, ghostVars>>

(* What the lock's owner does after _WriteTransactionToLog() *)
AfterLog ==
  IF task = "flush_all" THEN pc' = "flush" /\ sync' = "start"
  ELSE pc' = "unlocked" /\ sync' = "none"

-----------------------------------------------------------------------------
(* _WriteTransactionToLog() *)

BeginEntry ==
  /\ pc' = "log_write"
  /\ entry' = [id |-> fTransactionID, start |-> LogEnd, written |-> 0]

(* Nothing has changed: the cache's transaction just ends. *)
LogNothing ==
  /\ pc = "log" /\ TransactionLocked
  /\ Changed = <<>>
  /\ fUnwrittenTransactions' = 0 /\ fHasSubtransaction' = FALSE
  /\ AfterLog
  /\ logged' = Len(finished)
  /\ UNCHANGED <<fTransactionID, task, started, crashes, finished>>
  /\ UNCHANGED <<diskVars, logVars, cacheVars>>

LogBegin ==
  /\ pc = "log" /\ sync = "none" /\ TransactionLocked
  /\ Changed # <<>>
  /\ fHasSubtransaction' = FALSE
  /\ IF LogEntryLength > FreeLogBlocks
     THEN sync' = "start" /\ UNCHANGED <<pc, entry>>
     ELSE BeginEntry /\ UNCHANGED sync
  /\ UNCHANGED <<superBlock, LogStart, LogEnd, fEntries,
                 fUnwrittenTransactions, fTransactionID, task>>
  /\ UNCHANGED <<diskVars, cacheVars, ghostVars>>

(* panic("no space in log after sync") *)
LogSynced ==
  /\ pc = "log" /\ sync = "done"
  /\ sync' = "none"
  /\ IF LogEntryLength > FreeLogBlocks THEN pc' = "panic" /\ UNCHANGED entry
     ELSE BeginEntry
  /\ UNCHANGED <<superBlock, LogStart, LogEnd, fEntries, task>>
  /\ UNCHANGED <<diskVars, transactionVars, cacheVars, ghostVars>>

(* writev_pos(): one block of the entry *)
LogWrite ==
  /\ pc = "log_write"
  /\ log' = [log EXCEPT ![(entry.start + entry.written) % LogSize] =
                           EntryBlock(entry.written)]
  /\ entry' = [entry EXCEPT !.written = @ + 1]
  /\ pc' = IF entry'.written = LogEntryLength THEN "log_end" ELSE pc
  /\ UNCHANGED <<disk, superBlockOnDisk, superBlock, LogStart, LogEnd, fEntries,
                 task, sync>>
  /\ UNCHANGED <<transactionVars, cacheVars, ghostVars>>

(* An early return of an error: memory for the run arrays, the vectors or  *)
(* the LogEntry is missing, or a block cannot be had from the cache.  A    *)
(* client's Transaction is then aborted by its destructor; _FlushLog()     *)
(* goes on, and returns the status of what it does next.                   *)
LogFails ==
  /\ \/ pc = "log" /\ sync \in {"none", "done"} /\ Changed # <<>>
     \/ pc \in {"log_write", "log_end"}
  /\ IF task = "client" THEN pc' = "failed" /\ sync' = "none" ELSE AfterLog
  /\ entry' = NoEntry
  /\ fHasSubtransaction' = FALSE
  /\ UNCHANGED <<superBlock, LogStart, LogEnd, fEntries,
                 fUnwrittenTransactions, fTransactionID, task>>
  /\ UNCHANGED <<diskVars, cacheVars, ghostVars>>

(* The superblock's log_end, ... *)
LogSetEnd ==
  /\ pc = "log_end"
  /\ superBlock' = [superBlock EXCEPT
                      !.log_end = LogPosition(entry.start, entry.written)]
  /\ pc' = "log_super"
  /\ UNCHANGED <<LogStart, LogEnd, fEntries, entry, task, sync>>
  /\ UNCHANGED <<diskVars, transactionVars, cacheVars, ghostVars>>

(* ... WriteSuperBlock(), by whichever thread.  The entry counts as logged *)
(* from the moment the log_end that includes it is on the disk.            *)
WriteSuperBlock ==
  /\ superBlockOnDisk' = superBlock
  /\ logged' = IF pc = "log_super" THEN Len(finished) ELSE logged

LogWriteSuperBlock ==
  /\ pc = "log_super"
  /\ WriteSuperBlock
  /\ pc' = "log_position"
  /\ UNCHANGED <<disk, log, task, sync, started, crashes, finished>>
  /\ UNCHANGED <<logVars, transactionVars, cacheVars>>

(* fVolume->LogEnd() = logPosition, and the drive's cache is flushed. *)
LogSetPosition ==
  /\ pc = "log_position"
  /\ LogEnd' = LogPosition(entry.start, entry.written)
  /\ pc' = "log_add"
  /\ UNCHANGED <<superBlock, LogStart, fEntries, entry, task, sync>>
  /\ UNCHANGED <<diskVars, transactionVars, cacheVars, ghostVars>>

(* fEntries.Add() *)
LogAdd ==
  /\ pc = "log_add"
  /\ fEntries' = Append(fEntries, [id |-> entry.id, start |-> entry.start])
  /\ entry' = NoEntry
  /\ pc' = "cache_end"
  /\ UNCHANGED <<superBlock, LogStart, LogEnd, task, sync>>
  /\ UNCHANGED <<diskVars, transactionVars, cacheVars, ghostVars>>

(* write_blocks_in_previous_transaction() *)
BlocksInPreviousTransaction == InTransaction(cache) \cap InPrevious(cache)

(* cache_end_transaction() *)
CacheEnd ==
  /\ pc = "cache_end" /\ TransactionLocked
  /\ StartWriting("journal", BlocksInPreviousTransaction)
  /\ pc' = "cache_end_written"
  /\ UNCHANGED <<task, sync, cache, pending_notifications, hook>>
  /\ UNCHANGED <<diskVars, logVars, transactionVars, ghostVars>>

CacheEndWritten ==
  /\ pc = "cache_end_written" /\ writer["journal"] = Idle
  /\ cache' = cache_end_transaction(cache, fTransactionID)
  /\ fUnwrittenTransactions' = 0
  /\ AfterLog
  /\ UNCHANGED <<fTransactionID, fHasSubtransaction, task, writer,
                 pending_notifications, hook>>
  /\ UNCHANGED <<diskVars, logVars, ghostVars>>

-----------------------------------------------------------------------------
(* flush_pending_notifications(), by the notifier thread *)

(* _TransactionWritten(), under fEntriesLock; nothing else keeps the hook  *)
(* from running.                                                           *)
TransactionWritten ==
  /\ NotifierFree
  /\ pending_notifications # <<>> /\ Head(pending_notifications) # SYNC
  /\ LET id == Head(pending_notifications)
         first == fEntries[1].id = id
     IN /\ superBlock' =
             IF ~first THEN superBlock
             ELSE [superBlock EXCEPT
                     !.log_start = IF Len(fEntries) > 1
                                   THEN fEntries[2].start % LogSize
                                   ELSE LogEnd]
        /\ hook' = IF first THEN "super" ELSE "none"
        /\ fEntries' = RemoveFirstMatch(fEntries, LAMBDA e : e.id = id)
  /\ pending_notifications' = Tail(pending_notifications)
  /\ UNCHANGED <<LogStart, LogEnd, entry, pc, task, sync, cache, writer>>
  /\ UNCHANGED <<diskVars, transactionVars, ghostVars>>

TransactionWrittenSuperBlock ==
  /\ hook = "super"
  /\ WriteSuperBlock
  /\ hook' = "log_start"
  /\ UNCHANGED <<disk, log, pc, task, sync, cache, writer,
                 pending_notifications, started, crashes, finished>>
  /\ UNCHANGED <<logVars, transactionVars>>

TransactionWrittenLogStart ==
  /\ hook = "log_start"
  /\ LogStart' = superBlock.log_start
  /\ hook' = "none"
  /\ UNCHANGED <<superBlock, LogEnd, fEntries, entry, pc, task, sync, cache,
                 writer, pending_notifications>>
  /\ UNCHANGED <<diskVars, transactionVars, ghostVars>>

(* notify_sync(): wait_for_notifications() returns. *)
NotifySync ==
  /\ NotifierFree
  /\ pending_notifications # <<>> /\ Head(pending_notifications) = SYNC
  /\ pending_notifications' = Tail(pending_notifications)
  /\ sync' = "done"
  /\ UNCHANGED <<pc, task, cache, writer, hook>>
  /\ UNCHANGED <<diskVars, logVars, transactionVars, ghostVars>>

-----------------------------------------------------------------------------
(* A crash, and Journal::ReplayLog() when the volume is mounted again *)

Crash ==
  /\ crashes < MaxCrashes
  /\ crashes' = crashes + 1
  /\ superBlock' = superBlockOnDisk
  /\ LogStart' = superBlockOnDisk.log_start
  /\ LogEnd' = superBlockOnDisk.log_end
  /\ fEntries' = <<>>
  /\ entry' = [NoEntry EXCEPT !.start = superBlockOnDisk.log_start]
  /\ fUnwrittenTransactions' = 0 /\ fTransactionID' = 0
  /\ fHasSubtransaction' = FALSE
  /\ pc' = "replay" /\ task' = "client" /\ sync' = "none"
  /\ cache' = [b \in Blocks |-> NewBlock(NULL)]
  /\ writer' = [w \in Writers |-> Idle]
  /\ pending_notifications' = <<>> /\ hook' = "none"
  /\ finished' = SubSeq(finished, 1, logged)
  /\ UNCHANGED <<started, logged>>
  /\ UNCHANGED diskVars

(* The runs of the array at a log position; <<>> if it is not valid *)
RunsAt(start) == log[start % LogSize].runs

(* Where the next array starts *)
NextStart(start) == (start + Len(RunsAt(start)) + 1) % LogSize

(* _ReplayRunArray(): one block *)
ReplayBlock ==
  /\ pc = "replay" /\ entry.start # LogEnd
  /\ entry.written < Len(RunsAt(entry.start))
  /\ disk' = [disk EXCEPT ![RunsAt(entry.start)[entry.written + 1]] =
                log[(entry.start + 1 + entry.written) % LogSize].data]
  /\ entry' = [entry EXCEPT !.written = @ + 1]
  /\ UNCHANGED <<log, superBlockOnDisk, superBlock, LogStart, LogEnd, fEntries,
                 pc, task, sync>>
  /\ UNCHANGED <<transactionVars, cacheVars, ghostVars>>

ReplayNext ==
  /\ pc = "replay" /\ entry.start # LogEnd
  /\ entry.written > 0 /\ entry.written = Len(RunsAt(entry.start))
  /\ entry' = [entry EXCEPT !.start = NextStart(@), !.written = 0]
  /\ UNCHANGED <<superBlock, LogStart, LogEnd, fEntries, pc, task, sync>>
  /\ UNCHANGED <<diskVars, transactionVars, cacheVars, ghostVars>>

(* The volume is mounted and usable. *)
ReplayDone ==
  /\ pc = "replay" /\ entry.start = LogEnd
  /\ superBlock' = [superBlock EXCEPT !.log_start = LogEnd]
  /\ LogStart' = LogEnd
  /\ superBlockOnDisk' = superBlock'
  /\ entry' = NoEntry
  /\ cache' = [b \in Blocks |-> NewBlock(disk[b])]
  /\ pc' = "unlocked"
  /\ UNCHANGED <<disk, log, LogEnd, fEntries, task, sync, writer,
                 pending_notifications, hook>>
  /\ UNCHANGED <<transactionVars, ghostVars>>

-----------------------------------------------------------------------------
Client == Lock \/ (\E b \in Blocks : Change(b)) \/ Done \/ Abort
Flush == FlushLog \/ FlushBlocksOnly
Journal ==
  \/ SyncStart \/ SyncWritten \/ DoneSynced \/ FlushDone
  \/ LogNothing \/ LogBegin \/ LogSynced \/ LogWrite
  \/ LogSetEnd \/ LogWriteSuperBlock \/ LogSetPosition \/ LogAdd
  \/ CacheEnd \/ CacheEndWritten
  \/ \E b \in Blocks : WriteBlock("journal", b)
Notifier ==
  \/ \E b \in Blocks : WriteBlock("notifier", b)
  \/ TransactionWritten \/ TransactionWrittenSuperBlock
  \/ TransactionWrittenLogStart \/ NotifySync
Replay == ReplayBlock \/ ReplayNext \/ ReplayDone

Next == Client \/ Flush \/ Journal \/ LogFails \/ Notifier \/ NotifierWrites
        \/ Replay \/ Crash

(* A thread that can go on does so, a client also in the destructor of its *)
(* Transaction.  Nobody has to start or to finish a transaction, or to     *)
(* flush.                                                                  *)
Fairness == /\ WF_vars(Journal) /\ WF_vars(Notifier) /\ WF_vars(Replay)
            /\ WF_vars(pc = "failed" /\ Abort)

Spec == Init /\ [][Next]_vars /\ Fairness

-----------------------------------------------------------------------------
(* The two situations in which BFS does not keep what it promises, as      *)
(* steps of Spec                                                           *)

(* A log entry is begun that fills the log, or ends where the log ends.    *)
LogBoundary == pc = "log" /\ pc' = "log_write" /\ AtBoundary

(* _TransactionWritten() of the only entry in the list comes between the   *)
(* `LogEnd() =` and the fEntries.Add() of the next one.                    *)
HookRace ==
  /\ pc = "log_add" /\ Len(fEntries) = 1
  /\ hook = "none" /\ hook' = "super"

(* The behaviours of Spec in which neither occurs                          *)
Ordinary == ~LogBoundary /\ ~HookRace
OrdinarySpec == Init /\ [][Next /\ Ordinary]_vars /\ Fairness

-----------------------------------------------------------------------------
(* What ReplayLog() would make of the disk if the system crashed now: at   *)
(* most LogSize arrays can be replayed before one is met again.            *)
ReplayedArray(r) ==
  LET runs == RunsAt(r.start) IN
  IF r.start = superBlockOnDisk.log_end \/ runs = <<>> THEN r
  ELSE [start |-> NextStart(r.start),
        disk |-> [b \in Blocks |->
                    IF Contains(runs, b)
                    THEN log[(r.start + SelectInSeq(runs, LAMBDA x : x = b))
                               % LogSize].data
                    ELSE r.disk[b]]]

(* Each turn passes a one-element set on, so that it is evaluated once.    *)
Recovered ==
  LET from == [start |-> superBlockOnDisk.log_start, disk |-> disk]
      replayed[i \in 0 .. LogSize] ==
        IF i = 0 THEN {from} ELSE {ReplayedArray(r) : r \in replayed[i - 1]}
      r == CHOOSE r \in replayed[LogSize] : TRUE
  IN IF r.start = superBlockOnDisk.log_end THEN r.disk
     ELSE [b \in Blocks |-> NULL]

-----------------------------------------------------------------------------
Buffers == Values \cup {NULL}

(* Type correctness of the journal's and the cache's state *)
TypeOK ==
  /\ disk \in [Blocks -> Values]
  /\ \A p \in 0 .. LogSize - 1 :
       log[p].runs \in Seq(Blocks) /\ log[p].data \in Buffers
  /\ superBlock \in [log_start : 0 .. LogSize, log_end : 0 .. LogSize]
  /\ superBlockOnDisk \in [log_start : 0 .. LogSize, log_end : 0 .. LogSize]
  /\ LogStart \in 0 .. LogSize /\ LogEnd \in 0 .. LogSize
  /\ \A i \in 1 .. Len(fEntries) :
       fEntries[i] \in [id : 1 .. MaxTransactions, start : 0 .. LogSize]
  /\ cache \in [Blocks -> [current : Buffers, original : Buffers,
                           parent : Buffers \cup {CURRENT_DATA},
                           transaction : BOOLEAN, previous : Values]]
  /\ \A w \in Writers : writer[w].todo \subseteq writer[w].busy
  /\ pending_notifications \in Seq(Values)
  /\ finished \in Seq([Blocks -> Values])
  /\ logged \in 1 .. Len(finished)

(* Whenever the system crashes, replaying the log ("this will put the disk *)
(* into a consistent and clean state", Journal.cpp) leaves the volume      *)
(* exactly as the last transaction whose log entry was completed left it.  *)
(* Spec violates this by a LogBoundary and by a HookRace step; it holds of *)
(* OrdinarySpec, that is, as long as neither has occurred.                 *)
ReplayRecoversLogged == Recovered = finished[logged]

(* In the behaviours without a LogBoundary and without a HookRace step     *)
(* (OrdinarySpec; not of Spec, see ReplayRecoversLogged), BFS keeps what   *)
(* module AtomicVolume promises, with crashes at any other time, also      *)
(* during the replay, and with failures to write the log: a mount finds    *)
(* the volume as a finished transaction left it, nothing that has been     *)
(* logged is lost, and a crash or a failure loses only the latest ones.    *)
Volume == INSTANCE AtomicVolume WITH
            Contents <- [Blocks -> Values], history <- finished,
            durable <- logged, volume <- Recovered
ImplementsAtomicVolume == Volume!Spec

(* Whenever no transaction is running, the cached blocks are what the last *)
(* finished transaction left: aborting a transaction or a sub transaction  *)
(* undoes its changes and nothing else, however the notifier's writes of   *)
(* older contents fall in between.  A block that no transaction has to     *)
(* write back is on the disk as it is in the cache (it may be evicted).    *)
CacheCoherent ==
  pc = "unlocked" =>
    \A b \in Blocks :
      /\ cache[b].current = Last(finished)[b]
      /\ ~cache[b].transaction /\ cache[b].previous = NO_TRANSACTION
           => cache[b].current = disk[b]

(* After cache_sync_transaction() there is room in the log for any         *)
(* transaction: the panic in _WriteTransactionToLog() is never reached,    *)
(* because the notifications it waits for have moved LogStart().           *)
LogSpaceAfterSync == pc # "panic"

(* When FlushLogAndBlocks() returns, every finished transaction is logged, *)
(* and all its blocks are on the disk ("also writes back all dirty         *)
(* blocks"), although it does not wait for blocks that the notifier thread *)
(* is writing.  If the log could not be written before, there are          *)
(* unwritten transactions left, of which this says nothing.                *)
FlushedToDisk ==
  [][pc = "flush" /\ pc' = "unlocked" /\ fUnwrittenTransactions = 0 =>
       logged = Len(finished) /\ disk = Last(finished)]_vars

(* Whoever holds the journal's lock for more than its own transaction      *)
(* gives it back: the lock's owner and the notifier thread never wait for  *)
(* each other, and a replay comes to its end.                              *)
JournalUnlocked ==
  pc \notin {"unlocked", "open"} ~> pc = "unlocked"
=============================================================================
