----------------------------- MODULE BlockCache -----------------------------
(***************************************************************************)
(* The transactions of the kernel's block cache                            *)
(* (src/system/kernel/cache/block_cache.cpp), as operators on the cached   *)
(* blocks of one cache.                                                    *)
(*                                                                         *)
(* A block belongs to at most one open transaction, and at the same time   *)
(* to at most one earlier, closed one whose contents of the block still    *)
(* have to be written back.  original is then what the closed transaction  *)
(* left, parent what the main transaction left before its current sub      *)
(* transaction.  There is at most one open transaction per cache (the      *)
(* cache panics otherwise), so `transaction` is a flag here.               *)
(***************************************************************************)
EXTENDS Integers, SequencesExt, FiniteSetsExt

CONSTANT Blocks   \* the block numbers of the volume outside of the log

ASSUME BlockNumbers == Blocks \subseteq Nat /\ IsFiniteSet(Blocks)

NULL == -1           \* no such buffer
CURRENT_DATA == -2   \* parent_data == current_data: not copied yet
NO_TRANSACTION == 0

(* A block that has just been read from the disk *)
NewBlock(data) ==
  [current |-> data, original |-> NULL, parent |-> NULL,
   transaction |-> FALSE, previous |-> NO_TRANSACTION]

(* The blocks of the open transaction, and those still to be written back  *)
(* for closed transactions                                                 *)
InTransaction(cache) == {b \in Blocks : cache[b].transaction}
InPrevious(cache) == {b \in Blocks : cache[b].previous # NO_TRANSACTION}

(* The arguments of a function to the numbers, sorted by its values        *)
SortedBy(key) ==
  CHOOSE s \in [1 .. Cardinality(DOMAIN key) -> DOMAIN key] :
    \A i, j \in DOMAIN s : i < j => key[s[i]] < key[s[j]]

-----------------------------------------------------------------------------
(* get_writable_cached_block(), without `cleared`, and the caller's change *)
(* of the block's contents                                                 *)
get_writable_cached_block(cache, b, data) ==
  LET block == cache[b] IN
  [cache EXCEPT ![b] =
    [block EXCEPT
       !.transaction = TRUE,
       !.original = IF @ = NULL THEN block.current ELSE @,
       !.parent = IF @ = CURRENT_DATA THEN block.current ELSE @,
       !.current = data]]

(* Everything written so far belongs to the main transaction from now on.  *)
cache_start_sub_transaction(cache) ==
  [b \in Blocks |->
     IF cache[b].transaction THEN [cache[b] EXCEPT !.parent = CURRENT_DATA]
     ELSE cache[b]]

(* Mutant: the block is reverted to what it was before the main            *)
(* transaction.                                                            *)
AbortedSubBlock_Original(block) ==
  [block EXCEPT
     !.current = IF block.original # NULL THEN block.original ELSE @,
     !.parent = NULL]

(* A block after the sub transaction is aborted: one that the main         *)
(* transaction did not change leaves the transaction.                      *)
AbortedSubBlock(block) ==
  IF block.parent = NULL
  THEN [block EXCEPT
          !.current = IF block.original # NULL THEN block.original ELSE @,
          !.original = IF block.previous = NO_TRANSACTION THEN NULL ELSE @,
          !.transaction = FALSE]
  ELSE [block EXCEPT
          !.current = IF block.parent # CURRENT_DATA THEN block.parent ELSE @,
          !.parent = NULL]

cache_abort_sub_transaction(cache) ==
  [b \in Blocks |->
     IF cache[b].transaction THEN AbortedSubBlock(cache[b]) ELSE cache[b]]

cache_abort_transaction(cache) ==
  [b \in Blocks |->
     IF cache[b].transaction
     THEN [cache[b] EXCEPT
             !.current = IF cache[b].original # NULL THEN cache[b].original
                         ELSE @,
             !.original = NULL, !.parent = NULL, !.transaction = FALSE]
     ELSE cache[b]]

(* cache_end_transaction() once the blocks that are still part of an older *)
(* transaction have been written back                                      *)
cache_end_transaction(cache, id) ==
  [b \in Blocks |->
     IF cache[b].transaction
     THEN [cache[b] EXCEPT !.original = NULL, !.parent = NULL,
                           !.previous = id, !.transaction = FALSE]
     ELSE cache[b]]

-----------------------------------------------------------------------------
(* Mutant: always what the block contains now *)
WriteData_Current(block) == block.current

(* BlockWriter::_Data(): the oldest change comes first. *)
WriteData(block) ==
  IF block.previous # NO_TRANSACTION /\ block.original # NULL
  THEN block.original ELSE block.current

(* BlockWriter::_BlockDone() for a set of blocks *)
BlocksDone(cache, done) ==
  [b \in Blocks |->
     IF b \in done /\ cache[b].previous # NO_TRANSACTION
     THEN [cache[b] EXCEPT
             !.previous = NO_TRANSACTION,
             !.original = IF cache[b].transaction THEN @ ELSE NULL]
     ELSE cache[b]]

(* The transactions that this completes, in the order in which their last  *)
(* block is done (blocks are sorted by number)                             *)
WrittenTransactions(cache, done) ==
  LET blocksOf(id) == {b \in Blocks : cache[b].previous = id}
      ids == {cache[b].previous : b \in done} \ {NO_TRANSACTION}
      written == {id \in ids : blocksOf(id) \subseteq done}
  IN SortedBy([id \in written |-> Max(blocksOf(id))])
=============================================================================
