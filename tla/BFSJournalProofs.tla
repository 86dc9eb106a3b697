-------------------------- MODULE BFSJournalProofs --------------------------
(***************************************************************************)
(* Proofs about BFSJournal: for any volume, any size of the log and of its *)
(* arrays, any number of transactions, of failures to write the log and of *)
(* crashes, a replay of the log recovers what was logged, in the           *)
(* behaviours in which no LogBoundary and no HookRace step occurs          *)
(* (OrdinarySpec).  Where one does occur, the journal fails: see the       *)
(* violations of ReplayRecoversLogged.                                     *)
(***************************************************************************)
EXTENDS BFSJournal, QueueLemmas

Labels == {"unlocked", "open", "batch", "log", "flush", "log_write", "log_end",
           "log_super", "log_position", "log_add", "cache_end",
           "cache_end_written", "failed", "replay"}

(* Where the entry of the open transaction is being written, and where it  *)
(* is in the log while the cache's transaction has not ended yet           *)
Logging == {"log_write", "log_end", "log_super", "log_position"}
Closing == {"log_add", "cache_end", "cache_end_written"}

CachedBlocks == [current : Buffers, original : Buffers,
                 parent : Buffers \cup {CURRENT_DATA},
                 transaction : BOOLEAN, previous : Values]
LogBlocks == [runs : Seq(Blocks), data : Buffers]
Positions == 0 .. LogSize - 1
SuperBlocks == [log_start : Positions, log_end : Positions]
LogEntries == [id : 1 .. MaxTransactions, start : Positions]

Types ==
  /\ disk \in [Blocks -> Values]
  /\ log \in [Positions -> LogBlocks]
  /\ superBlock \in SuperBlocks /\ superBlockOnDisk \in SuperBlocks
  /\ LogStart \in Positions /\ LogEnd \in Positions
  /\ fEntries \in Seq(LogEntries)
  /\ entry \in [id : Values, start : Positions, written : Nat]
  /\ fUnwrittenTransactions \in Nat /\ fHasSubtransaction \in BOOLEAN
  /\ started \in Values /\ fTransactionID \in 0 .. started
  /\ pc \in Labels /\ task \in {"client", "flush_log", "flush_all"}
  /\ sync \in {"none", "start", "write", "wait", "done"}
  /\ cache \in [Blocks -> CachedBlocks]
  /\ writer \in [Writers -> [busy : SUBSET Blocks, todo : SUBSET Blocks]]
  /\ pending_notifications \in Seq(Values)
  /\ hook \in {"none", "super", "log_start"}
  /\ crashes \in Nat
  /\ finished \in Seq([Blocks -> Values]) /\ logged \in 1 .. Len(finished)

-----------------------------------------------------------------------------
(* The log as a tape: a function from the distance to its beginning to the *)
(* blocks found there.                                                     *)

IsArray(t, a) == t[a].runs # <<>>

(* Where the array after a begins *)
Past(t, a) == a + Len(t[a].runs) + 1

(* lo .. hi - 1 holds arrays, each followed by the blocks it names.        *)
Chain(t, lo, hi) ==
  /\ lo < hi => IsArray(t, lo)
  /\ \A a \in lo .. hi - 1 : IsArray(t, a) =>
       /\ Past(t, a) <= hi
       /\ Past(t, a) < hi => IsArray(t, Past(t, a))
       /\ IsInjective(t[a].runs)
       /\ \A i \in 1 .. Len(t[a].runs) :
            ~IsArray(t, a + i) /\ t[a + i].data \in Values

(* What is at p is the contents of block b.                                *)
Names(t, p, b) == \E a \in 0 .. p - 1 : p < Past(t, a) /\ t[a].runs[p - a] = b
Named(t, lo, hi, b) == \E p \in lo .. hi - 1 : Names(t, p, b)

(* The last contents of b in the log, if there are any, are v.             *)
LogSays(t, lo, hi, b, v) ==
  \A p \in lo .. hi - 1 :
    Names(t, p, b) /\ ~Named(t, p + 1, hi, b) => t[p].data = v

(* A replay of the log makes v of b.                                       *)
Recovers(t, lo, hi, d, b, v) ==
  LogSays(t, lo, hi, b, v) /\ (~Named(t, lo, hi, b) => d[b] = v)

-----------------------------------------------------------------------------
(* The inductive invariant *)

(* The log from a position on, and the distance of another one to it       *)
TapeOf(l, start) == [i \in Positions |-> l[(start + i) % LogSize]]
Distance(start, p) == IF p >= start THEN p - start ELSE p - start + LogSize

Tape == TapeOf(log, LogStart)
Off(p) == Distance(LogStart, p)

(* What the last closed transaction made of a block, and what the last     *)
(* transaction made of it whose entry LogEnd includes                      *)
Old(b) == IF cache[b].transaction THEN cache[b].original ELSE cache[b].current
Committed(b) == IF pc \in Closing THEN cache[b].current ELSE Old(b)

(* What a running client transaction found                                 *)
Prior(b) ==
  IF ~cache[b].transaction THEN cache[b].current
  ELSE IF ~fHasSubtransaction \/ cache[b].parent = NULL THEN cache[b].original
  ELSE IF cache[b].parent = CURRENT_DATA THEN cache[b].current
  ELSE cache[b].parent

(* The entry of the open transaction is in the log on the disk.            *)
EntryLogged ==
  \/ pc \in Closing \cup {"log_position"}
  \/ pc = "log_super" /\ superBlockOnDisk.log_end = superBlock.log_end

(* Where transactions and their entries are                                *)
ControlInv ==
  /\ sync # "none" => pc \in {"batch", "log", "flush"}
  /\ pc \in {"batch", "flush"} => sync # "none"
  /\ pc = "log" /\ sync # "none" => InTransaction(cache) # {} /\ ~fHasSubtransaction
  /\ pc \in Logging \cup Closing => InTransaction(cache) # {} /\ ~fHasSubtransaction
  /\ pc = "open" /\ fUnwrittenTransactions > 0 => fHasSubtransaction
  /\ pc \in {"unlocked", "open", "flush"} /\ fUnwrittenTransactions = 0 =>
       logged = Len(finished) /\ ~fHasSubtransaction
  /\ pc \in {"unlocked", "flush"} /\ fUnwrittenTransactions = 0 =>
       InTransaction(cache) = {}
  /\ pc = "open" => task = "client"
  /\ pc \in {"log"} \cup Logging /\ task # "client" => fUnwrittenTransactions > 0
  /\ pc = "failed" => ~fHasSubtransaction
  /\ \/ pc \in {"open", "batch", "log"} \cup Logging \cup Closing
     \/ fUnwrittenTransactions > 0
     => fTransactionID > 0
  /\ pc \in Logging \cup {"log_add"} => entry.id = fTransactionID

(* The cached blocks, and what of them is on the disk                      *)
CacheInv ==
  \A b \in Blocks :
    /\ cache[b].current \in Values
    /\ cache[b].transaction => cache[b].original \in Values
    /\ ~cache[b].transaction =>
         cache[b].original \in {NULL, cache[b].current} /\ cache[b].parent = NULL
    /\ IF pc = "open" THEN Prior(b) = Last(finished)[b]
       ELSE cache[b].current = Last(finished)[b]
    /\ cache[b].previous = NO_TRANSACTION => disk[b] = Old(b)
    /\ ~EntryLogged => Old(b) = finished[logged][b]

(* The blocks being written *)
WriterInv ==
  /\ \A w \in Writers :
       /\ writer[w].todo \subseteq writer[w].busy
       /\ writer[w].todo = {} => writer[w].busy = {}
       /\ writer[w].busy \subseteq InPrevious(cache)
       /\ \A b \in writer[w].busy \ writer[w].todo : disk[b] = Old(b)
  /\ writer["journal"].busy \cap writer["notifier"].busy = {}
  /\ writer["journal"].busy # {} => sync = "write" \/ pc = "cache_end_written"
  /\ pc = "cache_end_written" =>
       BlocksInPreviousTransaction \subseteq writer["journal"].busy
  /\ writer["notifier"].busy # {} => hook = "none"

(* cache_sync_transaction() and block_cache_sync()                         *)
SyncInv ==
  /\ sync = "write" => InPrevious(cache) \subseteq Busy
  /\ sync = "wait" => InPrevious(cache) \subseteq writer["notifier"].busy
  /\ sync = "done" => InPrevious(cache) = {}
  /\ sync = "wait" <=> SYNC \in Range(pending_notifications)
  /\ pc # "flush" =>
       /\ sync \in {"write", "wait", "done"} => writer["notifier"].busy = {}
       /\ sync = "wait" => Last(pending_notifications) = SYNC
       /\ sync = "done" => pending_notifications = <<>> /\ hook = "none"

(* The transactions whose blocks are not all on the disk, and those about  *)
(* which the journal has still to be told; the open transaction has no     *)
(* entry yet as long as it is Unlogged.                                    *)
Unlogged ==
  \/ pc \in {"open", "batch", "log", "log_add"} \cup Logging
  \/ fUnwrittenTransactions > 0 /\ pc \notin Closing
EntryIDs == {fEntries[i].id : i \in DOMAIN fEntries}
Awaited == {cache[b].previous : b \in InPrevious(cache)}
NotifyInv ==
  /\ IsInjective(pending_notifications)
  /\ Range(pending_notifications) \ {SYNC} \subseteq EntryIDs
  /\ Awaited \subseteq EntryIDs
  /\ Awaited \cap Range(pending_notifications) = {}
  /\ \A id \in EntryIDs :
       \/ id \in Awaited \cup Range(pending_notifications)
       \/ pc \in {"cache_end", "cache_end_written"} /\ id = fTransactionID
  /\ \A id \in EntryIDs : id <= fTransactionID
  /\ Unlogged => fTransactionID \notin EntryIDs
  /\ pc \in {"cache_end", "cache_end_written"} =>
       fTransactionID \notin Awaited \cup Range(pending_notifications)

(* The pointers to the log *)
Tip == IF pc = "log_add" THEN entry.start ELSE LogEnd
Start(i) == Off(fEntries[i].start)
PointerInv ==
  /\ superBlockOnDisk.log_start \in {LogStart, superBlock.log_start}
  /\ hook = "none" => superBlock.log_start = LogStart
  /\ hook = "log_start" => superBlockOnDisk.log_start = superBlock.log_start
  /\ pc \notin {"log_super", "log_position"} => superBlock.log_end = LogEnd
  /\ pc \notin {"log_super", "log_position"} =>
       superBlockOnDisk.log_end = superBlock.log_end
  /\ pc \in {"log_super", "log_position"} =>
       superBlock.log_end = LogPosition(entry.start, entry.written)
  /\ pc = "log_super" => superBlockOnDisk.log_end \in {LogEnd, superBlock.log_end}
  /\ pc = "log_position" => superBlockOnDisk.log_end = superBlock.log_end
  /\ pc \in Logging => entry.start = LogEnd
  /\ pc = "log_add" => Off(LogEnd) = Off(entry.start) + entry.written
  /\ EntryLogged => logged = Len(finished)

(* The entries of the list *)
EntriesInv ==
  /\ superBlock.log_start = IF fEntries # <<>> THEN fEntries[1].start ELSE Tip
  /\ \A i \in DOMAIN fEntries : IsArray(Tape, Start(i)) /\ Start(i) < Off(Tip)
  /\ \A i, j \in DOMAIN fEntries :
       i < j => fEntries[i].id < fEntries[j].id /\ Start(i) < Start(j)
  /\ pc = "log_add" => IsArray(Tape, Off(Tip))

(* The entry being written *)
EntryInv ==
  pc \in Logging =>
    /\ Off(LogEnd) + LogEntryLength < LogSize
    /\ LogPosition(LogEnd, LogEntryLength) # LogSize
    /\ IF pc = "log_write" THEN entry.written < LogEntryLength
       ELSE entry.written = LogEntryLength
    /\ \A i \in 0 .. entry.written - 1 : Tape[Off(LogEnd) + i] = EntryBlock(i)

(* What the log says of the blocks *)
LogInv ==
  /\ \A b \in Blocks : LogSays(Tape, 0, Off(LogEnd), b, Committed(b))
  /\ \A b \in InPrevious(cache) : \E i \in DOMAIN fEntries :
       /\ fEntries[i].id = cache[b].previous
       /\ Named(Tape, Start(i), Off(LogEnd), b)
  /\ pc = "log_add" =>
       \A b \in InTransaction(cache) : Named(Tape, Off(entry.start), Off(LogEnd), b)
  /\ pc \in {"cache_end", "cache_end_written"} =>
       /\ fEntries # <<>> /\ Last(fEntries).id = fTransactionID
       /\ \A b \in InTransaction(cache) :
            Named(Tape, Start(Len(fEntries)), Off(LogEnd), b)

MountedInv ==
  /\ ControlInv /\ CacheInv /\ WriterInv /\ SyncInv /\ NotifyInv
  /\ PointerInv /\ EntriesInv /\ EntryInv /\ LogInv

(* While the log is replayed there is nothing but it and the disk.  What   *)
(* it says up to where the replay has come is on the disk.                 *)
At == Off(entry.start) + entry.written
ReplayInv ==
  /\ superBlock = superBlockOnDisk
  /\ LogStart = superBlock.log_start /\ LogEnd = superBlock.log_end
  /\ fEntries = <<>> /\ pending_notifications = <<>> /\ hook = "none"
  /\ writer = [w \in Writers |-> Idle] /\ sync = "none"
  /\ fUnwrittenTransactions = 0 /\ ~fHasSubtransaction
  /\ InPrevious(cache) = {} /\ InTransaction(cache) = {}
  /\ logged = Len(finished)
  /\ \A b \in Blocks : Recovers(Tape, 0, Off(LogEnd), disk, b, finished[logged][b])
  /\ Off(entry.start) <= Off(LogEnd)
  /\ IF entry.start = LogEnd THEN entry.written = 0
     ELSE /\ IsArray(Tape, Off(entry.start))
          /\ entry.written <= Len(Tape[Off(entry.start)].runs)
  /\ \A b \in Blocks : LogSays(Tape, 0, At + 1, b, disk[b])

Inv ==
  /\ Types
  /\ Chain(Tape, 0, Off(LogEnd))
  /\ pc # "replay" => MountedInv
  /\ pc = "replay" => ReplayInv

-----------------------------------------------------------------------------
(* Sorting *)

Lists(f, T, n) ==
  /\ f \in [1 .. n -> T]
  /\ \A i, j \in 1 .. n : i < j => f[i] < f[j]
  /\ \A x \in T : \E i \in 1 .. n : f[i] = x

(* A finite set of numbers can be listed by increasing size.               *)
LEMMA IncreasingList ==
  ASSUME NEW T \in SUBSET Nat, IsFiniteSet(T)
  PROVE  \E f : Lists(f, T, Cardinality(T))
<1> DEFINE P == {n \in Nat : \A U \in SUBSET Nat :
                   IsFiniteSet(U) /\ Cardinality(U) = n => \E f : Lists(f, U, n)}
<1>1. 0 \in P
  <2> SUFFICES ASSUME NEW U \in SUBSET Nat, IsFiniteSet(U), Cardinality(U) = 0
               PROVE  \E f : Lists(f, U, 0)
    OBVIOUS
  <2>1. U = {}
    BY FS_EmptySet
  <2>2. Lists([i \in 1 .. 0 |-> 0], U, 0)
    BY <2>1 DEF Lists
  <2> QED
    BY <2>2
<1>2. ASSUME NEW n \in 1 .. Cardinality(T), n - 1 \in P
      PROVE  n \in P
  <2> SUFFICES ASSUME NEW U \in SUBSET Nat, IsFiniteSet(U), Cardinality(U) = n
               PROVE  \E f : Lists(f, U, n)
    OBVIOUS
  <2> DEFINE m == Min(U)
             V == U \ {m}
  <2>1. U # {}
    BY FS_EmptySet
  <2>2. m \in U /\ \A y \in U : m <= y
    BY <2>1, LeastNat
  <2>3. IsFiniteSet(V) /\ Cardinality(V) = n - 1
    BY <2>2, FS_RemoveElement
  <2> HIDE DEF m
  <2>4. V \in SUBSET Nat /\ U = V \cup {m} /\ m \in Nat /\ \A y \in V : m < y
    BY <2>2
  <2> HIDE DEF V
  <2>5. PICK f : Lists(f, V, n - 1)
    BY <1>2, <2>3, <2>4
  <2> DEFINE g == [i \in 1 .. n |-> IF i = 1 THEN m ELSE f[i - 1]]
  <2>6. f \in [1 .. n - 1 -> V]
        /\ (\A i, j \in 1 .. n - 1 : i < j => f[i] < f[j])
        /\ \A x \in V : \E i \in 1 .. n - 1 : f[i] = x
    BY <2>5 DEF Lists
  <2>7. \A i \in 2 .. n : i - 1 \in 1 .. n - 1 /\ g[i] = f[i - 1] /\ g[i] \in V
    BY <2>6
  <2>8. g[1] = m
    OBVIOUS
  <2>9. g \in [1 .. n -> U]
    BY <2>4, <2>6
  <2>10. ASSUME NEW i \in 1 .. n, NEW j \in 1 .. n, i < j
         PROVE  g[i] < g[j]
    <3>1. j \in 2 .. n
      BY <2>10
    <3>2. CASE i = 1
      BY <3>1, <3>2, <2>4, <2>7, <2>8
    <3>3. CASE i # 1
      <4>1. i \in 2 .. n /\ i - 1 < j - 1
        BY <3>3, <2>10
      <4> QED
        BY <4>1, <3>1, <2>6, <2>7
    <3> QED
      BY <3>2, <3>3
  <2>11. ASSUME NEW x \in U
         PROVE  \E i \in 1 .. n : g[i] = x
    <3>1. CASE x = m
      BY <3>1, <2>8
    <3>2. CASE x \in V
      <4>1. PICK i \in 1 .. n - 1 : f[i] = x
        BY <3>2, <2>6
      <4>2. i + 1 \in 2 .. n /\ (i + 1) - 1 = i
        BY <4>1
      <4> QED
        BY <4>1, <4>2, <2>7, SMTT(30)
    <3> QED
      BY <3>1, <3>2, <2>4
  <2>12. Lists(g, U, n)
    BY <2>9, <2>10, <2>11 DEF Lists
  <2> QED
    BY <2>12
<1>3. Cardinality(T) \in Nat
  BY FS_CardinalityType
<1>4. \A i \in 0 .. Cardinality(T) : i \in P
  <2> HIDE DEF P
  <2> QED
    BY <1>1, <1>2, <1>3, CountUp
<1>5. Cardinality(T) \in P
  BY <1>3, <1>4
<1> QED
  BY <1>5

LEMMA GreatestNat ==
  ASSUME NEW T \in SUBSET Nat, IsFiniteSet(T), T # {}
  PROVE  Max(T) \in T /\ \A y \in T : y <= Max(T)
<1> DEFINE n == Cardinality(T)
<1>1. PICK f : Lists(f, T, n)
  BY IncreasingList
<1>2. n \in Nat /\ n # 0
  BY FS_CardinalityType, FS_EmptySet
<1> HIDE DEF n
<1>3. f[n] \in T
  BY <1>1, <1>2 DEF Lists
<1>4. ASSUME NEW y \in T
      PROVE  f[n] >= y
  <2>1. PICK i \in 1 .. n : f[i] = y
    BY <1>1 DEF Lists
  <2>2. i < n => f[i] < f[n]
    BY <1>1, <1>2 DEF Lists
  <2>3. i = n \/ i < n
    BY <1>2
  <2>4. f[n] \in Nat /\ y \in Nat
    BY <1>3
  <2>5. CASE i = n
    BY <2>1, <2>4, <2>5
  <2>6. CASE i < n
    BY <2>1, <2>2, <2>4, <2>6
  <2> QED
    BY <2>3, <2>5, <2>6
<1>5. Max(T) \in T /\ \A y \in T : Max(T) >= y
  BY <1>3, <1>4 DEF Max
<1> QED
  BY <1>5

(* SortedBy() lists the arguments of the function, each of them once.      *)
LEMMA SortedBySeq ==
  ASSUME NEW S, IsFiniteSet(S), NEW key \in [S -> Nat], IsInjective(key)
  PROVE  /\ SortedBy(key) \in Seq(S) /\ IsInjective(SortedBy(key))
         /\ Range(SortedBy(key)) = S /\ Len(SortedBy(key)) = Cardinality(S)
<1> DEFINE T == {key[x] : x \in S}
           n == Cardinality(S)
           r == SortedBy(key)
<1>1. n \in Nat
  BY FS_CardinalityType
<1>2. ExistsBijection(S, T)
  <2>1. key \in Bijection(S, T)
    BY DEF Bijection, Injection, Surjection, IsInjective
  <2> QED
    BY <2>1 DEF ExistsBijection
<1>3. T \in SUBSET Nat /\ IsFiniteSet(T) /\ Cardinality(T) = n
  BY <1>2, FS_Bijection
<1>4. \A x \in S : key[x] \in Nat /\ key[x] \in T
  OBVIOUS
<1>5. \A y \in T : \E x \in S : key[x] = y
  OBVIOUS
<1>6. PICK f : Lists(f, T, n)
  BY <1>3, IncreasingList
<1> DEFINE Sorted(s) == \A i, j \in DOMAIN s : i < j => key[s[i]] < key[s[j]]
<1>7. \E s \in [1 .. n -> S] : Sorted(s)
  <2> DEFINE s == [i \in 1 .. n |-> CHOOSE x \in S : key[x] = f[i]]
  <2>1. \A i \in 1 .. n : s[i] \in S /\ key[s[i]] = f[i]
    BY <1>5, <1>6 DEF Lists
  <2>2. s \in [1 .. n -> S] /\ DOMAIN s = 1 .. n
    BY <2>1
  <2> HIDE DEF s
  <2>3. Sorted(s)
    BY <1>6, <2>1, <2>2 DEF Lists
  <2> QED
    BY <2>2, <2>3
<1>8. r = CHOOSE s \in [1 .. n -> S] : Sorted(s)
  BY DEF SortedBy
<1> HIDE DEF n, r, T
<1>9. r \in [1 .. n -> S] /\ Sorted(r)
  BY <1>7, <1>8
<1>10. r \in Seq(S) /\ Len(r) = n /\ DOMAIN r = 1 .. n
  <2>1. r \in [1 .. n -> S] /\ n \in Nat
    BY <1>1, <1>9
  <2> QED
    BY <2>1
<1>11. ASSUME NEW i \in 1 .. n, NEW j \in 1 .. n, r[i] = r[j]
       PROVE  i = j
  <2>1. i < j => key[r[i]] < key[r[j]]
    BY <1>9, <1>10
  <2>2. j < i => key[r[j]] < key[r[i]]
    BY <1>9, <1>10
  <2>3. key[r[i]] \in Nat /\ key[r[i]] = key[r[j]]
    BY <1>4, <1>9, <1>11
  <2> HIDE DEF Sorted
  <2>4. ~(i < j) /\ ~(j < i)
    BY <2>1, <2>2, <2>3
  <2> QED
    BY <1>1, <2>4
<1>12. IsInjective(r)
  BY <1>10, <1>11 DEF IsInjective
<1>13. Range(r) = S
  <2>1. r \in Injection(1 .. n, S)
    BY <1>9, <1>11 DEF Injection, IsInjective
  <2>2. Cardinality(1 .. n) = n
    BY <1>1, FS_Interval
  <2>3. r \in Surjection(1 .. n, S)
    BY <2>1, <2>2, FS_Injection DEF n
  <2> QED
    BY <1>9, <1>10, <2>3 DEF Surjection, Range
<1> QED
  BY <1>10, <1>12, <1>13 DEF n, r

-----------------------------------------------------------------------------
(* Positions in the log *)

LEMMA Wrap ==
  ASSUME NEW x \in 0 .. 2 * LogSize - 1
  PROVE  x % LogSize = IF x < LogSize THEN x ELSE x - LogSize
<1> DEFINE n == LogSize
           q == x \div n
           r == x % n
<1>1. n \in Nat \ {0} /\ x \in Int
  BY JournalConstants
<1>2. x = n * q + r /\ q \in Int /\ r \in 0 .. n - 1
  BY <1>1
<1>3. x \in 0 .. 2 * n - 1
  OBVIOUS
<1> HIDE DEF n, q, r
<1>4. q < 2
  <2> SUFFICES ASSUME q >= 2 PROVE FALSE
    BY <1>2
  <2>1. n * q >= n * 2
    BY <1>1, <1>2
  <2> QED
    BY <1>1, <1>2, <1>3, <2>1
<1>5. q > -1
  <2> SUFFICES ASSUME q <= -1 PROVE FALSE
    BY <1>2
  <2>1. n * q <= -n
    BY <1>1, <1>2
  <2> QED
    BY <1>1, <1>2, <1>3, <2>1
<1>6. q = 0 \/ q = 1
  BY <1>2, <1>4, <1>5
<1>7. CASE q = 0
  <2>1. x = r
    BY <1>1, <1>2, <1>7
  <2> QED
    BY <1>1, <1>2, <2>1 DEF r, n
<1>8. CASE q = 1
  <2>1. x = n + r
    BY <1>1, <1>2, <1>8
  <2>2. x >= n /\ r = x - n
    BY <1>1, <1>2, <2>1
  <2> QED
    BY <1>1, <1>3, <2>2 DEF r, n
<1> QED
  BY <1>6, <1>7, <1>8

(* The distance determines the position.                                   *)
LEMMA DistanceType ==
  ASSUME NEW start \in Positions, NEW p \in Positions
  PROVE  /\ Distance(start, p) \in Positions
         /\ Distance(start, start) = 0
         /\ \A q \in Positions : Distance(start, p) = Distance(start, q) => p = q
         /\ (start + Distance(start, p)) % LogSize = p
         /\ p % LogSize = p
<1>1. LogSize \in Nat \ {0}
  BY JournalConstants
<1>2. /\ Distance(start, p) \in Positions
      /\ Distance(start, start) = 0
      /\ \A q \in Positions : Distance(start, p) = Distance(start, q) => p = q
  BY <1>1 DEF Distance, Positions
<1>3. (start + Distance(start, p)) % LogSize = p
  <2> DEFINE x == start + Distance(start, p)
  <2>1. x \in 0 .. 2 * LogSize - 1
    BY <1>1 DEF Distance, Positions
  <2>2. x = IF p >= start THEN p ELSE p + LogSize
    BY <1>1 DEF Distance, Positions
  <2> HIDE DEF x
  <2>3. x % LogSize = IF x < LogSize THEN x ELSE x - LogSize
    BY <2>1, Wrap
  <2> QED
    BY <1>1, <2>2, <2>3 DEF Positions, x
<1>4. p \in 0 .. 2 * LogSize - 1 /\ p < LogSize
  BY <1>1 DEF Positions
<1>5. p % LogSize = p
  BY <1>4, Wrap
<1> QED
  BY <1>2, <1>3, <1>5

LEMMA TapeType ==
  ASSUME NEW l \in [Positions -> LogBlocks], NEW start \in Positions
  PROVE  /\ TapeOf(l, start) \in [Positions -> LogBlocks]
         /\ \A p \in Positions : TapeOf(l, start)[Distance(start, p)] = l[p]
<1>1. ASSUME NEW i \in Positions
      PROVE  (start + i) % LogSize \in Positions
  BY JournalConstants DEF Positions
<1>2. ASSUME NEW p \in Positions
      PROVE  TapeOf(l, start)[Distance(start, p)] = l[p]
  BY DistanceType DEF TapeOf
<1> QED
  BY <1>1, <1>2 DEF TapeOf

(* d blocks after a position                                               *)
LEMMA StepOn ==
  ASSUME NEW start \in Positions, NEW p \in Positions, NEW d \in Nat,
         Distance(start, p) + d < LogSize
  PROVE  /\ (p + d) % LogSize \in Positions
         /\ Distance(start, (p + d) % LogSize) = Distance(start, p) + d
<1>1. LogSize \in Nat \ {0}
  BY JournalConstants
<1>2. p + d \in 0 .. 2 * LogSize - 1
  BY <1>1 DEF Distance, Positions
<1> DEFINE x == p + d
<1>3. x % LogSize = IF x < LogSize THEN x ELSE x - LogSize
  <2>1. x \in 0 .. 2 * LogSize - 1
    BY <1>2
  <2> HIDE DEF x
  <2> QED
    BY <2>1, Wrap
<1>4. x = p + d
  OBVIOUS
<1> HIDE DEF x
<1> DEFINE r == x % LogSize
<1>6. r = IF x < LogSize THEN x ELSE x - LogSize
  BY <1>3
<1> HIDE DEF r
<1>5. r \in Positions /\ Distance(start, r) = Distance(start, p) + d
  BY <1>1, <1>4, <1>6 DEF Distance, Positions
<1> QED
  BY <1>5 DEF r, x

(* The log seen from a later position                                      *)
LEMMA Rebase ==
  ASSUME NEW l \in [Positions -> LogBlocks],
         NEW start \in Positions, NEW s \in Positions
  PROVE  /\ \A p \in Positions : Distance(start, p) >= Distance(start, s) =>
              Distance(s, p) = Distance(start, p) - Distance(start, s)
         /\ \A i \in Nat : i + Distance(start, s) < LogSize =>
              TapeOf(l, s)[i] = TapeOf(l, start)[i + Distance(start, s)]
<1>1. LogSize \in Nat \ {0}
  BY JournalConstants
<1>2. \A p \in Positions : Distance(start, p) >= Distance(start, s) =>
        Distance(s, p) = Distance(start, p) - Distance(start, s)
  BY <1>1 DEF Distance, Positions
<1>3. ASSUME NEW i \in Nat, i + Distance(start, s) < LogSize
      PROVE  TapeOf(l, s)[i] = TapeOf(l, start)[i + Distance(start, s)]
  <2> DEFINE p == (s + i) % LogSize
             d == Distance(start, s)
  <2>1. d \in Positions
    BY DistanceType
  <2>2. p \in Positions /\ Distance(start, p) = i + d
    BY <1>3, <2>1, StepOn DEF Positions
  <2>3. TapeOf(l, start)[i + d] = l[p]
    <3> HIDE DEF p, d
    <3> QED
      BY <2>2, TapeType
  <2>4. i \in Positions
    BY <1>1, <1>3, <2>1 DEF Positions
  <2>5. TapeOf(l, s)[i] = l[p]
    BY <2>4 DEF TapeOf
  <2> QED
    BY <2>3, <2>5
<1> QED
  BY <1>2, <1>3

-----------------------------------------------------------------------------
(* Chains of arrays *)

Tapes == [Positions -> LogBlocks]

(* The first array, the one after an array, what an array names, and who   *)
(* names a block of the log                                                *)
LEMMA ChainFacts ==
  ASSUME NEW t \in Tapes, NEW n \in 0 .. LogSize, Chain(t, 0, n)
  PROVE  /\ \A a \in 0 .. n - 1 :
              /\ t[a].runs \in Seq(Blocks) /\ Len(t[a].runs) \in Nat
              /\ Past(t, a) \in Nat /\ Past(t, a) > a
              /\ IsArray(t, a) <=> Len(t[a].runs) > 0
         /\ \A a \in 0 .. n - 1 : IsArray(t, a) =>
              /\ Past(t, a) <= n
              /\ Past(t, a) < n => IsArray(t, Past(t, a))
              /\ \A p \in a + 1 .. Past(t, a) - 1 :
                   ~IsArray(t, p) /\ t[p].data \in Values
<1>1. LogSize \in Nat \ {0}
  BY JournalConstants
<1>2. ASSUME NEW a \in 0 .. n - 1
      PROVE  /\ t[a].runs \in Seq(Blocks) /\ Len(t[a].runs) \in Nat
             /\ Past(t, a) \in Nat /\ Past(t, a) > a
             /\ IsArray(t, a) <=> Len(t[a].runs) > 0
  <2>1. t[a].runs \in Seq(Blocks)
    BY <1>1 DEF Tapes, Positions, LogBlocks
  <2> DEFINE r == t[a].runs
  <2>2. r \in Seq(Blocks)
    BY <2>1
  <2> HIDE DEF r
  <2>3. Len(r) \in Nat /\ (r # <<>> <=> Len(r) > 0)
    BY <2>2, EmptySeq, LenProperties
  <2> QED
    BY <2>2, <2>3 DEF r, Past, IsArray
<1>3. ASSUME NEW a \in 0 .. n - 1, IsArray(t, a)
      PROVE  /\ Past(t, a) <= n
             /\ Past(t, a) < n => IsArray(t, Past(t, a))
             /\ \A p \in a + 1 .. Past(t, a) - 1 :
                  ~IsArray(t, p) /\ t[p].data \in Values
  <2>1. /\ Past(t, a) <= n
        /\ Past(t, a) < n => IsArray(t, Past(t, a))
        /\ \A i \in 1 .. Len(t[a].runs) :
             ~IsArray(t, a + i) /\ t[a + i].data \in Values
    BY <1>3 DEF Chain
  <2>2. ASSUME NEW p \in a + 1 .. Past(t, a) - 1
        PROVE  ~IsArray(t, p) /\ t[p].data \in Values
    <3> DEFINE i == p - a
               k == Len(t[a].runs)
    <3>1. k \in Nat /\ Past(t, a) = a + k + 1
      BY <1>2 DEF Past
    <3> HIDE DEF k
    <3>2. i \in 1 .. k /\ a + i = p
      BY <3>1
    <3> HIDE DEF i
    <3> QED
      BY <2>1, <3>2 DEF k
  <2> QED
    BY <2>1, <2>2
<1> QED
  BY <1>2, <1>3

(* Where an array begins, or the log ends                                  *)
Boundary(t, m, n) == m = n \/ IsArray(t, m)

LEMMA ChainBoundary ==
  ASSUME NEW t \in Tapes, NEW n \in 0 .. LogSize, Chain(t, 0, n),
         NEW m \in 0 .. n, Boundary(t, m, n)
  PROVE  /\ \A a \in 0 .. m - 1 : Past(t, a) <= m
         /\ \A b : ~Names(t, m, b)
<1>1. n \in Nat /\ m \in Nat
  BY JournalConstants
<1>2. ASSUME NEW a \in 0 .. m - 1
      PROVE  Past(t, a) <= m
  <2>1. a \in 0 .. n - 1
    BY <1>1
  <2>2. Past(t, a) \in Nat /\ Past(t, a) > a
    BY <2>1, ChainFacts
  <2>3. CASE IsArray(t, a)
    <3> SUFFICES ASSUME Past(t, a) > m PROVE FALSE
      BY <1>1, <2>2
    <3>1. Past(t, a) <= n /\ \A p \in a + 1 .. Past(t, a) - 1 : ~IsArray(t, p)
      BY <2>1, <2>3, ChainFacts
    <3>2. m \in a + 1 .. Past(t, a) - 1
      BY <1>1, <2>2
    <3>3. m # n
      BY <1>1, <2>2, <3>1
    <3> QED
      BY <3>1, <3>2, <3>3 DEF Boundary
  <2>4. CASE ~IsArray(t, a)
    <3>1. Len(t[a].runs) \in Nat /\ ~(Len(t[a].runs) > 0)
      BY <2>1, <2>4, ChainFacts
    <3>2. Past(t, a) = a + 1
      BY <3>1 DEF Past
    <3> QED
      BY <1>1, <3>2
  <2> QED
    BY <2>3, <2>4
<1>3. ASSUME NEW b, Names(t, m, b)
      PROVE  FALSE
  <2>1. PICK a \in 0 .. m - 1 : m < Past(t, a)
    BY <1>3 DEF Names
  <2>2. Past(t, a) <= m
    BY <1>2
  <2>3. Past(t, a) \in Nat
    BY <1>1, ChainFacts
  <2> QED
    BY <1>1, <2>1, <2>2, <2>3
<1> QED
  BY <1>2, <1>3

(* What is named is named by an array, and it is data.                     *)
LEMMA NamesArray ==
  ASSUME NEW t \in Tapes, NEW n \in 0 .. LogSize, Chain(t, 0, n),
         NEW p \in 0 .. n - 1, NEW b, Names(t, p, b)
  PROVE  /\ t[p].data \in Values /\ ~IsArray(t, p)
         /\ \E a \in 0 .. p - 1 :
              IsArray(t, a) /\ p < Past(t, a) /\ t[a].runs[p - a] = b
<1>1. n \in Nat
  BY JournalConstants
<1>2. PICK a \in 0 .. p - 1 : p < Past(t, a) /\ t[a].runs[p - a] = b
  BY DEF Names
<1>3. a \in 0 .. n - 1
  BY <1>1
<1>4. Len(t[a].runs) \in Nat /\ Past(t, a) = a + Len(t[a].runs) + 1
  BY <1>3, ChainFacts DEF Past
<1>5. Len(t[a].runs) > 0
  BY <1>1, <1>2, <1>4
<1>6. IsArray(t, a)
  BY <1>3, <1>5, ChainFacts
<1>7. p \in a + 1 .. Past(t, a) - 1
  BY <1>1, <1>2, <1>4
<1> QED
  BY <1>2, <1>3, <1>6, <1>7, ChainFacts

(* An array names what follows it, and nothing else does.                  *)
LEMMA ArrayNames ==
  ASSUME NEW t \in Tapes, NEW n \in 0 .. LogSize, Chain(t, 0, n),
         NEW a \in 0 .. n - 1, IsArray(t, a),
         NEW i \in 1 .. Len(t[a].runs), NEW b
  PROVE  /\ a + i \in 0 .. n - 1
         /\ Names(t, a + i, b) <=> t[a].runs[i] = b
<1>1. n \in Nat
  BY JournalConstants
<1> DEFINE p == a + i
<1>2. Len(t[a].runs) \in Nat /\ Past(t, a) = a + Len(t[a].runs) + 1 /\ Past(t, a) <= n
  BY ChainFacts DEF Past
<1>3. p \in 0 .. n - 1 /\ a \in 0 .. p - 1 /\ p < Past(t, a) /\ p - a = i
  BY <1>1, <1>2
<1>4. ASSUME t[a].runs[i] = b
      PROVE  Names(t, p, b)
  <2> HIDE DEF p
  <2> QED
    BY <1>3, <1>4 DEF Names
<1>5. ASSUME Names(t, p, b)
      PROVE  t[a].runs[i] = b
  <2> HIDE DEF p
  <2>1. PICK c \in 0 .. p - 1 :
          IsArray(t, c) /\ p < Past(t, c) /\ t[c].runs[p - c] = b
    BY <1>3, <1>5, NamesArray
  <2>2. c \in 0 .. n - 1 /\ Past(t, c) \in Nat /\ Past(t, a) \in Nat
    BY <1>1, <1>2, <1>3, ChainFacts
  <2>3. c < a => Past(t, c) <= a
    BY <2>2, ChainBoundary DEF Boundary
  <2>4. c > a => c \in a + 1 .. Past(t, a) - 1
    BY <1>1, <1>3, <2>2
  <2>5. ~(c > a)
    BY <2>1, <2>2, <2>4, ChainFacts
  <2>6. ~(c < a)
    BY <1>1, <1>3, <2>1, <2>2, <2>3
  <2>7. c = a
    BY <1>1, <2>2, <2>5, <2>6
  <2> QED
    BY <1>3, <2>1, <2>7
<1> QED
  BY <1>3, <1>4, <1>5

(* The tape u begins d blocks later than the tape t.                       *)
Shifted(u, t, d, n) == \A i \in 0 .. n - d - 1 : u[i] = t[i + d]

LEMMA ChainShift ==
  ASSUME NEW t \in Tapes, NEW u \in Tapes, NEW n \in 0 .. LogSize,
         NEW d \in 0 .. n, Chain(t, 0, n), Boundary(t, d, n), Shifted(u, t, d, n)
  PROVE  Chain(u, 0, n - d)
<1>1. n \in Nat /\ d \in Nat
  BY JournalConstants
<1> DEFINE m == n - d
<1>2. m \in 0 .. LogSize /\ m \in Nat
  BY <1>1, JournalConstants
<1>3. \A i \in 0 .. m - 1 : u[i] = t[i + d] /\ i + d \in 0 .. n - 1
  BY <1>1 DEF Shifted
<1>4. 0 < m => IsArray(u, 0)
  <2> SUFFICES ASSUME 0 < m PROVE IsArray(u, 0)
    OBVIOUS
  <2>1. u[0] = t[d]
    BY <1>1, <1>3
  <2> QED
    BY <1>1, <2>1 DEF Boundary, IsArray
<1>5. ASSUME NEW a \in 0 .. m - 1, IsArray(u, a)
      PROVE  /\ Past(u, a) <= m
             /\ Past(u, a) < m => IsArray(u, Past(u, a))
             /\ IsInjective(u[a].runs)
             /\ \A i \in 1 .. Len(u[a].runs) :
                  ~IsArray(u, a + i) /\ u[a + i].data \in Values
  <2> DEFINE c == a + d
             k == Len(t[c].runs)
  <2>1. u[a] = t[c] /\ c \in 0 .. n - 1 /\ IsArray(t, c)
    BY <1>3, <1>5 DEF IsArray
  <2>2. Past(t, c) \in Nat /\ Past(t, c) <= n /\ k \in Nat
        /\ (Past(t, c) < n => IsArray(t, Past(t, c)))
    BY <2>1, ChainFacts
  <2>3. Past(t, c) = c + k + 1 /\ Past(u, a) = a + k + 1
    BY <2>1 DEF Past
  <2>4. \A i \in 1 .. k : ~IsArray(t, c + i) /\ t[c + i].data \in Values
    BY <2>1 DEF Chain
  <2>5. c = a + d /\ a \in Nat
    OBVIOUS
  <2>5a. k = Len(u[a].runs)
    BY <2>1
  <2> HIDE DEF c, k, m
  <2>6. Past(u, a) <= m /\ (Past(u, a) = m <=> Past(t, c) = n)
        /\ Past(t, c) = Past(u, a) + d /\ Past(u, a) \in Nat
    BY <1>1, <2>2, <2>3, <2>5 DEF m
  <2>7. ASSUME Past(u, a) < m
        PROVE  IsArray(u, Past(u, a))
    <3>1. u[Past(u, a)] = t[Past(t, c)]
      BY <1>2, <1>3, <2>6, <2>7
    <3>2. Past(t, c) < n
      BY <1>1, <1>2, <2>2, <2>6, <2>7
    <3> QED
      BY <2>2, <3>1, <3>2 DEF IsArray
  <2>8. IsInjective(u[a].runs)
    BY <2>1 DEF Chain
  <2>9. ASSUME NEW i \in 1 .. k
        PROVE  ~IsArray(u, a + i) /\ u[a + i].data \in Values
    <3>1. a + i \in 0 .. m - 1 /\ (a + i) + d = c + i
      BY <1>1, <1>2, <2>2, <2>3, <2>5, <2>6
    <3>2. u[a + i] = t[c + i]
      BY <1>3, <3>1
    <3> QED
      BY <2>4, <3>2 DEF IsArray
  <2> QED
    BY <2>5a, <2>6, <2>7, <2>8, <2>9
<1> QED
  BY <1>4, <1>5 DEF Chain

LEMMA NamesShift ==
  ASSUME NEW t \in Tapes, NEW u \in Tapes, NEW n \in 0 .. LogSize,
         NEW d \in 0 .. n, Chain(t, 0, n), Boundary(t, d, n), Shifted(u, t, d, n),
         NEW b
  PROVE  \A p \in 0 .. n - d - 1 : Names(u, p, b) <=> Names(t, p + d, b)
<1>1. n \in Nat /\ d \in Nat
  BY JournalConstants
<1>3. \A i \in 0 .. n - d - 1 : u[i] = t[i + d] /\ i + d \in 0 .. n - 1
  BY <1>1 DEF Shifted
<1> SUFFICES ASSUME NEW p \in 0 .. n - d - 1
             PROVE  Names(u, p, b) <=> Names(t, p + d, b)
  OBVIOUS
<1> DEFINE q == p + d
<1>4. q \in 0 .. n - 1 /\ p \in Nat
  BY <1>1
<1>5. ASSUME Names(u, p, b)
      PROVE  Names(t, q, b)
  <2>1. PICK a \in 0 .. p - 1 : p < Past(u, a) /\ u[a].runs[p - a] = b
    BY <1>5 DEF Names
  <2> DEFINE c == a + d
             k == Len(t[c].runs)
  <2>2. u[a] = t[c] /\ c \in 0 .. n - 1
    BY <1>1, <1>3, <1>4
  <2>3. k \in Nat /\ Past(u, a) = a + k + 1 /\ Past(t, c) = c + k + 1
    BY <2>2, ChainFacts DEF Past
  <2>4. c = a + d /\ q = p + d
    OBVIOUS
  <2> HIDE DEF c, k, q
  <2>5. c \in 0 .. q - 1 /\ q < Past(t, c) /\ q - c = p - a
    BY <1>1, <1>4, <2>1, <2>2, <2>3, <2>4
  <2> QED
    BY <2>1, <2>2, <2>5 DEF Names
<1>6. ASSUME Names(t, q, b)
      PROVE  Names(u, p, b)
  <2> HIDE DEF q
  <2>1. PICK c \in 0 .. q - 1 : q < Past(t, c) /\ t[c].runs[q - c] = b
    BY <1>6 DEF Names
  <2>2. c < d => Past(t, c) <= d
    BY <1>1, <1>4, ChainBoundary
  <2>3. c \in 0 .. n - 1 /\ Past(t, c) \in Nat
    BY <1>1, <1>4, ChainFacts
  <2>4. c >= d
    BY <1>1, <1>4, <2>1, <2>2, <2>3 DEF q
  <2> DEFINE a == c - d
             k == Len(t[c].runs)
  <2>5. a \in 0 .. p - 1 /\ a + d = c /\ q - c = p - a
    BY <1>1, <1>4, <2>3, <2>4 DEF q
  <2> HIDE DEF a
  <2>6. u[a] = t[c]
    BY <1>1, <1>3, <1>4, <2>5
  <2>7. k \in Nat /\ Past(u, a) = a + k + 1 /\ Past(t, c) = c + k + 1
    BY <2>3, <2>6, ChainFacts DEF Past
  <2> HIDE DEF k
  <2>8. p < Past(u, a)
    BY <1>1, <1>4, <2>1, <2>3, <2>5, <2>7 DEF q
  <2> QED
    BY <2>1, <2>5, <2>6, <2>8 DEF Names
<1> QED
  BY <1>5, <1>6

LEMMA SaysShift ==
  ASSUME NEW t \in Tapes, NEW u \in Tapes, NEW n \in 0 .. LogSize,
         NEW d \in 0 .. n, Chain(t, 0, n), Boundary(t, d, n), Shifted(u, t, d, n),
         NEW b, NEW v, NEW lo \in Nat, NEW hi \in 0 .. n - d
  PROVE  /\ Named(u, lo, hi, b) <=> Named(t, lo + d, hi + d, b)
         /\ LogSays(u, lo, hi, b, v) <=> LogSays(t, lo + d, hi + d, b, v)
<1>1. n \in Nat /\ d \in Nat /\ hi \in Nat
  BY JournalConstants
<1>2. \A p \in 0 .. n - d - 1 : Names(u, p, b) <=> Names(t, p + d, b)
  BY NamesShift
<1>3. \A p \in 0 .. n - d - 1 : u[p] = t[p + d]
  BY DEF Shifted
<1>4. ASSUME NEW k \in Nat
      PROVE  Named(u, k, hi, b) <=> Named(t, k + d, hi + d, b)
  <2>1. ASSUME Named(u, k, hi, b)
        PROVE  Named(t, k + d, hi + d, b)
    <3>1. PICK p \in k .. hi - 1 : Names(u, p, b)
      BY <2>1 DEF Named
    <3>2. p \in 0 .. n - d - 1 /\ p + d \in k + d .. (hi + d) - 1
      BY <1>1
    <3> QED
      BY <1>2, <3>1, <3>2 DEF Named
  <2>2. ASSUME Named(t, k + d, hi + d, b)
        PROVE  Named(u, k, hi, b)
    <3>1. PICK q \in k + d .. (hi + d) - 1 : Names(t, q, b)
      BY <2>2 DEF Named
    <3> DEFINE p == q - d
    <3>2. p \in 0 .. n - d - 1 /\ p + d = q /\ p \in k .. hi - 1
      BY <1>1
    <3> HIDE DEF p
    <3> QED
      BY <1>2, <3>1, <3>2 DEF Named
  <2> QED
    BY <2>1, <2>2
<1>5. ASSUME NEW p \in lo .. hi - 1
      PROVE  /\ p + d \in lo + d .. (hi + d) - 1 /\ p \in 0 .. n - d - 1
             /\ Named(u, p + 1, hi, b) <=> Named(t, (p + d) + 1, hi + d, b)
  <2>1. p + 1 \in Nat /\ (p + 1) + d = (p + d) + 1
    BY <1>1
  <2>2. Named(u, p + 1, hi, b) <=> Named(t, (p + 1) + d, hi + d, b)
    BY <1>4, <2>1
  <2> QED
    BY <1>1, <2>1, <2>2
<1>6. ASSUME NEW q \in lo + d .. (hi + d) - 1
      PROVE  q - d \in lo .. hi - 1 /\ (q - d) + d = q
  BY <1>1
<1>7. ASSUME LogSays(u, lo, hi, b, v)
      PROVE  LogSays(t, lo + d, hi + d, b, v)
  <2> SUFFICES ASSUME NEW q \in lo + d .. (hi + d) - 1,
                      Names(t, q, b), ~Named(t, q + 1, hi + d, b)
               PROVE  t[q].data = v
    BY DEF LogSays
  <2>1. PICK p \in lo .. hi - 1 : p + d = q
    BY <1>6
  <2> QED
    BY <1>2, <1>3, <1>5, <1>7, <2>1 DEF LogSays
<1>8. ASSUME LogSays(t, lo + d, hi + d, b, v)
      PROVE  LogSays(u, lo, hi, b, v)
  <2> SUFFICES ASSUME NEW p \in lo .. hi - 1,
                      Names(u, p, b), ~Named(u, p + 1, hi, b)
               PROVE  u[p].data = v
    BY DEF LogSays
  <2> QED
    BY <1>2, <1>3, <1>5, <1>8 DEF LogSays
<1> QED
  BY <1>4, <1>7, <1>8

LEMMA ChainJoin ==
  ASSUME NEW t \in Tapes, NEW n \in 0 .. LogSize, NEW m \in 0 .. n - 1,
         Chain(t, 0, m), Chain(t, m, n)
  PROVE  Chain(t, 0, n) /\ IsArray(t, m)
<1>1. n \in Nat /\ m \in Nat /\ m < n /\ m \in 0 .. LogSize
  BY JournalConstants
<1>2. IsArray(t, m)
  BY <1>1 DEF Chain
<1>3. IsArray(t, 0)
  <2>1. CASE m = 0
    BY <1>2, <2>1
  <2>2. CASE m > 0
    BY <1>1, <2>2 DEF Chain
  <2> QED
    BY <1>1, <2>1, <2>2
<1>4. ASSUME NEW a \in 0 .. n - 1, IsArray(t, a)
      PROVE  /\ Past(t, a) <= n
             /\ Past(t, a) < n => IsArray(t, Past(t, a))
             /\ IsInjective(t[a].runs)
             /\ \A i \in 1 .. Len(t[a].runs) :
                  ~IsArray(t, a + i) /\ t[a + i].data \in Values
  <2>1. CASE a < m
    <3>1. a \in 0 .. m - 1
      BY <1>1, <2>1
    <3>2. Past(t, a) \in Nat /\ Past(t, a) <= m
          /\ (Past(t, a) < m => IsArray(t, Past(t, a)))
      BY <1>1, <1>4, <3>1, ChainFacts
    <3>3. Past(t, a) <= n /\ (Past(t, a) < n => IsArray(t, Past(t, a)))
      BY <1>1, <1>2, <3>2
    <3> QED
      BY <1>4, <3>1, <3>3 DEF Chain
  <2>2. CASE a >= m
    <3>1. a \in m .. n - 1
      BY <1>1, <2>2
    <3> QED
      BY <1>4, <3>1 DEF Chain
  <2> QED
    BY <1>1, <2>1, <2>2
<1> QED
  BY <1>2, <1>3, <1>4 DEF Chain

(* There is a last place where the log has the contents of a block.        *)
LEMMA LastNamed ==
  ASSUME NEW t, NEW lo \in Nat, NEW hi \in Nat, NEW b, Named(t, lo, hi, b)
  PROVE  \E p \in lo .. hi - 1 : Names(t, p, b) /\ ~Named(t, p + 1, hi, b)
<1> DEFINE T == {p \in lo .. hi - 1 : Names(t, p, b)}
           m == Max(T)
<1>1. T # {} /\ T \in SUBSET Nat
  BY DEF Named
<1>2. IsFiniteSet(T)
  <2>1. \A p \in T : p <= hi
    OBVIOUS
  <2> HIDE DEF T
  <2> QED
    BY <1>1, <2>1, FS_BoundedSetOfNaturals
<1>3. m \in T /\ \A y \in T : y <= m
  <2> HIDE DEF T
  <2> QED
    BY <1>1, <1>2, GreatestNat
<1> HIDE DEF m
<1>4. ASSUME Named(t, m + 1, hi, b)
      PROVE  FALSE
  <2>1. PICK q \in m + 1 .. hi - 1 : Names(t, q, b)
    BY <1>4 DEF Named
  <2>2. m \in Nat
    BY <1>1, <1>3
  <2>3. q \in lo .. hi - 1 /\ ~(q <= m)
    BY <1>3, <2>2
  <2> QED
    BY <1>3, <2>1, <2>3
<1> QED
  BY <1>3, <1>4

LEMMA NamedWider ==
  ASSUME NEW t, NEW lo \in Nat, NEW hi \in Nat, NEW k \in Nat, NEW l \in Nat,
         NEW b, Named(t, lo, hi, b), k <= lo, hi <= l
  PROVE  Named(t, k, l, b)
BY DEF Named

LEMMA SaysLater ==
  ASSUME NEW t, NEW lo \in Nat, NEW hi \in Nat, NEW b, NEW v,
         LogSays(t, 0, hi, b, v)
  PROVE  LogSays(t, lo, hi, b, v)
BY DEF LogSays

(* What is appended to the log takes precedence.                           *)
LEMMA SaysJoin ==
  ASSUME NEW t, NEW lo \in Nat, NEW m \in Nat, NEW n \in Nat, lo <= m, m <= n,
         NEW b, NEW u, NEW v, LogSays(t, lo, m, b, u),
         \A p \in m .. n - 1 : Names(t, p, b) => t[p].data = v,
         ~Named(t, m, n, b) => u = v
  PROVE  LogSays(t, lo, n, b, v)
<1> SUFFICES ASSUME NEW p \in lo .. n - 1, Names(t, p, b), ~Named(t, p + 1, n, b)
             PROVE  t[p].data = v
  BY DEF LogSays
<1>1. CASE p >= m
  <2>1. p \in m .. n - 1
    BY <1>1
  <2> QED
    BY <2>1
<1>2. CASE p < m
  <2>1. ~Named(t, m, n, b)
    <3> SUFFICES ASSUME Named(t, m, n, b) PROVE FALSE
      OBVIOUS
    <3>1. p + 1 \in Nat /\ p + 1 <= m
      BY <1>2
    <3> QED
      BY <3>1, NamedWider
  <2>2. ~Named(t, p + 1, m, b)
    <3> SUFFICES ASSUME Named(t, p + 1, m, b) PROVE FALSE
      OBVIOUS
    <3>1. p + 1 \in Nat
      OBVIOUS
    <3> QED
      BY <3>1, NamedWider
  <2>3. p \in lo .. m - 1
    BY <1>2
  <2> QED
    BY <2>1, <2>2, <2>3 DEF LogSays
<1> QED
  BY <1>1, <1>2

-----------------------------------------------------------------------------
(* The layout of a log entry *)

LEMMA QuotientRemainder ==
  ASSUME NEW n \in Nat \ {0}, NEW a \in Int
  PROVE  a = n * (a \div n) + (a % n) /\ a \div n \in Int /\ a % n \in 0 .. n - 1
OBVIOUS

LEMMA NoSmallMultiple ==
  ASSUME NEW n \in Nat \ {0}, NEW k \in Int, NEW d \in Int, -n < d, d < n, n * k = d
  PROVE  k = 0 /\ d = 0
<1>1. CASE k >= 1
  <2>1. n * k >= n
    BY <1>1
  <2> QED
    BY <2>1
<1>2. CASE k <= -1
  <2>1. n * k <= -n
    BY <1>2
  <2> QED
    BY <2>1
<1>3. CASE k = 0
  BY <1>3
<1> QED
  BY <1>1, <1>2, <1>3

LEMMA UniqueQuotient ==
  ASSUME NEW n \in Nat \ {0}, NEW q \in Int, NEW r \in 0 .. n - 1, NEW a \in Int,
         a = n * q + r
  PROVE  a \div n = q /\ a % n = r
<1> DEFINE p == a \div n
           s == a % n
<1>1. a = n * p + s /\ p \in Int /\ s \in 0 .. n - 1
  BY QuotientRemainder
<1> HIDE DEF p, s
<1> DEFINE k == p - q
           d == r - s
<1>2. n * k = n * p - n * q
  BY <1>1
<1>3. n * p \in Int /\ n * q \in Int
  BY <1>1
<1>4. n * k = d /\ k \in Int /\ d \in Int /\ -n < d /\ d < n
  BY <1>1, <1>2, <1>3
<1>5. k = 0 /\ d = 0
  <2> HIDE DEF k, d
  <2> QED
    BY <1>4, NoSmallMultiple
<1>6. p = q /\ s = r
  BY <1>1, <1>5
<1> QED
  BY <1>6 DEF p, s

LEMMA CeilBounds ==
  ASSUME NEW n \in Nat, NEW k \in Nat \ {0}
  PROVE  /\ Ceil(n, k) \in Nat
         /\ n <= k * Ceil(n, k) /\ k * Ceil(n, k) < n + k
<1> DEFINE a == n + k - 1
           c == a \div k
           r == a % k
<1>0. a \in Int
  OBVIOUS
<1>1. a = k * c + r /\ c \in Int /\ r \in 0 .. k - 1
  <2> HIDE DEF a
  <2> QED
    BY <1>0, QuotientRemainder
<1>2. a = n + k - 1 /\ a \in Nat /\ Ceil(n, k) = c
  BY DEF Ceil
<1> HIDE DEF a, c, r
<1>3. n <= k * c /\ k * c < n + k
  <2>1. k * c \in Int
    BY <1>1
  <2> QED
    BY <1>1, <1>2, <2>1
<1>4. c >= 0
  <2> SUFFICES ASSUME c <= -1 PROVE FALSE
    BY <1>1
  <2>1. k * c <= -k /\ k * c \in Int
    BY <1>1
  <2> QED
    BY <1>3, <2>1
<1> QED
  BY <1>1, <1>2, <1>3, <1>4

LEMMA CeilMonotone ==
  ASSUME NEW n \in Nat, NEW m \in Nat, n <= m, NEW k \in Nat \ {0}
  PROVE  Ceil(n, k) <= Ceil(m, k)
<1> DEFINE c == Ceil(n, k)
           d == Ceil(m, k)
<1>1. c \in Nat /\ d \in Nat /\ k * c < n + k /\ m <= k * d
  BY CeilBounds
<1> HIDE DEF c, d
<1> SUFFICES ASSUME c >= d + 1 PROVE FALSE
  BY <1>1 DEF c, d
<1>2. k * c >= k * (d + 1)
  BY <1>1
<1>3. k * (d + 1) = k * d + k
  BY <1>1
<1>4. k * c \in Int /\ k * d \in Int
  BY <1>1
<1> QED
  BY <1>1, <1>2, <1>3, <1>4

(* An entry of len blocks has c arrays.  Array j comes after j arrays and  *)
(* the k blocks that each of them names.                                   *)
LEMMA EntryIndex ==
  ASSUME NEW len \in Nat, NEW k \in Nat \ {0}, NEW i \in Nat,
         i < len + Ceil(len, k)
  PROVE  LET first == (i \div (k + 1)) * k
             n == i % (k + 1)
         IN /\ first \in Nat /\ n \in 0 .. k
            /\ n = 0 => first < len
            /\ n > 0 => first + n <= len
            /\ n = 0 => \A j \in 1 .. k :
                 /\ ((i + j) \div (k + 1)) * k = first /\ (i + j) % (k + 1) = j
            /\ n = 0 /\ len - first <= k => i + (len - first) + 1 = len + Ceil(len, k)
            /\ n = 0 /\ len - first > k =>
                 i + k + 1 < len + Ceil(len, k) /\ (i + k + 1) % (k + 1) = 0
<1> DEFINE m == k + 1
           q == i \div m
           n == i % m
           first == q * k
           c == Ceil(len, k)
<1>1. m \in Nat \ {0} /\ i \in Int
  OBVIOUS
<1>2. i = m * q + n /\ q \in Int /\ n \in 0 .. m - 1
  BY <1>1, QuotientRemainder
<1>3. c \in Nat /\ len <= k * c /\ k * c < len + k
  BY CeilBounds
<1>4. m = k + 1 /\ i < len + c
  OBVIOUS
<1> HIDE DEF m, q, n, c
<1>5. first \in Int /\ m * q = first + q
  BY <1>2, <1>4
<1>5a. first = q * k
  OBVIOUS
<1> HIDE DEF first
<1>6. q >= 0
  <2> SUFFICES ASSUME q <= -1 PROVE FALSE
    BY <1>2
  <2>1. m * q <= -m
    BY <1>1, <1>2
  <2> QED
    BY <1>1, <1>2, <2>1
<1>7. first \in Nat
  BY <1>2, <1>5a, <1>6
<1>8. ASSUME q >= c
      PROVE  FALSE
  <2>1. q * k >= c * k
    BY <1>2, <1>3, <1>8
  <2>2. k * c = c * k
    BY <1>3
  <2> QED
    BY <1>2, <1>3, <1>4, <1>5, <1>5a, <1>8, <2>1, <2>2
<1>9. q <= c - 1
  BY <1>2, <1>3, <1>8
<1>10. (c - 1) * k = k * c - k
  BY <1>3
<1>11. q * k <= (c - 1) * k
  BY <1>2, <1>3, <1>9
<1>12. first < len
  BY <1>3, <1>5a, <1>7, <1>10, <1>11
<1> DEFINE Inside == n > 0 => first + n <= len
           LastArray == n = 0 /\ len - first <= k => i + (len - first) + 1 = len + c
           NextArray == n = 0 /\ len - first > k =>
                          i + k + 1 < len + c /\ (i + k + 1) % m = 0
<1>13. ASSUME q = c - 1
       PROVE  Inside /\ LastArray /\ NextArray
  <2>1. first = k * c - k /\ q \in Nat /\ k * c \in Nat
    BY <1>3, <1>5a, <1>6, <1>10, <1>13
  <2>2. Inside
    BY <1>2, <1>3, <1>4, <1>5, <1>13, <2>1
  <2>3. NextArray
    BY <1>3, <2>1
  <2>4. LastArray
    BY <1>2, <1>3, <1>5, <1>13, <2>1
  <2> QED
    BY <2>2, <2>3, <2>4
<1>14. ASSUME q <= c - 2
       PROVE  Inside /\ LastArray /\ NextArray
  <2>1. q * k <= (c - 2) * k
    BY <1>2, <1>3, <1>14
  <2>2. (c - 2) * k = k * c - 2 * k /\ k * c \in Nat
    BY <1>3
  <2>3. first + k < len
    BY <1>3, <1>5a, <1>7, <2>1, <2>2
  <2>4. Inside
    BY <1>2, <1>4, <1>7, <2>3
  <2>5. LastArray
    BY <1>7, <2>3
  <2>6. ASSUME n = 0
        PROVE  i + k + 1 < len + c /\ (i + k + 1) % m = 0
    <3> DEFINE a == i + k + 1
               p == q + 1
               r == 0
    <3>1. m * (q + 1) = m * q + m
      BY <1>1, <1>2
    <3>2. a \in Int /\ a = m * p + r
      BY <1>1, <1>2, <1>4, <2>6, <3>1
    <3>3. a < len + c
      BY <1>1, <1>2, <1>3, <1>4, <1>5, <1>7, <1>14, <2>3, <2>6
    <3>4. r \in 0 .. m - 1 /\ p \in Int
      BY <1>1, <1>2
    <3> HIDE DEF a, p, r
    <3>5. a % m = r
      BY <1>1, <3>2, <3>4, UniqueQuotient
    <3> QED
      BY <3>3, <3>5 DEF a, r
  <2>7. NextArray
    BY <2>6
  <2> QED
    BY <2>4, <2>5, <2>7
<1>15. Inside /\ LastArray /\ NextArray
  <2>1. q = c - 1 \/ q <= c - 2
    BY <1>2, <1>3, <1>9
  <2> HIDE DEF Inside, LastArray, NextArray
  <2> QED
    BY <1>13, <1>14, <2>1
<1>16. ASSUME n = 0, NEW j \in 1 .. k
       PROVE  ((i + j) \div m) * k = first /\ (i + j) % m = j
  <2> DEFINE a == i + j
  <2>1. a \in Int /\ a = m * q + j /\ j \in 0 .. m - 1
    BY <1>1, <1>2, <1>4, <1>16
  <2> HIDE DEF a
  <2>2. a \div m = q /\ a % m = j
    BY <1>1, <1>2, <2>1, UniqueQuotient
  <2> QED
    BY <1>5a, <2>2 DEF a
<1>17. n \in 0 .. k
  BY <1>2, <1>4
<1> QED
  BY <1>7, <1>12, <1>15, <1>16, <1>17 DEF first, q, n, m, c

(* EntryBlock(i) of the entry of the blocks s with the contents v          *)
EntryOf(s, v, i) ==
  LET first == (i \div (Capacity + 1)) * Capacity
      n == i % (Capacity + 1)
  IN IF n = 0
     THEN RunArray(SubSeq(s, first + 1, Min({first + Capacity, Len(s)})))
     ELSE Data(v[s[first + n]])
EntryLength(s) == Len(s) + Ceil(Len(s), Capacity)

LEMMA MinOfTwo ==
  ASSUME NEW a \in Nat, NEW b \in Nat
  PROVE  Min({a, b}) = IF a < b THEN a ELSE b
<1>1. {a, b} \in SUBSET Nat /\ {a, b} # {}
  OBVIOUS
<1>2. Min({a, b}) \in {a, b} /\ \A y \in {a, b} : Min({a, b}) <= y
  BY <1>1, LeastNat
<1> QED
  BY <1>2

(* Block i of an entry is an array, ...                                    *)
FirstOfArray(i) == (i \div (Capacity + 1)) * Capacity
IsArrayOf(s, v, i, runs) ==
  /\ runs \in Seq(Blocks) /\ Len(runs) \in 1 .. Capacity
  /\ FirstOfArray(i) \in Nat
  /\ Len(runs) = Capacity \/ FirstOfArray(i) + Len(runs) = Len(s)
  /\ \A j \in 1 .. Len(runs) :
       /\ FirstOfArray(i) + j \in 1 .. Len(s) /\ runs[j] = s[FirstOfArray(i) + j]
       /\ i + j < EntryLength(s)
       /\ EntryOf(s, v, i + j) = Data(v[runs[j]])
  /\ i + Len(runs) + 1 <= EntryLength(s)
  /\ i + Len(runs) + 1 < EntryLength(s) => (i + Len(runs) + 1) % (Capacity + 1) = 0

LEMMA EntryArray ==
  ASSUME NEW s \in Seq(Blocks), NEW v, NEW i \in Nat, i < EntryLength(s)
  PROVE  /\ i % (Capacity + 1) = 0 =>
              /\ IsArrayOf(s, v, i, EntryOf(s, v, i).runs)
              /\ EntryOf(s, v, i).runs # <<>>
         /\ i % (Capacity + 1) # 0 => EntryOf(s, v, i).runs = <<>>
<1> DEFINE len == Len(s)
           k == Capacity
           m == k + 1
           c == Ceil(len, k)
           first == FirstOfArray(i)
           n == i % m
           e == EntryOf(s, v, i)
           u == Min({first + k, len})
           runs == SubSeq(s, first + 1, u)
           r == IF len - first > k THEN k ELSE len - first
<1>1. len \in Nat /\ k \in Nat \ {0} /\ i < len + Ceil(len, k)
  BY JournalConstants, LenProperties DEF Capacity, EntryLength
<1>2. c \in Nat
  BY <1>1, CeilBounds
<1>3. /\ first \in Nat /\ n \in 0 .. k
      /\ n = 0 => first < len
      /\ n = 0 => \A j \in 1 .. k :
           /\ ((i + j) \div m) * k = first /\ (i + j) % m = j
      /\ n = 0 /\ len - first <= k => i + (len - first) + 1 = len + c
      /\ n = 0 /\ len - first > k => i + k + 1 < len + c /\ (i + k + 1) % m = 0
  <2>1. first = (i \div m) * k
    BY DEF FirstOfArray
  <2> HIDE DEF len, k, first
  <2> QED
    BY <1>1, <2>1, EntryIndex, ZenonT(40) DEF m
<1>4. CASE n # 0
  <2>1. e = Data(v[s[first + n]])
    BY <1>4 DEF EntryOf, FirstOfArray
  <2> QED
    BY <1>4, <2>1 DEF Data
<1>5. CASE n = 0
  <2>1. e = RunArray(runs)
    BY <1>5 DEF EntryOf, FirstOfArray
  <2>2. e.runs = runs
    <3> HIDE DEF e, runs
    <3> QED
      BY <2>1 DEF RunArray
  <2>3. \A j \in 1 .. k : EntryOf(s, v, i + j) = Data(v[s[first + j]])
    <3> SUFFICES ASSUME NEW j \in 1 .. k
                 PROVE  EntryOf(s, v, i + j) = Data(v[s[first + j]])
      OBVIOUS
    <3>1. ((i + j) \div m) * k = first /\ (i + j) % m = j /\ j # 0
      <4> HIDE DEF len, k, m, first, n
      <4> QED
        BY <1>1, <1>3, <1>5
    <3> QED
      BY <3>1 DEF EntryOf, FirstOfArray
  <2>4. EntryLength(s) = len + c
    BY DEF EntryLength
  <2> HIDE DEF len, k, m, c, n, first, e
  <2>5. u = IF first + k < len THEN first + k ELSE len
    BY <1>1, <1>3, MinOfTwo
  <2> HIDE DEF u
  <2>6. r \in 1 .. k /\ u = first + r /\ u <= len /\ r \in Nat
    BY <1>1, <1>3, <1>5, <2>5
  <2>6a. i + r + 1 <= len + c /\ (i + r + 1 < len + c => (i + r + 1) % m = 0)
    BY <1>1, <1>2, <1>3, <1>5
  <2>6b. r = k \/ first + r = len
    BY <1>1, <1>3, <2>6
  <2> HIDE DEF r
  <2>7. runs \in Seq(Blocks) /\ Len(runs) = r
        /\ \A j \in 1 .. r : runs[j] = s[first + j]
    <3>1. first + 1 \in 1 .. len + 1 /\ u \in 0 .. len /\ u - (first + 1) + 1 = r
          /\ first + 1 <= u
      BY <1>1, <1>3, <1>5, <2>6
    <3>2. /\ runs \in Seq(Blocks)
          /\ Len(runs) = IF first + 1 <= u THEN u - (first + 1) + 1 ELSE 0
          /\ \A j \in 1 .. u - (first + 1) + 1 : runs[j] = s[(first + 1) + j - 1]
      BY <3>1, SubSeqProperties DEF len
    <3>3. Len(runs) = r
      BY <3>1, <3>2
    <3>4. ASSUME NEW j \in 1 .. r
          PROVE  runs[j] = s[first + j]
      <4> HIDE DEF runs
      <4>1. (first + 1) + j - 1 = first + j
        BY <1>3, <2>6
      <4>2. runs[j] = s[(first + 1) + j - 1]
        BY <3>1, <3>2
      <4> QED
        BY <4>1, <4>2
    <3> QED
      BY <3>2, <3>3, <3>4
  <2> HIDE DEF runs
  <2>8. ASSUME NEW j \in 1 .. Len(runs)
        PROVE  /\ first + j \in 1 .. Len(s) /\ runs[j] = s[first + j]
               /\ i + j < EntryLength(s)
               /\ EntryOf(s, v, i + j) = Data(v[runs[j]])
    <3>1. j \in 1 .. r /\ j \in 1 .. k
      BY <1>1, <2>6, <2>7
    <3>2. first + j \in 1 .. len /\ runs[j] = s[first + j]
      BY <1>1, <1>3, <2>6, <2>7, <3>1
    <3>3. i + j < len + c
      BY <1>1, <1>2, <2>6, <2>6a, <3>1
    <3>4. EntryOf(s, v, i + j) = Data(v[runs[j]])
      BY <2>3, <3>1, <3>2
    <3> QED
      BY <2>4, <3>2, <3>3, <3>4 DEF len
  <2>9. IsArrayOf(s, v, i, runs)
    <3>1. Len(runs) \in 1 .. Capacity
      BY <2>6, <2>7 DEF k
    <3>2. i + Len(runs) + 1 <= EntryLength(s)
      BY <2>4, <2>6a, <2>7
    <3>3. i + Len(runs) + 1 < EntryLength(s) => (i + Len(runs) + 1) % (Capacity + 1) = 0
      BY <2>4, <2>6a, <2>7 DEF m, k
    <3>4. FirstOfArray(i) \in Nat
          /\ (Len(runs) = Capacity \/ FirstOfArray(i) + Len(runs) = Len(s))
      BY <1>3, <2>6b, <2>7 DEF first, k, len
    <3> QED
      BY <2>7, <2>8, <3>1, <3>2, <3>3, <3>4 DEF IsArrayOf, first
  <2>10. runs # <<>>
    BY <2>6, <2>7
  <2> QED
    BY <1>5, <2>2, <2>9, <2>10 DEF n, m, k, e
<1> QED
  BY <1>4, <1>5

(* The entry of the blocks s with the contents v is on the tape from m on. *)
OnTape(t, m, s, v) ==
  /\ m \in Nat /\ m + EntryLength(s) <= LogSize
  /\ \A i \in 0 .. EntryLength(s) - 1 : t[m + i] = EntryOf(s, v, i)

(* ... and its blocks form a chain, ...                                    *)
LEMMA EntryChain ==
  ASSUME NEW t, NEW m, NEW s \in Seq(Blocks), IsInjective(s),
         NEW v \in [Blocks -> Values], OnTape(t, m, s, v),
         NEW hi, hi = m + EntryLength(s)
  PROVE  /\ Chain(t, m, hi)
         /\ \A a \in m .. hi - 1 : IsArray(t, a) =>
              \A j \in 1 .. Len(t[a].runs) :
                t[a].runs[j] \in Range(s) /\ t[a + j].data = v[t[a].runs[j]]
<1> DEFINE L == EntryLength(s)
           k == Capacity + 1
<1>1. Len(s) \in Nat /\ DOMAIN s = 1 .. Len(s) /\ Capacity \in Nat \ {0}
      /\ \A x \in 1 .. Len(s) : s[x] \in Blocks
  BY JournalConstants, LenProperties DEF Capacity
<1>2. L \in Nat /\ m \in Nat /\ k \in Nat \ {0} /\ hi \in Nat
  <2>1. Ceil(Len(s), Capacity) \in Nat
    BY <1>1, CeilBounds
  <2> QED
    BY <1>1, <2>1 DEF EntryLength, OnTape
<1>3. \A i \in 0 .. L - 1 : t[m + i] = EntryOf(s, v, i)
  BY DEF OnTape
<1>3a. hi = m + L /\ L = EntryLength(s)
  OBVIOUS
<1> HIDE DEF L, k
<1>4. ASSUME NEW i \in 0 .. L - 1
      PROVE  /\ i % k = 0 => IsArrayOf(s, v, i, t[m + i].runs) /\ IsArray(t, m + i)
             /\ i % k # 0 => ~IsArray(t, m + i)
  <2>1. i \in Nat /\ i < EntryLength(s) /\ t[m + i] = EntryOf(s, v, i)
    BY <1>2, <1>3, <1>3a
  <2>2. /\ i % k = 0 => IsArrayOf(s, v, i, EntryOf(s, v, i).runs)
                          /\ EntryOf(s, v, i).runs # <<>>
        /\ i % k # 0 => EntryOf(s, v, i).runs = <<>>
    BY <2>1, EntryArray DEF k
  <2> QED
    BY <2>1, <2>2 DEF IsArray
<1>5. ASSUME NEW a \in m .. hi - 1, IsArray(t, a)
      PROVE  /\ Past(t, a) <= hi
             /\ Past(t, a) < hi => IsArray(t, Past(t, a))
             /\ IsInjective(t[a].runs)
             /\ \A j \in 1 .. Len(t[a].runs) :
                  /\ ~IsArray(t, a + j) /\ t[a + j].data \in Values
                  /\ t[a].runs[j] \in Range(s) /\ t[a + j].data = v[t[a].runs[j]]
  <2> DEFINE i == a - m
             runs == t[a].runs
             r == Len(runs)
  <2>1. i \in 0 .. L - 1 /\ m + i = a /\ i \in Nat
    BY <1>2, <1>3a
  <2>1a. i % k = 0 /\ IsArrayOf(s, v, i, runs)
    <3> HIDE DEF i
    <3> QED
      BY <1>4, <1>5, <2>1
  <2> HIDE DEF runs, i
  <2>2. /\ runs \in Seq(Blocks) /\ r \in 1 .. Capacity
        /\ i + r + 1 <= L
        /\ i + r + 1 < L => (i + r + 1) % k = 0
    BY <1>3a, <2>1a DEF IsArrayOf, k
  <2> DEFINE first == FirstOfArray(i)
  <2>3. first \in Nat /\ \A j \in 1 .. r :
          /\ first + j \in 1 .. Len(s) /\ runs[j] = s[first + j]
          /\ i + j < L
          /\ EntryOf(s, v, i + j) = Data(v[runs[j]])
    BY <1>3a, <2>1a DEF IsArrayOf
  <2>4. Past(t, a) = a + r + 1 /\ r \in Nat /\ DOMAIN runs = 1 .. r
    BY <1>1, <2>2, LenProperties DEF Past, runs
  <2> HIDE DEF r, first
  <2>5. Past(t, a) <= hi /\ Past(t, a) = m + (i + r + 1)
    BY <1>2, <1>3a, <2>1, <2>2, <2>4, SMTT(30)
  <2>6. ASSUME Past(t, a) < hi
        PROVE  IsArray(t, Past(t, a))
    <3> DEFINE x == i + r + 1
    <3>1. x \in 0 .. L - 1 /\ x < L
      BY <1>2, <1>3a, <2>1, <2>4, <2>5, <2>6, SMTT(30)
    <3>2. x % k = 0 /\ Past(t, a) = m + x
      BY <2>2, <2>5, <3>1
    <3> HIDE DEF x
    <3> QED
      BY <1>4, <3>1, <3>2
  <2>7. IsInjective(runs)
    <3> SUFFICES ASSUME NEW x \in 1 .. r, NEW y \in 1 .. r, runs[x] = runs[y]
                 PROVE  x = y
      BY <2>4 DEF IsInjective
    <3>1. s[first + x] = s[first + y] /\ first + x \in 1 .. Len(s)
          /\ first + y \in 1 .. Len(s)
      BY <2>3
    <3>2. first + x = first + y
      BY <1>1, <3>1 DEF IsInjective
    <3> QED
      BY <2>3, <2>4, <3>2
  <2>8. ASSUME NEW j \in 1 .. r
        PROVE  /\ ~IsArray(t, a + j) /\ t[a + j].data \in Values
               /\ runs[j] \in Range(s) /\ t[a + j].data = v[runs[j]]
    <3>0. i + j < L
      BY <2>3
    <3>1. i + j \in 0 .. L - 1 /\ m + (i + j) = a + j
      BY <1>2, <2>1, <2>4, <3>0
    <3>2. t[a + j] = EntryOf(s, v, i + j)
      BY <1>3, <3>1
    <3>3. t[a + j] = Data(v[runs[j]])
      BY <2>3, <3>2
    <3>4. runs[j] \in Range(s) /\ runs[j] \in Blocks
      BY <1>1, <2>3 DEF Range
    <3>5. t[a + j].runs = <<>> /\ t[a + j].data = v[runs[j]]
      BY <3>3 DEF Data
    <3> QED
      BY <3>4, <3>5 DEF IsArray
  <2> QED
    BY <2>5, <2>6, <2>7, <2>8 DEF r, runs
<1>6. m < hi => IsArray(t, m)
  <2> SUFFICES ASSUME m < hi PROVE IsArray(t, m)
    OBVIOUS
  <2> DEFINE z == 0
  <2>1. z \in 0 .. L - 1 /\ m + z = m /\ z % k = 0
    BY <1>2, <1>3a
  <2> HIDE DEF z
  <2> QED
    BY <1>4, <2>1
<1>7. Chain(t, m, hi)
  BY <1>5, <1>6 DEF Chain
<1> QED
  BY <1>5, <1>7

(* ... which has all of them.                                              *)
HasArrayOf(t, m, hi, b) ==
  \E a \in m .. hi - 1 :
    IsArray(t, a) /\ \E j \in 1 .. Len(t[a].runs) : t[a].runs[j] = b

LEMMA EntryHolds ==
  ASSUME NEW t, NEW m, NEW s \in Seq(Blocks), IsInjective(s),
         NEW v \in [Blocks -> Values], OnTape(t, m, s, v), NEW b \in Range(s),
         NEW hi, hi = m + EntryLength(s)
  PROVE  HasArrayOf(t, m, hi, b)
<1> DEFINE len == Len(s)
           k == Capacity
           L == EntryLength(s)
           c == Ceil(len, k)
<1>1. len \in Nat /\ DOMAIN s = 1 .. len /\ k \in Nat \ {0}
  BY JournalConstants, LenProperties DEF Capacity
<1>2. c \in Nat /\ len <= k * c /\ L = len + c /\ m \in Nat
  BY <1>1, CeilBounds DEF EntryLength, OnTape
<1>3. PICK x \in 1 .. len : s[x] = b
  BY <1>1 DEF Range
<1> HIDE DEF len, k, L, c
<1> DEFINE y == x - 1
           q == y \div k
           n == y % k
           a == (k + 1) * q
<1>4. y \in Nat /\ y \in Int
  BY <1>1
<1>5. y = k * q + n /\ q \in Int /\ n \in 0 .. k - 1
  <2> HIDE DEF y
  <2> QED
    BY <1>1, <1>4, QuotientRemainder
<1>6. x = y + 1
  BY <1>1
<1> HIDE DEF q, n, y
<1>6a. q >= 0
  <2> SUFFICES ASSUME q <= -1 PROVE FALSE
    BY <1>5
  <2>1. k * q <= -k /\ k * q \in Int
    BY <1>1, <1>5
  <2> QED
    BY <1>1, <1>4, <1>5, <2>1
<1>7. q < c
  <2> SUFFICES ASSUME q >= c PROVE FALSE
    BY <1>2, <1>5
  <2>1. k * q >= k * c
    BY <1>1, <1>2, <1>5
  <2>2. k * q \in Int /\ k * c \in Int
    BY <1>1, <1>2, <1>5
  <2> QED
    BY <1>1, <1>2, <1>4, <1>5, <1>6, <2>1, <2>2
<1>8. a = k * q + q /\ k * q \in Nat
  BY <1>1, <1>5, <1>6a
<1>9. a \in Nat /\ a < L /\ a + n + 1 = x + q /\ a + n + 1 < L
  BY <1>1, <1>2, <1>5, <1>6, <1>6a, <1>7, <1>8
<1>10. a % (k + 1) = 0 /\ a \div (k + 1) = q
  <2> DEFINE w == k + 1
             z == 0
  <2>1. w \in Nat \ {0} /\ z \in 0 .. w - 1 /\ a = w * q + z
    BY <1>1, <1>5
  <2> HIDE DEF w, z, a
  <2>2. a \in Int
    BY <1>9
  <2>3. a % w = z /\ a \div w = q
    BY <1>5, <2>1, <2>2, UniqueQuotient
  <2> QED
    BY <2>3 DEF w, z
<1> HIDE DEF a
<1> DEFINE runs == EntryOf(s, v, a).runs
           i == n + 1
<1>11. IsArrayOf(s, v, a, runs) /\ runs # <<>>
  BY <1>9, <1>10, EntryArray DEF L, k
<1>12. FirstOfArray(a) = k * q /\ k * q \in Nat
  BY <1>1, <1>5, <1>8, <1>10 DEF FirstOfArray, k
<1> HIDE DEF runs
<1>13. i \in 1 .. Len(runs) /\ k * q + i = x
  <2>1. Len(runs) \in 1 .. k /\ (Len(runs) = k \/ k * q + Len(runs) = len)
    BY <1>11, <1>12 DEF IsArrayOf, k, len
  <2> QED
    BY <1>1, <1>5, <1>6, <1>12, <2>1
<1>14. runs[i] = b
  BY <1>3, <1>11, <1>12, <1>13 DEF IsArrayOf
<1>15. t[m + a] = EntryOf(s, v, a) /\ m + a \in m .. hi - 1
  <2>1. a \in 0 .. L - 1
    BY <1>1, <1>2, <1>9
  <2>2. \A j \in 0 .. L - 1 : t[m + j] = EntryOf(s, v, j)
    BY DEF OnTape, L
  <2>3. hi = m + L
    BY DEF L
  <2> QED
    BY <1>1, <1>2, <2>1, <2>2, <2>3
<1>16. t[m + a].runs = runs
  BY <1>15 DEF runs
<1> QED
  BY <1>11, <1>13, <1>14, <1>15, <1>16 DEF IsArray, L, HasArrayOf

(* The log with an entry appended to it                                    *)
LEMMA EntryAppended ==
  ASSUME NEW t \in Tapes, NEW m, NEW s \in Seq(Blocks), IsInjective(s), s # <<>>,
         NEW v \in [Blocks -> Values], OnTape(t, m, s, v), Chain(t, 0, m),
         NEW hi, hi = m + EntryLength(s)
  PROVE  /\ m \in Nat /\ hi \in m + 1 .. LogSize /\ Chain(t, 0, hi) /\ IsArray(t, m)
         /\ \A b : Named(t, m, hi, b) <=> b \in Range(s)
         /\ \A b, u : LogSays(t, 0, m, b, u) /\ (b \notin Range(s) => u = v[b]) =>
              LogSays(t, 0, hi, b, v[b])
<1>1. Len(s) \in Nat \ {0} /\ Capacity \in Nat \ {0} /\ LogSize \in Nat
  BY JournalConstants, LenProperties, EmptySeq DEF Capacity
<1>2. Ceil(Len(s), Capacity) \in Nat
  BY <1>1, CeilBounds
<1>3. m \in Nat /\ hi \in m + 1 .. LogSize /\ hi \in Nat /\ hi \in 0 .. LogSize
      /\ m \in 0 .. hi - 1
  BY <1>1, <1>2 DEF OnTape, EntryLength
<1>4. Chain(t, m, hi) /\ \A a \in m .. hi - 1 : IsArray(t, a) =>
        \A j \in 1 .. Len(t[a].runs) :
          t[a].runs[j] \in Range(s) /\ t[a + j].data = v[t[a].runs[j]]
  BY EntryChain
<1>5. Chain(t, 0, hi) /\ IsArray(t, m)
  BY <1>3, <1>4, ChainJoin
<1>6. ASSUME NEW b, NEW p \in m .. hi - 1, Names(t, p, b)
      PROVE  b \in Range(s) /\ t[p].data = v[b]
  <2>1. p \in 0 .. hi - 1
    BY <1>3
  <2>2. PICK a \in 0 .. p - 1 : IsArray(t, a) /\ p < Past(t, a) /\ t[a].runs[p - a] = b
    BY <1>3, <1>5, <1>6, <2>1, NamesArray
  <2>3. a \in 0 .. hi - 1 /\ Past(t, a) \in Nat /\ Len(t[a].runs) \in Nat
        /\ Past(t, a) = a + Len(t[a].runs) + 1
    BY <1>3, <1>5, <2>1, ChainFacts DEF Past
  <2>4. a >= m
    <3> SUFFICES ASSUME a < m PROVE FALSE
      BY <1>3
    <3>1. a \in 0 .. m - 1 /\ m \in 0 .. hi /\ Boundary(t, m, hi)
      BY <1>3, <1>5 DEF Boundary
    <3>2. Past(t, a) <= m
      BY <1>3, <1>5, <3>1, ChainBoundary
    <3> QED
      BY <1>3, <2>2, <2>3, <3>2, SMTT(30)
  <2> DEFINE j == p - a
  <2>5. a \in m .. hi - 1 /\ j \in 1 .. Len(t[a].runs) /\ a + j = p
    <3> DEFINE k == Len(t[a].runs)
    <3>1. k \in Nat /\ p < a + k + 1
      BY <2>2, <2>3
    <3> HIDE DEF k
    <3>2. a \in m .. hi - 1 /\ j \in 1 .. k /\ a + j = p
      BY <1>3, <2>1, <2>4, <3>1
    <3> QED
      BY <3>2 DEF k
  <2>6. t[a].runs[j] = b
    BY <2>2
  <2> HIDE DEF j
  <2> QED
    BY <1>4, <2>2, <2>5, <2>6
<1>7. ASSUME NEW b \in Range(s)
      PROVE  Named(t, m, hi, b)
  <2>0. HasArrayOf(t, m, hi, b)
    BY EntryHolds
  <2>1. PICK a \in m .. hi - 1 :
          IsArray(t, a) /\ \E j \in 1 .. Len(t[a].runs) : t[a].runs[j] = b
    BY <2>0 DEF HasArrayOf
  <2>2. PICK j \in 1 .. Len(t[a].runs) : t[a].runs[j] = b
    BY <2>1
  <2>3. a \in 0 .. hi - 1
    BY <1>3
  <2>4. a + j \in 0 .. hi - 1 /\ Names(t, a + j, b)
    BY <1>3, <1>5, <2>1, <2>2, <2>3, ArrayNames
  <2>5. Len(t[a].runs) \in Nat
    BY <1>3, <1>5, <2>3, ChainFacts
  <2>6. a + j \in m .. hi - 1
    BY <1>3, <2>4, <2>5
  <2> QED
    BY <2>4, <2>6 DEF Named
<1>8. ASSUME NEW b, Named(t, m, hi, b)
      PROVE  b \in Range(s)
  BY <1>6, <1>8 DEF Named
<1>9. ASSUME NEW b, NEW u, LogSays(t, 0, m, b, u), b \notin Range(s) => u = v[b]
      PROVE  LogSays(t, 0, hi, b, v[b])
  <2>1. m <= hi /\ 0 <= m /\ 0 \in Nat
    BY <1>3
  <2>2. ~Named(t, m, hi, b) => u = v[b]
    BY <1>7, <1>9
  <2>3. \A p \in m .. hi - 1 : Names(t, p, b) => t[p].data = v[b]
    BY <1>6
  <2> QED
    BY <1>3, <1>9, <2>1, <2>2, <2>3, SaysJoin
<1> QED
  BY <1>3, <1>5, <1>7, <1>8, <1>9

LEMMA RecoversOne ==
  ASSUME NEW t, NEW lo \in Nat, NEW hi \in Nat, NEW d, NEW b, NEW u, NEW v,
         Recovers(t, lo, hi, d, b, u), Recovers(t, lo, hi, d, b, v)
  PROVE  u = v
<1>1. CASE Named(t, lo, hi, b)
  BY <1>1, LastNamed DEF Recovers, LogSays
<1>2. CASE ~Named(t, lo, hi, b)
  BY <1>2 DEF Recovers
<1> QED
  BY <1>1, <1>2

(* Replaying one more array                                                *)
LEMMA ReplayTurn ==
  ASSUME NEW t \in Tapes, NEW n \in 0 .. LogSize, Chain(t, 0, n),
         NEW a \in 0 .. n - 1, IsArray(t, a), NEW lo \in 0 .. a, NEW d, NEW b,
         NEW u, Recovers(t, lo, a, d, b, u), NEW v,
         \A j \in 1 .. Len(t[a].runs) : t[a].runs[j] = b => v = t[a + j].data,
         (\A j \in 1 .. Len(t[a].runs) : t[a].runs[j] # b) => v = u
  PROVE  Recovers(t, lo, Past(t, a), d, b, v)
<1> DEFINE k == Len(t[a].runs)
           m == Past(t, a)
<1>1. n \in Nat /\ a \in Nat /\ lo \in Nat /\ lo <= a
  BY JournalConstants
<1>2. k \in Nat /\ m = a + k + 1 /\ m <= n /\ m \in Nat /\ a <= m
  BY <1>1, ChainFacts DEF Past
<1>3. ASSUME NEW p \in a .. m - 1, Names(t, p, b)
      PROVE  t[p].data = v
  <2>1. p # a
    BY <1>1, <1>3, ChainBoundary DEF Boundary
  <2> DEFINE j == p - a
  <2>2. j \in 1 .. k /\ a + j = p
    BY <1>1, <1>2, <2>1
  <2> HIDE DEF j
  <2>3. t[a].runs[j] = b
    BY <1>3, <2>2, ArrayNames, ZenonT(40)
  <2> QED
    BY <2>2, <2>3
<1>4. ASSUME NEW j \in 1 .. k, t[a].runs[j] = b
      PROVE  Named(t, a, m, b)
  <2>1. Names(t, a + j, b)
    BY <1>4, ArrayNames, SMTT(30)
  <2>2. a + j \in a .. m - 1
    BY <1>1, <1>2
  <2> QED
    BY <2>1, <2>2 DEF Named
<1>5. ~Named(t, a, m, b) => u = v
  BY <1>4
<1>6. LogSays(t, lo, a, b, u) /\ (~Named(t, lo, a, b) => d[b] = u)
  BY DEF Recovers
<1> HIDE DEF m, k
<1>7. LogSays(t, lo, m, b, v)
  BY <1>1, <1>2, <1>3, <1>5, <1>6, SaysJoin, SMTT(30)
<1>8. ASSUME ~Named(t, lo, m, b)
      PROVE  d[b] = v
  <2>1. ~Named(t, a, m, b)
    <3> SUFFICES ASSUME Named(t, a, m, b) PROVE FALSE
      OBVIOUS
    <3>1. m <= m
      BY <1>2
    <3> QED
      BY <1>1, <1>2, <1>8, <3>1, NamedWider
  <2>2. ~Named(t, lo, a, b)
    <3> SUFFICES ASSUME Named(t, lo, a, b) PROVE FALSE
      OBVIOUS
    <3>1. lo <= lo
      BY <1>1
    <3> QED
      BY <1>1, <1>2, <1>8, <3>1, NamedWider
  <2> QED
    BY <1>5, <1>6, <2>1, <2>2
<1> QED
  BY <1>7, <1>8 DEF Recovers, m

-----------------------------------------------------------------------------
(* What a replay would make of the disk *)

LEMMA TapeFacts ==
  ASSUME log \in [Positions -> LogBlocks], LogStart \in Positions
  PROVE  /\ Tape \in Tapes /\ Off(LogStart) = 0
         /\ \A p \in Positions : /\ Off(p) \in Positions /\ Off(p) \in Nat
                                 /\ Tape[Off(p)] = log[p]
                                 /\ p % LogSize = p
         /\ \A p, q \in Positions : Off(p) = Off(q) => p = q
         /\ \A p \in Positions, d \in Nat : Off(p) + d < LogSize =>
              /\ (p + d) % LogSize \in Positions
              /\ Off((p + d) % LogSize) = Off(p) + d
              /\ Tape[Off(p) + d] = log[(p + d) % LogSize]
<1>1. Tape \in Tapes /\ \A p \in Positions : Tape[Off(p)] = log[p]
  BY TapeType DEF Tape, Off, Tapes
<1>2. ASSUME NEW p \in Positions
      PROVE  /\ Off(p) \in Positions /\ p % LogSize = p
             /\ \A q \in Positions : Off(p) = Off(q) => p = q
  BY DistanceType DEF Off
<1>3. Off(LogStart) = 0
  BY DistanceType DEF Off
<1>4. ASSUME NEW p \in Positions, NEW d \in Nat, Off(p) + d < LogSize
      PROVE  /\ (p + d) % LogSize \in Positions
             /\ Off((p + d) % LogSize) = Off(p) + d
  BY <1>4, StepOn DEF Off
<1>5. Positions \subseteq Nat
  BY DEF Positions
<1> QED
  BY <1>1, <1>2, <1>3, <1>4, <1>5

Replays == [start : Positions, disk : [Blocks -> Buffers]]

LEMMA ReplayedType ==
  ASSUME log \in [Positions -> LogBlocks], NEW r \in Replays
  PROVE  ReplayedArray(r) \in Replays
<1>1. r.start \in Positions /\ r.disk \in [Blocks -> Buffers]
  BY DEF Replays
<1>2. ASSUME NEW x \in Nat
      PROVE  x % LogSize \in Positions
  BY JournalConstants DEF Positions
<1>3. r.start \in Nat
  BY <1>1 DEF Positions
<1> DEFINE runs == RunsAt(r.start)
<1>4. runs \in Seq(Blocks)
  BY <1>2, <1>3 DEF RunsAt, LogBlocks
<1> HIDE DEF runs
<1>5. Len(runs) \in Nat
  BY <1>4, LenProperties
<1>6. NextStart(r.start) \in Positions
  <2>1. r.start + Len(runs) + 1 \in Nat
    BY <1>3, <1>5
  <2> QED
    BY <1>2, <2>1 DEF NextStart, runs
<1>7. ASSUME NEW b \in Blocks
      PROVE  log[(r.start + SelectInSeq(runs, LAMBDA x : x = b)) % LogSize].data
               \in Buffers
  <2> DEFINE I == {i \in 1 .. Len(runs) : runs[i] = b}
             j == IF I # {} THEN Min(I) ELSE 0
  <2>1. SelectInSeq(runs, LAMBDA x : x = b) = j
    BY DEF SelectInSeq
  <2>2. I \in SUBSET Nat
    BY <1>5
  <2> HIDE DEF I
  <2>3. j \in Nat
    BY <2>2, LeastNat
  <2> HIDE DEF j
  <2>4. r.start + j \in Nat
    BY <1>3, <2>3
  <2>5. (r.start + j) % LogSize \in Positions
    BY <1>2, <2>4
  <2>6. log[(r.start + j) % LogSize].data \in Buffers
    BY <2>5 DEF LogBlocks
  <2> QED
    BY <2>1, <2>6
<1> DEFINE d == [b \in Blocks |->
                   IF Contains(runs, b)
                   THEN log[(r.start + SelectInSeq(runs, LAMBDA x : x = b))
                              % LogSize].data
                   ELSE r.disk[b]]
<1>8. d \in [Blocks -> Buffers]
  BY <1>1, <1>7
<1>9. ReplayedArray(r) = IF r.start = superBlockOnDisk.log_end \/ runs = <<>> THEN r
                         ELSE [start |-> NextStart(r.start), disk |-> d]
  BY DEF ReplayedArray, runs
<1> HIDE DEF d
<1> QED
  BY <1>6, <1>8, <1>9 DEF Replays

(* Recovered is where LogSize turns of the replay lead.                    *)
IsReplay(g) ==
  /\ g \in [0 .. LogSize -> Replays]
  /\ g[0] = [start |-> superBlockOnDisk.log_start, disk |-> disk]
  /\ \A i \in 1 .. LogSize : g[i] = ReplayedArray(g[i - 1])
  /\ Recovered = IF g[LogSize].start = superBlockOnDisk.log_end
                 THEN g[LogSize].disk ELSE [b \in Blocks |-> NULL]

LEMMA RecoveredRun ==
  ASSUME Types
  PROVE  \E g : IsReplay(g)
<1> DEFINE x == [start |-> superBlockOnDisk.log_start, disk |-> disk]
           B == [p \in Replays \X {0} |-> ReplayedArray(p[1])]
           q == [i \in 1 .. LogSize |-> 0]
           Eq(h) == h = [i \in 0 .. LogSize |->
                           IF i = 0 THEN {x} ELSE {ReplayedArray(r) : r \in h[i - 1]}]
           h == CHOOSE h : Eq(h)
<1>0. LogSize \in Nat /\ q \in Seq({0}) /\ Len(q) = LogSize
  BY JournalConstants
<1>1. x \in Replays
  BY DEF Types, Replays, SuperBlocks, Buffers
<1>2. IsBody(B, Replays, {0})
  BY ReplayedType DEF IsBody, Types
<1>3. \A r \in Replays : B[<<r, 0>>] = ReplayedArray(r)
  OBVIOUS
<1>4. \A i \in 1 .. LogSize : q[i] = 0
  OBVIOUS
<1> HIDE DEF B, q, x
<1>5. PICK g : IsRun(g, q, Replays, B, x)
  BY <1>0, <1>1, <1>2, RunExists
<1>6. /\ g \in [0 .. LogSize -> Replays] /\ g[0] = x
      /\ \A i \in 1 .. LogSize : g[i] = B[<<g[i - 1], q[i]>>]
  BY <1>0, <1>5 DEF IsRun
<1>7. ASSUME NEW i \in 1 .. LogSize
      PROVE  g[i] = ReplayedArray(g[i - 1])
  <2>1. i - 1 \in 0 .. LogSize
    BY <1>0
  <2>2. g[i - 1] \in Replays
    BY <1>6, <2>1
  <2> QED
    BY <1>3, <1>4, <1>6, <2>2
<1> DEFINE f == [i \in 0 .. LogSize |-> {g[i]}]
<1>8. Eq(f)
  <2>1. ASSUME NEW i \in 0 .. LogSize
        PROVE  f[i] = IF i = 0 THEN {x} ELSE {ReplayedArray(r) : r \in f[i - 1]}
    <3>1. CASE i = 0
      BY <1>6, <3>1
    <3>2. CASE i # 0
      <4>1. i \in 1 .. LogSize /\ i - 1 \in 0 .. LogSize
        BY <1>0, <3>2
      <4>2. f[i - 1] = {g[i - 1]} /\ f[i] = {g[i]}
        BY <4>1
      <4> HIDE DEF f
      <4>3. {ReplayedArray(r) : r \in f[i - 1]} = {ReplayedArray(g[i - 1])}
        BY <4>2
      <4> QED
        BY <1>7, <3>2, <4>1, <4>2, <4>3
    <3> QED
      BY <3>1, <3>2
  <2> QED
    BY <2>1
<1>9. Eq(h)
  <2>1. \E e : Eq(e)
    BY <1>8
  <2> HIDE DEF Eq
  <2> QED
    BY <2>1
<1> DEFINE e == CHOOSE r \in h[LogSize] : TRUE
<1>10. Recovered = IF e.start = superBlockOnDisk.log_end THEN e.disk
                   ELSE [b \in Blocks |-> NULL]
  BY DEF Recovered, x
<1> HIDE DEF h
<1>11. /\ h[0] = {x}
       /\ \A i \in 1 .. LogSize : h[i] = {ReplayedArray(r) : r \in h[i - 1]}
  <2>1. \A i \in 0 .. LogSize :
          h[i] = IF i = 0 THEN {x} ELSE {ReplayedArray(r) : r \in h[i - 1]}
    BY <1>9
  <2>2. 0 \in 0 .. LogSize /\ \A i \in 1 .. LogSize : i \in 0 .. LogSize /\ i # 0
    BY <1>0
  <2> QED
    BY <2>1, <2>2
<1> DEFINE P == {i \in 0 .. LogSize : h[i] = {g[i]}}
<1>12. 0 \in P
  BY <1>0, <1>6, <1>11
<1>13. ASSUME NEW i \in 1 .. LogSize, i - 1 \in P
       PROVE  i \in P
  <2>1. h[i - 1] = {g[i - 1]}
    BY <1>13
  <2>2. h[i] = {ReplayedArray(g[i - 1])}
    BY <1>11, <2>1
  <2> QED
    BY <1>0, <1>7, <2>2
<1>14. \A i \in 0 .. LogSize : i \in P
  <2> HIDE DEF P
  <2> QED
    BY <1>0, <1>12, <1>13, CountUp
<1>15. h[LogSize] = {g[LogSize]}
  BY <1>0, <1>14
<1>16. e = g[LogSize]
  BY <1>15
<1> HIDE DEF e
<1>17. Recovered = IF g[LogSize].start = superBlockOnDisk.log_end
                   THEN g[LogSize].disk ELSE [b \in Blocks |-> NULL]
  BY <1>10, <1>16
<1> QED
  BY <1>6, <1>7, <1>17 DEF IsReplay, x

(* One turn, seen on the tape                                              *)
LEMMA ReplayedOnTape ==
  ASSUME Types, NEW hi \in Positions, Chain(Tape, 0, hi),
         NEW r \in Replays, r.start # superBlockOnDisk.log_end,
         NEW a \in 0 .. hi - 1, a = Off(r.start), IsArray(Tape, a)
  PROVE  /\ Off(ReplayedArray(r).start) = Past(Tape, a)
         /\ \A b \in Blocks :
              /\ \A j \in 1 .. Len(Tape[a].runs) : Tape[a].runs[j] = b =>
                   ReplayedArray(r).disk[b] = Tape[a + j].data
              /\ (\A j \in 1 .. Len(Tape[a].runs) : Tape[a].runs[j] # b) =>
                   ReplayedArray(r).disk[b] = r.disk[b]
<1> DEFINE runs == RunsAt(r.start)
           k == Len(runs)
           s == r.start
<1>1. s \in Positions /\ s \in Nat /\ LogSize \in Nat /\ hi \in Nat /\ hi < LogSize
  BY JournalConstants DEF Replays, Positions
<1>2. Tape \in Tapes /\ hi \in 0 .. LogSize
  BY <1>1, TapeFacts DEF Types
<1>3. runs = Tape[a].runs
  BY <1>1, TapeFacts DEF RunsAt, Types
<1>4. /\ runs \in Seq(Blocks) /\ k \in Nat /\ k > 0 /\ runs # <<>>
      /\ Past(Tape, a) = a + k + 1 /\ Past(Tape, a) <= hi
  BY <1>2, <1>3, ChainFacts DEF Past, IsArray
<1>5. DOMAIN runs = 1 .. k /\ IsInjective(runs)
  BY <1>3, <1>4, LenProperties DEF Chain
<1> HIDE DEF runs, s
<1> DEFINE d == [b \in Blocks |->
                   IF Contains(runs, b)
                   THEN log[(s + SelectInSeq(runs, LAMBDA x : x = b)) % LogSize].data
                   ELSE r.disk[b]]
<1>6. ReplayedArray(r) = [start |-> NextStart(s), disk |-> d]
  BY <1>4 DEF ReplayedArray, runs, s
<1>7. NextStart(s) = (s + (k + 1)) % LogSize
  <2>1. s + (k + 1) = s + k + 1
    BY <1>1, <1>4
  <2> QED
    BY <2>1 DEF NextStart, runs, s
<1>8. \A j \in 0 .. k + 1 :
        j \in Nat /\ Off(s) + j < LogSize
        /\ Off(s) + j = a + j
  BY <1>1, <1>4 DEF s
<1>9. Off(NextStart(s)) = Past(Tape, a)
  <2>1. k + 1 \in 0 .. k + 1 /\ a + (k + 1) = a + k + 1
    BY <1>1, <1>4
  <2>2. k + 1 \in Nat /\ Off(s) + (k + 1) < LogSize /\ Off(s) + (k + 1) = a + (k + 1)
    BY <1>8, <2>1
  <2>3. Off((s + (k + 1)) % LogSize) = Off(s) + (k + 1)
    <3> DEFINE e == k + 1
    <3>1. e \in Nat /\ Off(s) + e < LogSize
      BY <2>2
    <3> HIDE DEF e
    <3>2. Off((s + e) % LogSize) = Off(s) + e
      BY <1>1, <3>1, TapeFacts DEF Types
    <3> QED
      BY <3>2 DEF e
  <2> QED
    BY <1>4, <1>7, <2>1, <2>2, <2>3
<1>10. ASSUME NEW b \in Blocks, NEW j \in 1 .. k, runs[j] = b
       PROVE  d[b] = Tape[a + j].data
  <2> DEFINE I == {i \in 1 .. k : runs[i] = b}
  <2>1. I = {j}
    BY <1>5, <1>10 DEF IsInjective
  <2>2. SelectInSeq(runs, LAMBDA x : x = b) = IF I # {} THEN Min(I) ELSE 0
    BY DEF SelectInSeq
  <2> HIDE DEF I
  <2>3. Min(I) = j
    <3>1. I \in SUBSET Nat /\ I # {}
      BY <1>4, <2>1
    <3>2. Min(I) \in I
      BY <3>1, LeastNat
    <3> QED
      BY <2>1, <3>2
  <2>4. SelectInSeq(runs, LAMBDA x : x = b) = j
    BY <2>1, <2>2, <2>3
  <2>5. Contains(runs, b)
    BY <1>10 DEF Contains
  <2>6. d[b] = log[(s + j) % LogSize].data
    BY <2>4, <2>5
  <2>7. j \in Nat /\ Off(s) + j < LogSize /\ Off(s) + j = a + j
    BY <1>4, <1>8
  <2>8. Tape[Off(s) + j] = log[(s + j) % LogSize]
    BY <1>1, <2>7, TapeFacts DEF Types
  <2> QED
    BY <2>6, <2>7, <2>8
<1>11. ASSUME NEW b \in Blocks, \A j \in 1 .. k : runs[j] # b
       PROVE  d[b] = r.disk[b]
  BY <1>11 DEF Contains
<1>12. ReplayedArray(r).start = NextStart(s) /\ ReplayedArray(r).disk = d
  BY <1>6
<1> HIDE DEF d, k
<1> QED
  BY <1>3, <1>9, <1>10, <1>11, <1>12 DEF k

Recoverable ==
  LET lo == Off(superBlockOnDisk.log_start)
      hi == Off(superBlockOnDisk.log_end)
  IN /\ lo <= hi /\ Chain(Tape, 0, hi) /\ Boundary(Tape, lo, hi)
     /\ \A b \in Blocks : Recovers(Tape, lo, hi, disk, b, finished[logged][b])

LEMMA RecoveredValue ==
  ASSUME Types, Recoverable
  PROVE  Recovered = finished[logged]
<1> DEFINE t == Tape
           lo == Off(superBlockOnDisk.log_start)
           hi == Off(superBlockOnDisk.log_end)
           F == finished[logged]
<1>1. PICK g : IsReplay(g)
  BY RecoveredRun
<1>2. /\ g \in [0 .. LogSize -> Replays]
      /\ g[0].start = superBlockOnDisk.log_start /\ g[0].disk = disk
      /\ \A i \in 1 .. LogSize : g[i] = ReplayedArray(g[i - 1])
  BY <1>1 DEF IsReplay
<1>3. superBlockOnDisk.log_start \in Positions /\ superBlockOnDisk.log_end \in Positions
  BY DEF Types, SuperBlocks
<1>4. lo \in Nat /\ hi \in Positions /\ hi \in Nat /\ hi < LogSize /\ LogSize \in Nat
      /\ hi \in 0 .. LogSize /\ t \in Tapes /\ lo <= hi
  <2>1. t \in Tapes /\ lo \in Nat /\ hi \in Positions
    BY <1>3, TapeFacts DEF Types
  <2>2. lo <= hi
    BY DEF Recoverable
  <2> HIDE DEF t, lo, hi
  <2> QED
    BY <2>1, <2>2, JournalConstants DEF Positions
<1>5. /\ Chain(t, 0, hi) /\ Boundary(t, lo, hi)
      /\ \A b \in Blocks : Recovers(t, lo, hi, disk, b, F[b])
  BY DEF Recoverable
<1>6. F \in [Blocks -> Values]
  <2>1. finished \in Seq([Blocks -> Values]) /\ logged \in 1 .. Len(finished)
    BY DEF Types
  <2> QED
    BY <2>1
<1> DEFINE Turn(i) ==
             LET o == Off(g[i].start)
             IN /\ o \in lo .. hi /\ Boundary(t, o, hi) /\ (o = hi \/ o >= lo + i)
                /\ \A b \in Blocks : Recovers(t, lo, o, disk, b, g[i].disk[b])
           P == {i \in 0 .. LogSize : Turn(i)}
<1> HIDE DEF t, lo, hi, F
<1>7. 0 \in P
  <2>1. Off(g[0].start) = lo
    BY <1>2 DEF lo
  <2>2. ASSUME NEW b \in Blocks
        PROVE  Recovers(t, lo, lo, disk, b, g[0].disk[b])
    BY <1>2, <1>4 DEF Recovers, LogSays
  <2>3. Turn(0)
    BY <1>4, <1>5, <2>1, <2>2
  <2> QED
    BY <1>4, <2>3
<1>8. ASSUME NEW i \in 1 .. LogSize, i - 1 \in P
      PROVE  i \in P
  <2> DEFINE r == g[i - 1]
             o == Off(r.start)
             e == Off(g[i].start)
  <2>1. /\ o \in lo .. hi /\ Boundary(t, o, hi) /\ (o = hi \/ o >= lo + (i - 1))
        /\ \A b \in Blocks : Recovers(t, lo, o, disk, b, r.disk[b])
    BY <1>8
  <2>2. r \in Replays /\ g[i] = ReplayedArray(r)
    BY <1>2, <1>4
  <2>3. r.start \in Positions
    BY <2>2 DEF Replays
  <2> HIDE DEF r
  <2>4. CASE o = hi
    <3>1. r.start = superBlockOnDisk.log_end
      BY <1>3, <2>3, <2>4, TapeFacts DEF Types, hi
    <3>2. g[i] = r
      BY <2>2, <3>1 DEF ReplayedArray
    <3>3. Turn(i)
      BY <2>1, <2>4, <3>2
    <3> QED
      BY <1>4, <3>3
  <2>5. CASE o # hi
    <3>1. o \in 0 .. hi - 1 /\ IsArray(t, o) /\ lo \in 0 .. o /\ o \in Nat
      BY <1>4, <2>1, <2>5 DEF Boundary
    <3>2. r.start # superBlockOnDisk.log_end
      BY <2>5 DEF hi
    <3> HIDE DEF o, e
    <3>3. /\ e = Past(t, o)
          /\ \A b \in Blocks :
               /\ \A j \in 1 .. Len(t[o].runs) : t[o].runs[j] = b =>
                    g[i].disk[b] = t[o + j].data
               /\ (\A j \in 1 .. Len(t[o].runs) : t[o].runs[j] # b) =>
                    g[i].disk[b] = r.disk[b]
      BY <1>4, <1>5, <2>2, <3>1, <3>2, ReplayedOnTape, SMTT(30) DEF t, o, e
    <3>4. /\ e \in Nat /\ e > o /\ e <= hi
          /\ e < hi => IsArray(t, e)
      BY <1>4, <1>5, <3>1, <3>3, ChainFacts
    <3>5. ASSUME NEW b \in Blocks
          PROVE  Recovers(t, lo, e, disk, b, g[i].disk[b])
      <4> DEFINE v == g[i].disk[b]
                 u == r.disk[b]
      <4>1. /\ Recovers(t, lo, o, disk, b, u)
            /\ \A j \in 1 .. Len(t[o].runs) : t[o].runs[j] = b => v = t[o + j].data
            /\ (\A j \in 1 .. Len(t[o].runs) : t[o].runs[j] # b) => v = u
        BY <2>1, <3>3 DEF o
      <4> HIDE DEF u, v
      <4>2. Recovers(t, lo, Past(t, o), disk, b, v)
        BY <1>4, <1>5, <3>1, <4>1, ReplayTurn
      <4> QED
        BY <3>3, <4>2 DEF v
    <3>6. Boundary(t, e, hi) /\ (e = hi \/ e >= lo + i) /\ e \in lo .. hi
      BY <1>4, <2>1, <2>5, <3>1, <3>4 DEF Boundary, o
    <3>7. Turn(i)
      BY <3>5, <3>6 DEF e
    <3> QED
      BY <1>4, <3>7
  <2> QED
    BY <2>4, <2>5
<1>9. \A i \in 0 .. LogSize : i \in P
  <2> HIDE DEF P
  <2> QED
    BY <1>4, <1>7, <1>8, CountUp
<1>10. Turn(LogSize)
  BY <1>4, <1>9
<1> DEFINE r == g[LogSize]
<1>11. Off(r.start) = hi /\ \A b \in Blocks : Recovers(t, lo, hi, disk, b, r.disk[b])
  <2> DEFINE o == Off(r.start)
  <2>1. /\ o \in lo .. hi /\ (o = hi \/ o >= lo + LogSize)
        /\ \A b \in Blocks : Recovers(t, lo, o, disk, b, r.disk[b])
    BY <1>10
  <2> HIDE DEF o
  <2>2. o = hi
    BY <1>4, <2>1
  <2> QED
    BY <2>1, <2>2 DEF o
<1>12. r \in Replays /\ r.start \in Positions /\ r.disk \in [Blocks -> Buffers]
  BY <1>2, <1>4 DEF Replays
<1> HIDE DEF r, Turn, P
<1>13. r.start = superBlockOnDisk.log_end
  BY <1>3, <1>11, <1>12, TapeFacts DEF Types, hi
<1>14. Recovered = r.disk
  BY <1>1, <1>13 DEF IsReplay, r
<1>15. ASSUME NEW b \in Blocks
       PROVE  r.disk[b] = F[b]
  BY <1>4, <1>5, <1>11, RecoversOne
<1>16. r.disk = F
  BY <1>6, <1>12, <1>15
<1> QED
  BY <1>14, <1>16 DEF F

-----------------------------------------------------------------------------
(* The entry of the open transaction *)

Currents == [b \in Blocks |-> cache[b].current]

(* The arrays name the blocks of the transaction, each of them once.       *)
LEMMA ChangedBlocks ==
  /\ Changed \in Seq(Blocks) /\ IsInjective(Changed)
  /\ Range(Changed) = InTransaction(cache)
  /\ Len(Changed) = Cardinality(InTransaction(cache)) /\ Len(Changed) \in Nat
  /\ Changed = <<>> <=> InTransaction(cache) = {}
<1> DEFINE S == InTransaction(cache)
           key == [b \in S |-> b]
<1>1. S \in SUBSET Blocks
  BY DEF InTransaction
<1>2. IsFiniteSet(S)
  BY <1>1, BlockNumbers, FS_Subset
<1>3. key \in [S -> Nat] /\ IsInjective(key)
  BY <1>1, BlockNumbers DEF IsInjective
<1>4. Changed = SortedBy(key)
  BY DEF Changed
<1> HIDE DEF key, S
<1>5. Changed \in Seq(S) /\ IsInjective(Changed) /\ Range(Changed) = S
      /\ Len(Changed) = Cardinality(S)
  BY <1>2, <1>3, <1>4, SortedBySeq
<1>6. Changed \in Seq(Blocks)
  <2>1. Len(Changed) \in Nat /\ DOMAIN Changed = 1 .. Len(Changed)
        /\ \A i \in 1 .. Len(Changed) : Changed[i] \in S
    BY <1>5, LenProperties
  <2>2. Changed = [i \in 1 .. Len(Changed) |-> Changed[i]]
    BY <1>5
  <2> QED
    BY <1>1, <2>1, <2>2
<1>7. Changed = <<>> <=> S = {}
  <2>1. Len(Changed) \in Nat /\ (Changed = <<>> <=> Len(Changed) = 0)
    BY <1>5, LenProperties, EmptySeq
  <2>2. Cardinality(S) = 0 <=> S = {}
    BY <1>2, FS_EmptySet
  <2> QED
    BY <1>5, <2>1, <2>2
<1>8. Len(Changed) \in Nat
  BY <1>6, LenProperties
<1> QED
  BY <1>5, <1>6, <1>7, <1>8 DEF S

(* It fits into an empty log.                                              *)
LEMMA EntryFits ==
  /\ LogEntryLength = EntryLength(Changed) /\ LogEntryLength \in Nat
  /\ LogEntryLength <= LogSize
  /\ InTransaction(cache) # {} => LogEntryLength > 0
<1> DEFINE len == Len(Changed)
           n == Cardinality(Blocks)
           k == Capacity
           total == n + Ceil(n, k)
<1>1. len = Cardinality(InTransaction(cache)) /\ len \in Nat /\ k \in Nat \ {0}
  BY ChangedBlocks, JournalConstants DEF Capacity
<1>2. n \in Nat /\ len <= n
  <2>1. InTransaction(cache) \in SUBSET Blocks
    BY DEF InTransaction
  <2>2. Cardinality(InTransaction(cache)) <= n /\ n \in Nat
    BY <2>1, BlockNumbers, FS_Subset, FS_CardinalityType
  <2> QED
    BY <1>1, <2>2
<1>2a. InTransaction(cache) # {} => len > 0
  BY <1>1, ChangedBlocks, EmptySeq
<1>3. total <= LogSize /\ LogSize \in Nat
  BY LogHoldsVolume, JournalConstants
<1>4. LogEntryLength = len + Ceil(len, k) /\ LogEntryLength = EntryLength(Changed)
  BY DEF LogEntryLength, EntryLength
<1> HIDE DEF len, n, k
<1>5. Ceil(len, k) \in Nat /\ Ceil(n, k) \in Nat /\ Ceil(len, k) <= Ceil(n, k)
  BY <1>1, <1>2, CeilBounds, CeilMonotone
<1> QED
  BY <1>1, <1>2, <1>2a, <1>3, <1>4, <1>5

LEMMA EntryBlocks ==
  ASSUME NEW i \in Nat, i < LogEntryLength
  PROVE  EntryBlock(i) = EntryOf(Changed, Currents, i)
<1> DEFINE len == Len(Changed)
           k == Capacity
           first == (i \div (k + 1)) * k
           n == i % (k + 1)
<1>1. len \in Nat /\ k \in Nat \ {0} /\ i < len + Ceil(len, k)
  BY ChangedBlocks, JournalConstants DEF Capacity, LogEntryLength
<1>2. first \in Nat /\ n \in 0 .. k /\ (n > 0 => first + n <= len)
  <2> HIDE DEF len, k
  <2> QED
    BY <1>1, EntryIndex
<1>3. n # 0 => first + n \in 1 .. len
  <2> HIDE DEF len, k, first, n
  <2> QED
    BY <1>1, <1>2
<1>4. n # 0 => Currents[Changed[first + n]] = cache[Changed[first + n]].current
  <2> SUFFICES ASSUME n # 0
               PROVE  Currents[Changed[first + n]] = cache[Changed[first + n]].current
    OBVIOUS
  <2> DEFINE x == first + n
  <2>1. x \in 1 .. Len(Changed)
    BY <1>3
  <2> HIDE DEF x
  <2>2. Changed[x] \in Blocks
    BY <2>1, ChangedBlocks, LenProperties
  <2>3. Currents[Changed[x]] = cache[Changed[x]].current
    BY <2>2 DEF Currents
  <2> QED
    BY <2>3 DEF x
<1>5. CASE n = 0
  BY <1>5 DEF EntryBlock, EntryOf
<1>6. CASE n # 0
  BY <1>4, <1>6 DEF EntryBlock, EntryOf
<1> QED
  BY <1>5, <1>6

LEMMA FreeBlocks ==
  ASSUME Types
  PROVE  FreeLogBlocks = LogSize - Off(LogEnd)
BY JournalConstants DEF Types, Positions, FreeLogBlocks, Off, Distance

(* logPosition                                                             *)
LEMMA PositionAfter ==
  ASSUME NEW start \in Positions, NEW p \in Positions, NEW n \in Nat,
         Distance(start, p) + n < LogSize, LogPosition(p, n) # LogSize
  PROVE  /\ LogPosition(p, n) \in Positions
         /\ Distance(start, LogPosition(p, n)) = Distance(start, p) + n
<1>1. p % LogSize = p
  BY DistanceType
<1>2. LogPosition(p, n) = IF p + n > LogSize THEN p + n - LogSize ELSE p + n
  <2> DEFINE e == p % LogSize
  <2>1. LogPosition(p, n) = IF e + n > LogSize THEN e + n - LogSize ELSE e + n
    BY JournalConstants DEF LogPosition, Positions
  <2>2. e = p
    BY <1>1
  <2> HIDE DEF e
  <2> QED
    BY <2>1, <2>2
<1> DEFINE q == LogPosition(p, n)
<1> HIDE DEF q
<1>3. q = IF p + n > LogSize THEN p + n - LogSize ELSE p + n
  BY <1>2 DEF q
<1>4. q # LogSize
  BY DEF q
<1>5. q \in Positions /\ Distance(start, q) = Distance(start, p) + n
  BY <1>3, <1>4, JournalConstants DEF Distance, Positions
<1> QED
  BY <1>5 DEF q

LEMMA LogTypes ==
  ASSUME Types
  PROVE  /\ log \in [Positions -> LogBlocks] /\ Tape \in Tapes
         /\ LogStart \in Positions /\ LogEnd \in Positions
         /\ entry.start \in Positions /\ entry.written \in Nat /\ entry.id \in Values
         /\ superBlock.log_start \in Positions /\ superBlock.log_end \in Positions
         /\ superBlockOnDisk.log_start \in Positions
         /\ superBlockOnDisk.log_end \in Positions
         /\ LogSize \in Nat /\ Positions \subseteq Nat
         /\ \A p \in Positions : Off(p) \in Nat /\ Off(p) < LogSize /\ Off(p) \in 0 .. LogSize
<1>1. /\ log \in [Positions -> LogBlocks]
      /\ LogStart \in Positions /\ LogEnd \in Positions
      /\ entry.start \in Positions /\ entry.written \in Nat /\ entry.id \in Values
      /\ superBlock.log_start \in Positions /\ superBlock.log_end \in Positions
      /\ superBlockOnDisk.log_start \in Positions
      /\ superBlockOnDisk.log_end \in Positions
  BY DEF Types, SuperBlocks
<1>2. LogSize \in Nat /\ Positions \subseteq Nat
  BY JournalConstants DEF Positions
<1>3. Tape \in Tapes /\ \A p \in Positions : Off(p) \in Positions
  BY <1>1, TapeFacts
<1>4. \A x \in Positions : x \in Nat /\ x < LogSize /\ x \in 0 .. LogSize
  BY <1>2 DEF Positions
<1> QED
  BY <1>1, <1>2, <1>3, <1>4

(* Once all its blocks are written, the entry continues the log.           *)
LEMMA EntryWritten ==
  ASSUME Types, Chain(Tape, 0, Off(LogEnd)), MountedInv,
         pc \in {"log_end", "log_super", "log_position"},
         NEW hi, hi = Off(LogEnd) + LogEntryLength
  PROVE  /\ hi \in Off(LogEnd) + 1 .. LogSize - 1
         /\ Chain(Tape, 0, hi) /\ IsArray(Tape, Off(LogEnd))
         /\ \A b : Named(Tape, Off(LogEnd), hi, b) <=> b \in InTransaction(cache)
         /\ \A b \in Blocks : LogSays(Tape, 0, hi, b, cache[b].current)
         /\ LogPosition(entry.start, entry.written) \in Positions
         /\ Off(LogPosition(entry.start, entry.written)) = hi
<1> DEFINE m == Off(LogEnd)
           v == Currents
<1>1. pc \in Logging /\ pc \notin Closing /\ pc # "log_write"
  BY DEF Logging, Closing
<1>2. /\ m + LogEntryLength < LogSize
      /\ LogPosition(LogEnd, LogEntryLength) # LogSize
      /\ entry.written = LogEntryLength
      /\ \A i \in 0 .. entry.written - 1 : Tape[m + i] = EntryBlock(i)
  BY <1>1 DEF MountedInv, EntryInv
<1>3. entry.start = LogEnd /\ InTransaction(cache) # {}
  BY <1>1 DEF MountedInv, PointerInv, ControlInv
<1>4. m \in Nat /\ LogSize \in Nat /\ Tape \in Tapes /\ LogEnd \in Positions
      /\ LogStart \in Positions
  BY LogTypes
<1>5. LogEntryLength = EntryLength(Changed) /\ LogEntryLength \in Nat
  BY EntryFits
<1>6. v \in [Blocks -> Values]
  BY DEF MountedInv, CacheInv, Currents
<1>7. /\ Changed \in Seq(Blocks) /\ IsInjective(Changed) /\ Changed # <<>>
      /\ Range(Changed) = InTransaction(cache)
  BY <1>3, ChangedBlocks
<1> HIDE DEF m
<1>8. OnTape(Tape, m, Changed, v)
  <2>1. ASSUME NEW i \in 0 .. LogEntryLength - 1
        PROVE  Tape[m + i] = EntryOf(Changed, v, i)
    <3>1. i \in Nat /\ i < LogEntryLength
      BY <1>5
    <3>2. EntryBlock(i) = EntryOf(Changed, v, i)
      BY <3>1, EntryBlocks
    <3> QED
      BY <1>2, <3>2
  <2>2. m + LogEntryLength <= LogSize
    BY <1>2, <1>4, <1>5
  <2> QED
    BY <1>4, <1>5, <2>1, <2>2 DEF OnTape
<1> HIDE DEF v
<1>9. Chain(Tape, 0, m) /\ hi = m + EntryLength(Changed)
  BY <1>5 DEF m
<1>10. /\ hi \in m + 1 .. LogSize /\ Chain(Tape, 0, hi) /\ IsArray(Tape, m)
       /\ \A b : Named(Tape, m, hi, b) <=> b \in Range(Changed)
       /\ \A b, u : LogSays(Tape, 0, m, b, u) /\ (b \notin Range(Changed) => u = v[b]) =>
            LogSays(Tape, 0, hi, b, v[b])
  BY <1>4, <1>6, <1>7, <1>8, <1>9, EntryAppended
<1>11. hi \in m + 1 .. LogSize - 1
  BY <1>2, <1>4, <1>5, <1>10 DEF m
<1>12. ASSUME NEW b \in Blocks
       PROVE  LogSays(Tape, 0, hi, b, cache[b].current)
  <2>1. LogSays(Tape, 0, m, b, Old(b))
    BY <1>1 DEF MountedInv, LogInv, Committed, m
  <2>2. v[b] = cache[b].current
    BY DEF v, Currents
  <2>3. b \notin Range(Changed) => Old(b) = v[b]
    BY <1>7, <2>2 DEF InTransaction, Old
  <2> QED
    BY <1>10, <2>1, <2>2, <2>3
<1>13. /\ LogPosition(LogEnd, LogEntryLength) \in Positions
       /\ Distance(LogStart, LogPosition(LogEnd, LogEntryLength))
            = Distance(LogStart, LogEnd) + LogEntryLength
  BY <1>2, <1>4, <1>5, PositionAfter DEF m, Off
<1>14. /\ LogPosition(entry.start, entry.written) \in Positions
       /\ Off(LogPosition(entry.start, entry.written)) = hi
  BY <1>2, <1>3, <1>13 DEF Off
<1> QED
  BY <1>7, <1>10, <1>11, <1>12, <1>14 DEF m

-----------------------------------------------------------------------------
(* A crash at any time *)

(* The log begins with the first entry of the list.                        *)
LEMMA LogBegins ==
  ASSUME Types, Chain(Tape, 0, Off(LogEnd)), MountedInv
  PROVE  /\ Off(superBlock.log_start) <= Off(Tip) /\ Off(Tip) <= Off(LogEnd)
         /\ Tip \in Positions
         /\ Boundary(Tape, Off(superBlock.log_start), Off(LogEnd))
         /\ \A i \in DOMAIN fEntries :
              Start(i) \in Nat /\ Start(i) >= Off(superBlock.log_start)
<1>1. Tip \in Positions /\ Off(Tip) <= Off(LogEnd)
  <2>1. PointerInv /\ LogEnd \in Positions /\ entry.start \in Positions /\ entry.written \in Nat
        /\ Off(LogEnd) \in Nat /\ Off(entry.start) \in Nat
    BY LogTypes DEF MountedInv
  <2>2. CASE pc = "log_add"
    <3>1. Tip = entry.start /\ Off(LogEnd) = Off(entry.start) + entry.written
      BY <2>1, <2>2 DEF Tip, PointerInv
    <3> QED
      BY <2>1, <3>1
  <2>3. CASE pc # "log_add"
    <3>1. Tip = LogEnd
      BY <2>3 DEF Tip
    <3> QED
      BY <2>1, <3>1
  <2> QED
    BY <2>2, <2>3
<1>2. fEntries \in Seq(LogEntries) /\ DOMAIN fEntries = 1 .. Len(fEntries)
      /\ Len(fEntries) \in Nat
  BY LenProperties DEF Types
<1>3. ASSUME NEW i \in DOMAIN fEntries
      PROVE  fEntries[i].start \in Positions /\ Start(i) \in Nat
  <2>1. fEntries[i] \in LogEntries
    BY <1>2
  <2>2. fEntries[i].start \in Positions
    BY <2>1 DEF LogEntries
  <2> QED
    BY <2>2, LogTypes DEF Start
<1>4. CASE fEntries = <<>>
  <2>1. superBlock.log_start = Tip /\ DOMAIN fEntries = {}
    BY <1>4 DEF MountedInv, EntriesInv
  <2>2. Off(Tip) \in Nat
    BY <1>1, LogTypes
  <2>3. Boundary(Tape, Off(Tip), Off(LogEnd))
    BY DEF MountedInv, EntriesInv, Boundary, Tip
  <2> QED
    BY <1>1, <2>1, <2>2, <2>3
<1>5. CASE fEntries # <<>>
  <2>1. superBlock.log_start = fEntries[1].start
    BY <1>5 DEF MountedInv, EntriesInv
  <2>2. 1 \in DOMAIN fEntries
    BY <1>2, <1>5
  <2>3. Off(superBlock.log_start) = Start(1) /\ Start(1) \in Nat
    BY <1>3, <2>1, <2>2 DEF Start
  <2>4. IsArray(Tape, Start(1)) /\ Start(1) < Off(Tip) /\ Off(Tip) \in Nat
        /\ Off(LogEnd) \in Nat
    BY <1>1, <2>2, LogTypes DEF MountedInv, EntriesInv
  <2>5. ASSUME NEW i \in DOMAIN fEntries
        PROVE  Start(i) \in Nat /\ Start(i) >= Start(1)
    <3>1. Start(i) \in Nat /\ (1 < i => Start(1) < Start(i))
      BY <1>3, <2>2 DEF MountedInv, EntriesInv
    <3>2. i = 1 \/ 1 < i
      BY <1>2
    <3> QED
      BY <2>3, <3>1, <3>2
  <2> QED
    BY <1>1, <2>3, <2>4, <2>5 DEF Boundary
<1> QED
  BY <1>4, <1>5

LEMMA RecoverNow ==
  ASSUME Inv
  PROVE  Recoverable
<1> DEFINE lo == Off(superBlockOnDisk.log_start)
           hi == Off(superBlockOnDisk.log_end)
           m == Off(LogEnd)
           s == Off(superBlock.log_start)
           F == finished[logged]
<1>1. Types /\ Chain(Tape, 0, m)
  BY DEF Inv
<1>2. lo \in Nat /\ hi \in Nat /\ m \in Nat /\ s \in Nat /\ Tape \in Tapes
      /\ m \in 0 .. LogSize /\ hi \in 0 .. LogSize
  BY <1>1, LogTypes
<1>3. CASE pc = "replay"
  <2>1. ReplayInv
    BY <1>3 DEF Inv
  <2>2. hi = m /\ lo = 0
    BY <1>1, <2>1, TapeFacts DEF ReplayInv, Types
  <2>3. Boundary(Tape, 0, m)
    BY <1>1, <1>2 DEF Chain, Boundary
  <2>4. \A b \in Blocks : Recovers(Tape, 0, m, disk, b, finished[logged][b])
    BY <2>1 DEF ReplayInv
  <2> QED
    BY <1>1, <1>2, <2>2, <2>3, <2>4 DEF Recoverable
<1>4. CASE pc # "replay"
  <2>1. MountedInv
    BY <1>4 DEF Inv
  <2>2. s <= m /\ Boundary(Tape, s, m)
        /\ \A i \in DOMAIN fEntries : Start(i) \in Nat /\ Start(i) >= s
    <3>1. Off(Tip) \in Nat
      BY <1>1, <2>1, LogBegins, LogTypes
    <3>2. s <= Off(Tip) /\ Off(Tip) <= m
      BY <1>1, <2>1, LogBegins
    <3>3. s <= m
      BY <1>2, <3>1, <3>2
    <3> QED
      BY <1>1, <2>1, <3>3, LogBegins
  <2>3. lo <= s /\ lo <= m /\ Boundary(Tape, lo, m)
    <3>1. Off(LogStart) = 0
      BY <1>1, TapeFacts DEF Types
    <3>2. Boundary(Tape, 0, m)
      BY <1>1, <1>2 DEF Chain, Boundary
    <3>3. lo = 0 \/ lo = s
      BY <2>1, <3>1 DEF MountedInv, PointerInv
    <3> QED
      BY <1>2, <2>2, <3>2, <3>3
  <2>4. ASSUME NEW b \in Blocks, ~Named(Tape, lo, m, b)
        PROVE  disk[b] = Old(b)
    <3>1. CASE b \in InPrevious(cache)
      <4>1. PICK i \in DOMAIN fEntries : Named(Tape, Start(i), m, b)
        BY <2>1, <3>1 DEF MountedInv, LogInv
      <4>2. Start(i) \in Nat /\ lo <= Start(i) /\ m <= m
        BY <1>2, <2>2, <2>3
      <4> QED
        BY <1>2, <2>4, <4>1, <4>2, NamedWider
    <3>2. CASE b \notin InPrevious(cache)
      BY <2>1, <3>2 DEF InPrevious, MountedInv, CacheInv
    <3> QED
      BY <3>1, <3>2
  <2>5. CASE ~EntryLogged
    <3>1. hi = m
      BY <2>1, <2>5 DEF MountedInv, PointerInv, EntryLogged
    <3>2. ASSUME NEW b \in Blocks
          PROVE  Recovers(Tape, lo, m, disk, b, F[b])
      <4>1. Old(b) = F[b] /\ Committed(b) = Old(b)
        BY <2>1, <2>5 DEF MountedInv, CacheInv, Committed, EntryLogged, Closing
      <4>2. LogSays(Tape, 0, m, b, F[b])
        BY <2>1, <4>1 DEF MountedInv, LogInv
      <4>3. LogSays(Tape, lo, m, b, F[b])
        BY <1>2, <4>2, SaysLater
      <4> QED
        BY <2>4, <4>1, <4>3 DEF Recovers
    <3> QED
      BY <1>1, <2>3, <3>1, <3>2 DEF Recoverable
  <2>6. ASSUME EntryLogged, NEW b \in Blocks
        PROVE  F[b] = cache[b].current
    <3>1. logged = Len(finished) /\ pc # "open"
      BY <2>1, <2>6 DEF MountedInv, PointerInv, EntryLogged, Closing
    <3> QED
      BY <2>1, <3>1 DEF MountedInv, CacheInv, Last
  <2>7. CASE pc \in Closing
    <3>1. EntryLogged /\ hi = m
      BY <2>1, <2>7 DEF EntryLogged, MountedInv, PointerInv, Closing
    <3>2. ASSUME NEW b \in Blocks
          PROVE  Recovers(Tape, lo, m, disk, b, F[b])
      <4>1. F[b] = cache[b].current /\ Committed(b) = F[b]
        BY <2>6, <2>7, <3>1 DEF Committed
      <4>2. LogSays(Tape, 0, m, b, F[b])
        BY <2>1, <4>1 DEF MountedInv, LogInv
      <4>3. LogSays(Tape, lo, m, b, F[b])
        BY <1>2, <4>2, SaysLater
      <4>4. ASSUME ~Named(Tape, lo, m, b)
            PROVE  b \notin InTransaction(cache)
        <5> SUFFICES ASSUME b \in InTransaction(cache) PROVE Named(Tape, lo, m, b)
          BY <4>4
        <5>1. CASE pc = "log_add"
          <6>1. Named(Tape, Off(entry.start), m, b)
            BY <2>1, <5>1 DEF MountedInv, LogInv
          <6>2. lo <= Off(entry.start) /\ Off(entry.start) \in Nat /\ m <= m
            <7>1. s <= Off(Tip) /\ Off(entry.start) \in Nat
              BY <1>1, <2>1, LogBegins, LogTypes
            <7> QED
              BY <1>2, <2>3, <5>1, <7>1 DEF Tip
          <6> QED
            BY <1>2, <6>1, <6>2, NamedWider
        <5>2. CASE pc \in {"cache_end", "cache_end_written"}
          <6>1. fEntries # <<>> /\ Named(Tape, Start(Len(fEntries)), m, b)
            BY <2>1, <5>2 DEF MountedInv, LogInv
          <6>2. Len(fEntries) \in DOMAIN fEntries
            BY <1>1, <6>1 DEF Types
          <6>3. Start(Len(fEntries)) \in Nat /\ lo <= Start(Len(fEntries)) /\ m <= m
            BY <1>2, <2>2, <2>3, <6>2
          <6> QED
            BY <1>2, <6>1, <6>3, NamedWider
        <5> QED
          BY <2>7, <5>1, <5>2 DEF Closing
      <4> QED
        BY <2>4, <4>1, <4>3, <4>4 DEF Recovers, InTransaction, Old
    <3> QED
      BY <1>1, <2>3, <3>1, <3>2 DEF Recoverable
  <2>8. CASE EntryLogged /\ pc \notin Closing
    <3>1. pc \in {"log_end", "log_super", "log_position"}
          /\ superBlockOnDisk.log_end = LogPosition(entry.start, entry.written)
      BY <2>1, <2>8 DEF EntryLogged, MountedInv, PointerInv
    <3> DEFINE n == m + LogEntryLength
    <3>2. /\ n \in m + 1 .. LogSize - 1
          /\ Chain(Tape, 0, n) /\ IsArray(Tape, m)
          /\ \A b : Named(Tape, m, n, b) <=> b \in InTransaction(cache)
          /\ \A b \in Blocks : LogSays(Tape, 0, n, b, cache[b].current)
          /\ hi = n
      BY <1>1, <2>1, <3>1, EntryWritten
    <3> HIDE DEF n
    <3>3. lo <= n /\ m <= n /\ n \in Nat
      BY <1>2, <2>3, <3>2
    <3>4. Boundary(Tape, lo, n)
      BY <2>3, <3>2 DEF Boundary
    <3>5. ASSUME NEW b \in Blocks
          PROVE  Recovers(Tape, lo, n, disk, b, F[b])
      <4>1. LogSays(Tape, lo, n, b, F[b])
        BY <1>2, <2>6, <2>8, <3>2, <3>3, SaysLater
      <4>2. ASSUME ~Named(Tape, lo, n, b)
            PROVE  disk[b] = F[b]
        <5>1. ~Named(Tape, m, n, b)
          <6> SUFFICES ASSUME Named(Tape, m, n, b) PROVE FALSE
            OBVIOUS
          <6>1. n <= n
            BY <3>3
          <6> QED
            BY <1>2, <2>3, <3>3, <4>2, <6>1, NamedWider
        <5>2. ~Named(Tape, lo, m, b)
          <6> SUFFICES ASSUME Named(Tape, lo, m, b) PROVE FALSE
            OBVIOUS
          <6>1. lo <= lo
            BY <1>2
          <6> QED
            BY <1>2, <3>3, <4>2, <6>1, NamedWider
        <5>3. b \notin InTransaction(cache)
          BY <3>2, <5>1
        <5> QED
          BY <2>4, <2>6, <2>8, <5>2, <5>3 DEF InTransaction, Old
      <4> QED
        BY <4>1, <4>2 DEF Recovers
    <3> QED
      BY <3>2, <3>3, <3>4, <3>5 DEF Recoverable
  <2> QED
    BY <2>5, <2>7, <2>8
<1> QED
  BY <1>3, <1>4

-----------------------------------------------------------------------------
(* Steps that leave the log alone *)

(* The labels at which no entry is written or entered into the list        *)
Calm == {"unlocked", "open", "batch", "log", "flush", "cache_end",
         "cache_end_written", "failed"}

SameLog == UNCHANGED <<log, LogStart, LogEnd>>

LEMMA SameTape ==
  ASSUME SameLog
  PROVE  /\ Tape' = Tape
         /\ Off(LogEnd)' = Off(LogEnd)
         /\ Chain(Tape, 0, Off(LogEnd)) => Chain(Tape, 0, Off(LogEnd))'
BY DEF SameLog, Tape, Off

LEMMA SamePointers ==
  ASSUME PointerInv, SameLog, UNCHANGED <<superBlock, superBlockOnDisk, entry, hook>>,
         pc' = pc \/ (pc \in Calm /\ pc' \in Calm),
         EntryLogged' => logged' = Len(finished)'
  PROVE  PointerInv'
BY DEF PointerInv, SameLog, Calm, Logging, Off

LEMMA SameEntries ==
  ASSUME EntriesInv, SameLog, UNCHANGED <<superBlock, fEntries, entry>>,
         pc' = pc \/ (pc \in Calm /\ pc' \in Calm)
  PROVE  EntriesInv'
BY DEF EntriesInv, SameLog, Calm, Tip, Start, Off, Tape

SameTransaction ==
  \A b \in Blocks : /\ cache'[b].transaction = cache[b].transaction
                    /\ cache'[b].current = cache[b].current

(* The blocks of the entry do not change while it is written.              *)
LEMMA EntryBlockList ==
  \A j \in Nat : j < LogEntryLength => EntryBlock(j) = EntryOf(Changed, Currents, j)
BY EntryBlocks

LEMMA SameEntryBlocks ==
  ASSUME SameTransaction
  PROVE  /\ InTransaction(cache)' = InTransaction(cache)
         /\ Changed' = Changed /\ LogEntryLength' = LogEntryLength
         /\ \A i \in Nat : i < LogEntryLength => EntryBlock(i)' = EntryBlock(i)
<1>1. InTransaction(cache)' = InTransaction(cache)
  BY DEF SameTransaction, InTransaction
<1>2. Changed' = Changed
  BY <1>1 DEF Changed
<1>3. LogEntryLength' = LogEntryLength
  BY <1>2 DEF LogEntryLength
<1>4. Currents' = Currents
  BY DEF Currents, SameTransaction
<1>5. ASSUME NEW i \in Nat, i < LogEntryLength
      PROVE  EntryBlock(i)' = EntryBlock(i)
  <2>1. EntryBlock(i) = EntryOf(Changed, Currents, i)
    BY <1>5, EntryBlocks
  <2>2. (\A j \in Nat : j < LogEntryLength => EntryBlock(j) = EntryOf(Changed, Currents, j))'
    BY EntryBlockList, PTL
  <2>3. EntryBlock(i)' = EntryOf(Changed', Currents', i)
    BY <1>3, <1>5, <2>2
  <2> QED
    BY <1>2, <1>4, <2>1, <2>3
<1> QED
  BY <1>1, <1>2, <1>3, <1>5

LEMMA SameEntry ==
  ASSUME EntryInv, SameLog, UNCHANGED entry, entry.written \in Nat,
         pc' = pc \/ pc' \in Calm,
         pc \in Logging => SameTransaction
  PROVE  EntryInv'
<1> SUFFICES ASSUME pc' \in Logging, pc' = pc, SameTransaction
             PROVE  EntryInv'
  BY DEF EntryInv, Calm, Logging
<1>1. LogEntryLength' = LogEntryLength
      /\ \A i \in Nat : i < LogEntryLength => EntryBlock(i)' = EntryBlock(i)
  BY SameEntryBlocks
<1>2. LogEntryLength \in Nat
  BY EntryFits
<1>3. /\ Off(LogEnd) + LogEntryLength < LogSize
      /\ LogPosition(LogEnd, LogEntryLength) # LogSize
      /\ IF pc = "log_write" THEN entry.written < LogEntryLength
         ELSE entry.written = LogEntryLength
      /\ \A i \in 0 .. entry.written - 1 : Tape[Off(LogEnd) + i] = EntryBlock(i)
  BY DEF EntryInv
<1>4. /\ Off(LogEnd)' = Off(LogEnd) /\ Tape' = Tape /\ LogEnd' = LogEnd
  BY SameTape DEF SameLog
<1>5. LogPosition(LogEnd, LogEntryLength)' = LogPosition(LogEnd, LogEntryLength)
  BY <1>1, <1>4 DEF LogPosition
<1>6. ASSUME NEW i \in 0 .. entry.written - 1
      PROVE  Tape'[Off(LogEnd)' + i] = EntryBlock(i)'
  <2>1. i \in Nat /\ i < LogEntryLength
    BY <1>2, <1>3
  <2> QED
    BY <1>1, <1>3, <1>4, <2>1
<1> QED
  BY <1>1, <1>3, <1>4, <1>5, <1>6 DEF EntryInv

LEMMA SameLogInv ==
  ASSUME LogInv, SameLog, UNCHANGED <<fEntries, entry>>,
         pc' = pc \/ (pc \in Calm /\ pc' \in Calm),
         \A b \in Blocks : Committed(b)' = Committed(b),
         \A b \in Blocks : cache'[b].previous \in {NO_TRANSACTION, cache[b].previous},
         pc' = "log_add" => InTransaction(cache)' \subseteq InTransaction(cache),
         pc' \in {"cache_end", "cache_end_written"} =>
           /\ pc \in {"cache_end", "cache_end_written"}
           /\ fTransactionID' = fTransactionID
           /\ InTransaction(cache)' \subseteq InTransaction(cache)
  PROVE  LogInv'
<1>1. Tape' = Tape /\ Off(LogEnd)' = Off(LogEnd) /\ Off(entry.start)' = Off(entry.start)
      /\ (\A i : Start(i)' = Start(i)) /\ fEntries' = fEntries
  BY DEF SameLog, Tape, Off, Start
<1>2. (\A b \in Blocks : LogSays(Tape, 0, Off(LogEnd), b, Committed(b)))'
  BY <1>1 DEF LogInv
<1>3. ASSUME NEW b \in InPrevious(cache)'
      PROVE  \E i \in DOMAIN fEntries' :
               /\ fEntries'[i].id = cache'[b].previous
               /\ Named(Tape', Start(i)', Off(LogEnd)', b)
  <2>1. b \in InPrevious(cache) /\ cache'[b].previous = cache[b].previous
    BY DEF InPrevious
  <2> QED
    BY <1>1, <2>1 DEF LogInv
<1>4. pc' = "log_add" =>
       \A b \in InTransaction(cache)' :
         Named(Tape', Off(entry.start)', Off(LogEnd)', b)
  BY <1>1 DEF LogInv, Calm
<1>5. pc' \in {"cache_end", "cache_end_written"} =>
       /\ fEntries' # <<>> /\ Last(fEntries').id = fTransactionID'
       /\ \A b \in InTransaction(cache)' :
            Named(Tape', Start(Len(fEntries))', Off(LogEnd)', b)
  <2>1. Start(Len(fEntries))' = Start(Len(fEntries))
    BY DEF SameLog, Off, Start
  <2> QED
    BY <1>1, <2>1 DEF LogInv
<1> QED
  BY <1>2, <1>3, <1>4, <1>5 DEF LogInv

-----------------------------------------------------------------------------
(* Steps of the journal's lock's owner that change neither the log nor the *)
(* cache *)

Quiet == {"unlocked", "batch", "log", "flush", "failed"}

LEMMA InvParts ==
  ASSUME Inv
  PROVE  /\ Types /\ Chain(Tape, 0, Off(LogEnd))
         /\ pc # "replay" =>
              /\ MountedInv /\ ControlInv /\ CacheInv /\ WriterInv /\ SyncInv
              /\ NotifyInv /\ PointerInv /\ EntriesInv /\ EntryInv /\ LogInv
BY DEF Inv, MountedInv

LEMMA InvNext ==
  ASSUME Types', SameLog \/ Chain(Tape, 0, Off(LogEnd))',
         Chain(Tape, 0, Off(LogEnd)), pc' # "replay",
         ControlInv', CacheInv', WriterInv', SyncInv', NotifyInv', PointerInv',
         EntriesInv', EntryInv', LogInv'
  PROVE  Inv'
BY SameTape DEF Inv, MountedInv

LEMMA SameNotify ==
  ASSUME NotifyInv, UNCHANGED <<pending_notifications, fEntries, fTransactionID>>,
         Awaited' = Awaited, Unlogged' => Unlogged,
         pc' \in {"cache_end", "cache_end_written"} <=>
           pc \in {"cache_end", "cache_end_written"}
  PROVE  NotifyInv'
<1>1. EntryIDs' = EntryIDs
  BY DEF EntryIDs
<1> QED
  BY <1>1 DEF NotifyInv

LEMMA QuietStep ==
  ASSUME Inv, pc \in Quiet, pc' \in Quiet,
         UNCHANGED <<diskVars, superBlock, LogStart, LogEnd, fEntries, entry,
                     cacheVars, finished>>,
         logged' = logged \/ (logged' = Len(finished) /\ InTransaction(cache) = {}),
         sync = "write" => sync' = "write"
  PROVE  CacheInv' /\ WriterInv' /\ PointerInv' /\ EntriesInv' /\ EntryInv' /\ LogInv'
<1>1. pc # "replay" /\ pc \in Calm /\ pc' \in Calm /\ SameLog
      /\ pc \notin Closing /\ pc' \notin Closing /\ pc \notin Logging /\ pc' \notin Logging
  BY DEF Quiet, Calm, SameLog, diskVars, Closing, Logging
<1>2. ~EntryLogged /\ ~EntryLogged'
  BY DEF EntryLogged, Quiet, Closing
<1>3. cache' = cache /\ disk' = disk /\ finished' = finished /\ writer' = writer
      /\ hook' = hook /\ superBlockOnDisk' = superBlockOnDisk
  BY DEF cacheVars, diskVars
<1>4. ASSUME NEW b
      PROVE  Old(b)' = Old(b) /\ Committed(b)' = Committed(b)
  BY <1>1, <1>3 DEF Old, Committed
<1>5. CacheInv'
  <2> SUFFICES ASSUME NEW b \in Blocks
               PROVE  /\ cache[b].current \in Values
                      /\ cache[b].transaction => cache[b].original \in Values
                      /\ ~cache[b].transaction =>
                           cache[b].original \in {NULL, cache[b].current}
                           /\ cache[b].parent = NULL
                      /\ cache[b].current = Last(finished)[b]
                      /\ cache[b].previous = NO_TRANSACTION => disk[b] = Old(b)
                      /\ Old(b) = finished[logged'][b]
    BY <1>2, <1>3, <1>4 DEF CacheInv, Quiet
  <2>1. /\ cache[b].current \in Values
        /\ cache[b].transaction => cache[b].original \in Values
        /\ ~cache[b].transaction =>
             cache[b].original \in {NULL, cache[b].current} /\ cache[b].parent = NULL
        /\ cache[b].current = Last(finished)[b]
        /\ cache[b].previous = NO_TRANSACTION => disk[b] = Old(b)
        /\ Old(b) = finished[logged][b]
    BY <1>1, <1>2, InvParts DEF CacheInv, Quiet
  <2>2. InTransaction(cache) = {} => Old(b) = Last(finished)[b]
    BY <2>1 DEF Old, InTransaction
  <2> QED
    BY <2>1, <2>2 DEF Last
<1>6. WriterInv'
  BY <1>1, <1>3, <1>4, InvParts DEF WriterInv, Quiet, BlocksInPreviousTransaction, InPrevious
<1>7. PointerInv'
  BY <1>1, <1>2, <1>3, SamePointers, InvParts
<1>8. EntriesInv' /\ EntryInv'
  BY <1>1, SameEntries, SameEntry, InvParts, LogTypes
<1>9. LogInv'
  BY <1>1, <1>3, <1>4, SameLogInv, InvParts DEF Quiet
<1> QED
  BY <1>5, <1>6, <1>7, <1>8, <1>9

LEMMA FlushLogStep ==
  ASSUME Inv, FlushLog
  PROVE  Inv'
<1>1. pc = "unlocked" /\ pc' = "log" /\ pc # "replay" /\ pc' # "replay" /\ SameLog
      /\ pc \in Quiet /\ pc' \in Quiet
  BY DEF FlushLog, SameLog, diskVars, logVars, Quiet
<1>2. Types'
  BY InvParts DEF Types, FlushLog, diskVars, logVars, transactionVars, cacheVars,
                  ghostVars, Labels
<1>3. ControlInv' /\ SyncInv' /\ NotifyInv'
  <2>1. ControlInv'
    BY <1>1, InvParts DEF ControlInv, FlushLog, transactionVars, cacheVars, logVars, ghostVars,
       Logging, Closing, Types
  <2>2. SyncInv'
    BY <1>1, InvParts DEF SyncInv, FlushLog, cacheVars, Busy
  <2>3. NotifyInv'
    <3>1. (Unlogged' => Unlogged) /\ Awaited' = Awaited
      BY <1>1, InvParts DEF Unlogged, Awaited, FlushLog, transactionVars, cacheVars,
         Closing, Logging, Types
    <3> QED
      BY <1>1, <3>1, InvParts, SameNotify DEF FlushLog, cacheVars, logVars, transactionVars
  <2> QED
    BY <2>1, <2>2, <2>3
<1>4. CacheInv' /\ WriterInv' /\ PointerInv' /\ EntriesInv' /\ EntryInv' /\ LogInv'
  BY <1>1, QuietStep DEF FlushLog, logVars, ghostVars
<1> QED
  BY <1>1, <1>2, <1>3, <1>4, InvParts, InvNext

LEMMA FlushBlocksOnlyStep ==
  ASSUME Inv, FlushBlocksOnly
  PROVE  Inv'
<1>1. pc = "unlocked" /\ pc' = "flush" /\ pc # "replay" /\ pc' # "replay" /\ SameLog
      /\ pc \in Quiet /\ pc' \in Quiet
  BY DEF FlushBlocksOnly, SameLog, diskVars, logVars, Quiet
<1>2. Types'
  BY InvParts DEF Types, FlushBlocksOnly, diskVars, logVars, transactionVars, cacheVars,
                  ghostVars, Labels
<1>3. sync = "none"
  BY <1>1, InvParts DEF ControlInv
<1>4. ControlInv' /\ SyncInv' /\ NotifyInv'
  <2>1. ControlInv'
    BY <1>1, InvParts DEF ControlInv, FlushBlocksOnly, transactionVars, cacheVars, logVars,
       ghostVars, Logging, Closing, Types
  <2>2. SyncInv'
    BY <1>1, <1>3, InvParts DEF SyncInv, FlushBlocksOnly, cacheVars, Busy
  <2>3. NotifyInv'
    <3>1. (Unlogged' => Unlogged) /\ Awaited' = Awaited
      BY <1>1, InvParts DEF Unlogged, Awaited, FlushBlocksOnly, transactionVars, cacheVars,
         Closing, Logging, Types
    <3> QED
      BY <1>1, <3>1, InvParts, SameNotify DEF FlushBlocksOnly, cacheVars, logVars, transactionVars
  <2> QED
    BY <2>1, <2>2, <2>3
<1>5. CacheInv' /\ WriterInv' /\ PointerInv' /\ EntriesInv' /\ EntryInv' /\ LogInv'
  BY <1>1, <1>3, QuietStep DEF FlushBlocksOnly, logVars, ghostVars
<1> QED
  BY <1>1, <1>2, <1>4, <1>5, InvParts, InvNext

LEMMA FlushDoneStep ==
  ASSUME Inv, FlushDone
  PROVE  Inv'
<1>1. pc = "flush" /\ pc' = "unlocked" /\ pc # "replay" /\ pc' # "replay" /\ SameLog
      /\ pc \in Quiet /\ pc' \in Quiet /\ sync = "done" /\ sync' = "none"
  BY DEF FlushDone, SameLog, diskVars, logVars, Quiet
<1>2. Types'
  BY InvParts DEF Types, FlushDone, diskVars, logVars, transactionVars, cacheVars,
                  ghostVars, Labels
<1>4. ControlInv' /\ SyncInv' /\ NotifyInv'
  <2>1. ControlInv'
    BY <1>1, InvParts DEF ControlInv, FlushDone, transactionVars, cacheVars, logVars,
       ghostVars, Logging, Closing, Types
  <2>2. SyncInv'
    BY <1>1, InvParts DEF SyncInv, FlushDone, cacheVars, Busy
  <2>3. NotifyInv'
    <3>1. (Unlogged' => Unlogged) /\ Awaited' = Awaited
      BY <1>1, InvParts DEF Unlogged, Awaited, FlushDone, transactionVars, cacheVars,
         Closing, Logging, Types
    <3> QED
      BY <1>1, <3>1, InvParts, SameNotify DEF FlushDone, cacheVars, logVars, transactionVars
  <2> QED
    BY <2>1, <2>2, <2>3
<1>5. CacheInv' /\ WriterInv' /\ PointerInv' /\ EntriesInv' /\ EntryInv' /\ LogInv'
  BY <1>1, QuietStep DEF FlushDone, logVars, ghostVars
<1> QED
  BY <1>1, <1>2, <1>4, <1>5, InvParts, InvNext

LEMMA DoneSyncedStep ==
  ASSUME Inv, DoneSynced
  PROVE  Inv'
<1>1. pc = "batch" /\ pc' = "unlocked" /\ pc # "replay" /\ pc' # "replay" /\ SameLog
      /\ pc \in Quiet /\ pc' \in Quiet /\ sync = "done" /\ sync' = "none"
      /\ fUnwrittenTransactions' > 0
  BY InvParts DEF DoneSynced, SameLog, diskVars, logVars, Quiet, Types
<1>2. Types'
  BY InvParts DEF Types, DoneSynced, diskVars, logVars, cacheVars, ghostVars, Labels
<1>3. ControlInv'
  BY <1>1, InvParts DEF ControlInv, DoneSynced, cacheVars, logVars, ghostVars,
     Logging, Closing, Types
<1>4. SyncInv'
  BY <1>1, InvParts DEF SyncInv, DoneSynced, cacheVars
<1>5. NotifyInv'
  <2>1. (Unlogged' => Unlogged) /\ Awaited' = Awaited
    BY <1>1 DEF Unlogged, Awaited, DoneSynced, cacheVars
  <2> QED
    BY <1>1, <2>1, InvParts, SameNotify DEF DoneSynced, cacheVars, logVars
<1>6. CacheInv' /\ WriterInv' /\ PointerInv' /\ EntriesInv' /\ EntryInv' /\ LogInv'
  BY <1>1, QuietStep DEF DoneSynced, logVars, ghostVars
<1> QED
  BY <1>1, <1>2, <1>3, <1>4, <1>5, <1>6, InvParts, InvNext

LEMMA LogNothingStep ==
  ASSUME Inv, LogNothing
  PROVE  Inv'
<1>1. pc = "log" /\ pc' \in {"unlocked", "flush"} /\ pc # "replay" /\ pc' # "replay"
      /\ SameLog /\ pc \in Quiet /\ pc' \in Quiet
      /\ (pc' = "flush" <=> sync' = "start") /\ sync' \in {"none", "start"}
  BY DEF LogNothing, AfterLog, SameLog, diskVars, logVars, Quiet
<1>2. InTransaction(cache) = {} /\ sync = "none"
  BY <1>1, ChangedBlocks, InvParts DEF LogNothing, ControlInv
<1>3. Types'
  <2>1. logged' = Len(finished) /\ logged' \in 1 .. Len(finished)
    BY InvParts DEF Types, LogNothing
  <2> QED
    BY <1>1, <2>1, InvParts DEF Types, LogNothing, diskVars, logVars, cacheVars,
       Labels
<1>4. ControlInv'
  BY <1>1, <1>2, InvParts DEF ControlInv, LogNothing, cacheVars, logVars,
     Logging, Closing, Types
<1>5. SyncInv'
  BY <1>1, <1>2, InvParts DEF SyncInv, LogNothing, cacheVars
<1>6. NotifyInv'
  <2>1. (Unlogged' => Unlogged) /\ Awaited' = Awaited
    BY <1>1 DEF Unlogged, Awaited, LogNothing, cacheVars
  <2> QED
    BY <1>1, <2>1, InvParts, SameNotify DEF LogNothing, cacheVars, logVars
<1>7. CacheInv' /\ WriterInv' /\ PointerInv' /\ EntriesInv' /\ EntryInv' /\ LogInv'
  BY <1>1, <1>2, QuietStep DEF LogNothing, logVars
<1> QED
  BY <1>1, <1>3, <1>4, <1>5, <1>6, <1>7, InvParts, InvNext

(* A transaction waits for the cache.                                      *)
LEMMA LogWaits ==
  ASSUME Inv, pc = "log", pc' = "log", InTransaction(cache) # {},
         UNCHANGED <<diskVars, superBlock, LogStart, LogEnd, fEntries, entry, task,
                     fUnwrittenTransactions, fTransactionID, cacheVars, ghostVars>>,
         sync = "none", sync' = "start", fHasSubtransaction' = FALSE
  PROVE  Inv'
<1>1. pc # "replay" /\ pc' # "replay" /\ SameLog /\ pc \in Quiet /\ pc' \in Quiet
  BY DEF SameLog, diskVars, Quiet
<1>2. Types'
  BY InvParts DEF Types, diskVars, cacheVars, ghostVars, Labels
<1>3. ControlInv'
  BY <1>1, InvParts DEF ControlInv, cacheVars, ghostVars, Logging, Closing, Types
<1>4. SyncInv'
  BY <1>1, InvParts DEF SyncInv, cacheVars
<1>5. NotifyInv'
  <2>1. (Unlogged' => Unlogged) /\ Awaited' = Awaited
    BY <1>1 DEF Unlogged, Awaited, cacheVars
  <2> QED
    BY <1>1, <2>1, InvParts, SameNotify DEF cacheVars
<1>6. CacheInv' /\ WriterInv' /\ PointerInv' /\ EntriesInv' /\ EntryInv' /\ LogInv'
  BY <1>1, QuietStep DEF ghostVars
<1> QED
  BY <1>1, <1>2, <1>3, <1>4, <1>5, <1>6, InvParts, InvNext

(* An entry is begun only where it does not reach a boundary.              *)
LEMMA EntryBegins ==
  ASSUME Inv, pc = "log", pc' = "log_write", InTransaction(cache) # {},
         sync \in {"none", "done"}, sync' = "none", fHasSubtransaction' = FALSE,
         entry' = [id |-> fTransactionID, start |-> LogEnd, written |-> 0],
         LogEntryLength <= FreeLogBlocks, ~AtBoundary,
         UNCHANGED <<diskVars, superBlock, LogStart, LogEnd, fEntries, task,
                     fUnwrittenTransactions, fTransactionID, cacheVars, ghostVars>>
  PROVE  Inv'
<1>1. pc # "replay" /\ pc' # "replay" /\ SameLog /\ pc' \in Logging
      /\ pc \notin Closing /\ pc' \notin Closing
  BY DEF SameLog, diskVars, Logging, Closing
<1>2. Types'
  <2>1. entry' \in [id : Values, start : Positions, written : Nat]
    <3>1. fTransactionID \in 0 .. started /\ started \in 0 .. MaxTransactions
      BY InvParts DEF Types, Values
    <3>2. fTransactionID \in Values
      BY <3>1, JournalConstants DEF Values
    <3> QED
      BY <3>2, InvParts DEF Types
  <2> QED
    BY <2>1, InvParts DEF Types, diskVars, cacheVars, ghostVars, Labels
<1>3. ControlInv'
  BY <1>1, InvParts DEF ControlInv, cacheVars, ghostVars, Logging, Closing, Types
<1>4. SyncInv'
  BY <1>1, InvParts DEF SyncInv, cacheVars
<1>5. NotifyInv'
  <2>1. (Unlogged' => Unlogged) /\ Awaited' = Awaited
    BY <1>1 DEF Unlogged, Awaited, cacheVars
  <2> QED
    BY <1>1, <2>1, InvParts, SameNotify DEF cacheVars
<1>6. ~EntryLogged /\ ~EntryLogged'
  BY DEF EntryLogged, Closing
<1>7. cache' = cache /\ disk' = disk /\ finished' = finished /\ writer' = writer
      /\ hook' = hook /\ superBlockOnDisk' = superBlockOnDisk /\ logged' = logged
  BY DEF cacheVars, diskVars, ghostVars
<1>8. ASSUME NEW b
      PROVE  Old(b)' = Old(b) /\ Committed(b)' = Committed(b)
  BY <1>1, <1>7 DEF Old, Committed
<1>9. CacheInv'
  BY <1>6, <1>7, <1>8, InvParts DEF CacheInv
<1>10. WriterInv'
  BY <1>1, <1>7, <1>8, InvParts DEF WriterInv, InPrevious
<1>11. PointerInv'
  BY <1>1, <1>6, <1>7, InvParts DEF PointerInv, SameLog
<1>12. EntriesInv'
  BY <1>1, <1>7, InvParts DEF EntriesInv, SameLog, Tip, Start, Off, Tape
<1>13. EntryInv'
  <2>1. LogEntryLength' = LogEntryLength /\ LogEntryLength \in Nat /\ LogEntryLength > 0
    BY <1>7, EntryFits DEF LogEntryLength, Changed
  <2>2. Off(LogEnd)' = Off(LogEnd) /\ LogEnd' = LogEnd
        /\ LogPosition(LogEnd, LogEntryLength)' = LogPosition(LogEnd, LogEntryLength)
    BY <1>1, <2>1 DEF SameLog, Off, LogPosition
  <2>3. LogEntryLength # FreeLogBlocks /\ LogPosition(LogEnd, LogEntryLength) # LogSize
    BY DEF AtBoundary
  <2>4. FreeLogBlocks = LogSize - Off(LogEnd) /\ Off(LogEnd) \in Nat /\ LogSize \in Nat
    BY InvParts, FreeBlocks, LogTypes
  <2>5. Off(LogEnd) + LogEntryLength < LogSize
    BY <2>1, <2>3, <2>4
  <2>6. entry.written' = 0
    OBVIOUS
  <2> QED
    BY <2>1, <2>2, <2>3, <2>5, <2>6 DEF EntryInv
<1>14. LogInv'
  BY <1>1, <1>7, <1>8, InvParts DEF LogInv, SameLog, Off, Tape, Start
<1> QED
  BY <1>1, <1>2, <1>3, <1>4, <1>5, <1>9, <1>10, <1>11, <1>12, <1>13, <1>14, InvParts, InvNext

LEMMA LogBeginStep ==
  ASSUME Inv, LogBegin, Ordinary
  PROVE  Inv'
<1>1. InTransaction(cache) # {}
  BY ChangedBlocks DEF LogBegin
<1>2. LogEntryLength \in Nat /\ FreeLogBlocks \in Int
  <2>1. FreeLogBlocks = LogSize - Off(LogEnd) /\ Off(LogEnd) \in Nat /\ LogSize \in Nat
    BY InvParts, FreeBlocks, LogTypes
  <2> QED
    BY <2>1, EntryFits
<1>3. CASE LogEntryLength > FreeLogBlocks
  BY <1>1, <1>3, LogWaits DEF LogBegin
<1>4. CASE ~(LogEntryLength > FreeLogBlocks)
  <2>1. LogEntryLength <= FreeLogBlocks
    BY <1>2, <1>4
  <2>2. /\ pc = "log" /\ pc' = "log_write" /\ sync = "none" /\ sync' = "none"
        /\ entry' = [id |-> fTransactionID, start |-> LogEnd, written |-> 0]
    BY <1>4 DEF LogBegin, BeginEntry
  <2>3. ~AtBoundary
    BY <2>2 DEF Ordinary, LogBoundary
  <2> QED
    BY <1>1, <2>1, <2>2, <2>3, EntryBegins DEF LogBegin
<1> QED
  BY <1>3, <1>4

(* After cache_sync_transaction(), no entry is left in the list, and all   *)
(* of the log is free.                                                     *)
LEMMA LogEmpty ==
  ASSUME Inv, pc \in {"batch", "log"}, sync = "done"
  PROVE  LogStart = LogEnd /\ FreeLogBlocks = LogSize
<1>1. pc # "replay" /\ pc \notin Closing
  BY DEF Closing
<1>2. InPrevious(cache) = {} /\ pending_notifications = <<>> /\ hook = "none"
  BY <1>1, InvParts DEF SyncInv
<1>3. EntryIDs = {}
  <2>1. Awaited = {} /\ Range(pending_notifications) = {}
    BY <1>2 DEF Awaited, Range
  <2> QED
    BY <1>1, <2>1, InvParts DEF NotifyInv
<1>4. fEntries = <<>>
  <2> SUFFICES ASSUME fEntries # <<>> PROVE FALSE
    OBVIOUS
  <2>1. fEntries[1].id \in EntryIDs
    BY InvParts DEF EntryIDs, Types
  <2> QED
    BY <1>3, <2>1
<1>5. LogStart = LogEnd
  BY <1>1, <1>2, <1>4, InvParts DEF EntriesInv, PointerInv, Tip
<1> QED
  BY <1>5, InvParts, LogTypes, FreeBlocks, TapeFacts

LEMMA LogSyncedStep ==
  ASSUME Inv, LogSynced, Ordinary
  PROVE  Inv'
<1>1. InTransaction(cache) # {} /\ ~fHasSubtransaction /\ fHasSubtransaction' = FALSE
  <2>1. InTransaction(cache) # {} /\ ~fHasSubtransaction
    BY InvParts DEF LogSynced, ControlInv
  <2> QED
    BY <2>1, InvParts DEF LogSynced, transactionVars, Types
<1>2. LogEntryLength <= FreeLogBlocks /\ ~(LogEntryLength > FreeLogBlocks)
  <2>1. FreeLogBlocks = LogSize /\ LogSize \in Nat
    BY LogEmpty, JournalConstants DEF LogSynced
  <2> QED
    BY <2>1, EntryFits
<1>3. /\ pc = "log" /\ pc' = "log_write" /\ sync = "done" /\ sync' = "none"
      /\ entry' = [id |-> fTransactionID, start |-> LogEnd, written |-> 0]
  BY <1>2 DEF LogSynced, BeginEntry
<1>4. ~AtBoundary
  BY <1>3 DEF Ordinary, LogBoundary
<1> QED
  BY <1>1, <1>2, <1>3, <1>4, EntryBegins DEF LogSynced, transactionVars

(* What has been written of the entry is behind LogEnd, where the next one *)
(* begins.                                                                 *)
LEMMA LogFailsStep ==
  ASSUME Inv, LogFails
  PROVE  Inv'
<1>1. /\ pc \in {"log", "log_write", "log_end"} /\ pc' \in {"failed", "unlocked", "flush"}
      /\ pc # "replay" /\ pc' # "replay" /\ SameLog
      /\ pc \notin Closing /\ pc' \notin Closing /\ pc' \notin Logging
      /\ pc \in {"log"} \cup Logging
      /\ (pc' = "failed" <=> task = "client")
      /\ (pc' = "flush" <=> sync' = "start") /\ sync' \in {"none", "start"}
      /\ sync \in {"none", "done"} \/ pc # "log"
      /\ entry' = NoEntry /\ fHasSubtransaction' = FALSE
      /\ UNCHANGED <<diskVars, superBlock, LogStart, LogEnd, fEntries, task,
                     fUnwrittenTransactions, fTransactionID, cacheVars, ghostVars>>
  BY DEF LogFails, AfterLog, SameLog, diskVars, Closing, Logging
<1>2. /\ sync \in {"none", "done"} /\ fTransactionID > 0
      /\ task # "client" => fUnwrittenTransactions > 0
  BY <1>1, InvParts DEF ControlInv
<1>3. cache' = cache /\ disk' = disk /\ finished' = finished /\ writer' = writer
      /\ hook' = hook /\ superBlockOnDisk' = superBlockOnDisk /\ logged' = logged
      /\ pending_notifications' = pending_notifications
  BY <1>1 DEF cacheVars, diskVars, ghostVars
<1>4. Types'
  <2>1. entry' \in [id : Values, start : Positions, written : Nat]
    BY <1>1, JournalConstants DEF NoEntry, NO_TRANSACTION, Values, Positions
  <2> QED
    BY <1>1, <2>1, InvParts DEF Types, diskVars, cacheVars, ghostVars, Labels
<1>5. ControlInv'
  BY <1>1, <1>2, <1>3 DEF ControlInv, Logging, Closing
<1>6. SyncInv'
  BY <1>1, <1>2, <1>3, InvParts DEF SyncInv
<1>7. NotifyInv'
  <2>1. (Unlogged' => Unlogged) /\ Awaited' = Awaited
    BY <1>1, <1>3 DEF Unlogged, Awaited
  <2> QED
    BY <1>1, <1>3, <2>1, InvParts, SameNotify
<1>8. ~EntryLogged /\ ~EntryLogged'
  BY <1>1 DEF EntryLogged, Closing
<1>9. ASSUME NEW b
      PROVE  Old(b)' = Old(b) /\ Committed(b)' = Committed(b)
  BY <1>1, <1>3 DEF Old, Committed
<1>10. CacheInv'
  BY <1>1, <1>3, <1>8, <1>9, InvParts DEF CacheInv
<1>11. WriterInv'
  <2>1. writer["journal"].busy = {}
    BY <1>1, <1>2, InvParts DEF WriterInv
  <2> QED
    BY <1>1, <1>3, <1>9, <2>1, InvParts DEF WriterInv, InPrevious
<1>12. PointerInv'
  BY <1>1, <1>3, <1>8, InvParts DEF PointerInv, SameLog
<1>13. EntriesInv'
  BY <1>1, <1>3, InvParts DEF EntriesInv, SameLog, Tip, Start, Off, Tape
<1>14. EntryInv'
  BY <1>1 DEF EntryInv
<1>15. LogInv'
  BY <1>1, <1>3, <1>9, InvParts DEF LogInv, SameLog, Off, Tape, Start
<1> QED
  BY <1>1, <1>4, <1>5, <1>6, <1>7, <1>10, <1>11, <1>12, <1>13, <1>14, <1>15, InvParts, InvNext

-----------------------------------------------------------------------------
(* The entry is written *)

LEMMA LoggingStep ==
  ASSUME Inv, pc \in Logging \cup {"log_add"},
         pc' \in Logging \cup {"log_add", "cache_end"}, pc' \in Logging => pc \in Logging,
         UNCHANGED <<disk, transactionVars, cacheVars, finished, sync, task>>,
         pc' # "cache_end" => entry'.id = entry.id,
         EntryLogged' \/ (~EntryLogged /\ logged' = logged)
  PROVE  /\ pc # "replay" /\ pc' # "replay"
         /\ ControlInv' /\ CacheInv' /\ WriterInv' /\ SyncInv'
         /\ cache' = cache /\ \A b : Old(b)' = Old(b)
<1>1. pc # "replay" /\ pc' # "replay" /\ pc # "open" /\ pc' # "open"
      /\ pc' # "cache_end_written" /\ pc # "cache_end_written"
      /\ pc # "flush" /\ pc' # "flush"
  BY DEF Logging
<1>2. cache' = cache /\ disk' = disk /\ finished' = finished /\ writer' = writer
      /\ hook' = hook /\ pending_notifications' = pending_notifications /\ sync' = sync
      /\ task' = task
  BY DEF cacheVars
<1>3. \A b : Old(b)' = Old(b)
  BY <1>2 DEF Old
<1>4. ControlInv'
  BY <1>1, <1>2, InvParts DEF ControlInv, transactionVars, Logging, Closing
<1>5. CacheInv'
  BY <1>1, <1>2, <1>3, InvParts DEF CacheInv
<1>6. WriterInv'
  BY <1>1, <1>2, <1>3, InvParts DEF WriterInv, InPrevious
<1>7. SyncInv'
  BY <1>1, <1>2, InvParts DEF SyncInv, Busy
<1> QED
  BY <1>1, <1>2, <1>3, <1>4, <1>5, <1>6, <1>7

(* One block of the log is written.                                        *)
Overwritten(m, l, p, x) == m = [l EXCEPT ![p] = x]

LEMMA BlockOfTape ==
  ASSUME NEW l \in [Positions -> LogBlocks], NEW start \in Positions,
         NEW p \in Positions, NEW x, NEW m, Overwritten(m, l, p, x)
  PROVE  /\ TapeOf(m, start)[Distance(start, p)] = x
         /\ \A i \in Positions : i # Distance(start, p) =>
              TapeOf(m, start)[i] = TapeOf(l, start)[i]
<1>1. TapeOf(m, start)[Distance(start, p)] = x
  BY DistanceType DEF TapeOf, Overwritten
<1>2. ASSUME NEW i \in Positions, i # Distance(start, p)
      PROVE  TapeOf(m, start)[i] = TapeOf(l, start)[i]
  <2> DEFINE q == (start + i) % LogSize
  <2>1. i \in Nat /\ Distance(start, start) + i < LogSize
    BY DistanceType, JournalConstants DEF Positions
  <2>2. q \in Positions /\ Distance(start, q) = i
    <3>1. q \in Positions /\ Distance(start, q) = Distance(start, start) + i
      BY <2>1, StepOn
    <3> QED
      BY <2>1, <3>1, DistanceType
  <2>3. q # p
    BY <1>2, <2>2
  <2> HIDE DEF q
  <2>4. m[q] = l[q]
    BY <2>2, <2>3 DEF Overwritten
  <2> QED
    BY <2>4 DEF TapeOf, q
<1> QED
  BY <1>1, <1>2

LEMMA EntryBlockType ==
  ASSUME Types, \A b \in Blocks : cache[b].current \in Values,
         NEW i \in Nat, i < LogEntryLength
  PROVE  EntryBlock(i) \in LogBlocks
<1> DEFINE e == EntryOf(Changed, Currents, i)
<1>1. EntryBlock(i) = e
  BY EntryBlocks
<1>2. i < EntryLength(Changed) /\ Changed \in Seq(Blocks)
  BY EntryFits, ChangedBlocks
<1>3. CASE i % (Capacity + 1) = 0
  <2>1. e.runs \in Seq(Blocks)
    BY <1>2, <1>3, EntryArray DEF IsArrayOf
  <2>2. e.data = NULL /\ e = [runs |-> e.runs, data |-> e.data]
    BY <1>3 DEF EntryOf, RunArray
  <2> HIDE DEF e
  <2> QED
    BY <1>1, <2>1, <2>2 DEF LogBlocks, Buffers
<1>4. CASE i % (Capacity + 1) # 0
  <2> DEFINE x == (i \div (Capacity + 1)) * Capacity + (i % (Capacity + 1))
             k == Capacity
             len == Len(Changed)
  <2>1. k \in Nat \ {0} /\ len \in Nat /\ i < len + Ceil(len, k)
    BY <1>2, JournalConstants, LenProperties DEF Capacity, EntryLength
  <2>2. (i \div (k + 1)) * k \in Nat /\ i % (k + 1) \in 0 .. k
        /\ (i % (k + 1) > 0 => (i \div (k + 1)) * k + (i % (k + 1)) <= len)
    <3> HIDE DEF k, len
    <3> QED
      BY <2>1, EntryIndex
  <2>3. x \in 1 .. len
    <3> DEFINE q == (i \div (k + 1)) * k
               r == i % (k + 1)
    <3>1. q \in Nat /\ r \in 0 .. k /\ (r > 0 => q + r <= len) /\ r # 0 /\ x = q + r
      BY <1>4, <2>2
    <3> HIDE DEF q, r, x, k, len
    <3> QED
      BY <2>1, <3>1
  <2> HIDE DEF x
  <2>4. Changed[x] \in Blocks
    BY <1>2, <2>3, LenProperties
  <2>5. Currents[Changed[x]] \in Values
    BY <2>4 DEF Currents
  <2>6. e = Data(Currents[Changed[x]])
    BY <1>4 DEF EntryOf, x
  <2> QED
    BY <1>1, <2>5, <2>6, EmptySeq DEF Data, LogBlocks, Buffers
<1> QED
  BY <1>3, <1>4

LEMMA LogWriteStep ==
  ASSUME Inv, LogWrite
  PROVE  Inv'
<1> DEFINE m == Off(LogEnd)
           w == entry.written
           p == (entry.start + entry.written) % LogSize
           x == EntryBlock(entry.written)
<1>1. /\ pc = "log_write" /\ pc' \in {"log_write", "log_end"} /\ pc # "replay"
      /\ pc \in Logging /\ pc' \in Logging
      /\ pc \notin Closing /\ pc' \notin Closing
  BY DEF LogWrite, Logging, Closing
<1>2. /\ m + LogEntryLength < LogSize
      /\ LogPosition(LogEnd, LogEntryLength) # LogSize
      /\ w < LogEntryLength
      /\ \A i \in 0 .. w - 1 : Tape[m + i] = EntryBlock(i)
      /\ entry.start = LogEnd
  BY <1>1, InvParts DEF EntryInv, PointerInv
<1>3. /\ m \in Nat /\ w \in Nat /\ LogSize \in Nat /\ LogEntryLength \in Nat
      /\ LogEnd \in Positions /\ LogStart \in Positions /\ Tape \in Tapes
      /\ m \in 0 .. LogSize /\ log \in [Positions -> LogBlocks]
  BY InvParts, LogTypes, EntryFits
<1>4. p \in Positions /\ Distance(LogStart, p) = m + w /\ m + w < LogSize
  <2>1. m + w < LogSize
    BY <1>2, <1>3
  <2> QED
    BY <1>2, <1>3, <2>1, StepOn DEF Off
<1>5. x \in LogBlocks
  BY <1>1, <1>2, <1>3, InvParts, EntryBlockType DEF CacheInv
<1>6. log' = [log EXCEPT ![p] = x] /\ entry' = [entry EXCEPT !.written = w + 1]
      /\ UNCHANGED <<disk, superBlockOnDisk, superBlock, LogStart, LogEnd, fEntries, task,
                     sync, transactionVars, cacheVars, ghostVars>>
      /\ pc' = IF w + 1 = LogEntryLength THEN "log_end" ELSE "log_write"
  BY <1>1, InvParts DEF LogWrite, Types
<1> HIDE DEF p, x, m, w
<1>7. entry'.written = w + 1 /\ entry'.start = entry.start /\ entry'.id = entry.id
  BY <1>6, InvParts DEF Types
<1>8. log' \in [Positions -> LogBlocks] /\ Tape' = TapeOf(log', LogStart)
  BY <1>3, <1>5, <1>6 DEF Tape
<1>9. Types'
  <2>1. entry' \in [id : Values, start : Positions, written : Nat]
    <3>1. w + 1 \in Nat /\ entry \in [id : Values, start : Positions, written : Nat]
      BY <1>3, InvParts DEF Types
    <3> QED
      BY <1>6, <3>1
  <2> QED
    BY <1>1, <1>6, <1>8, <2>1, InvParts DEF Types, Labels, transactionVars, cacheVars, ghostVars
<1>10. Tape' \in Tapes /\ Tape'[m + w] = x
       /\ \A i \in Positions : i # m + w => Tape'[i] = Tape[i]
  <2>1. Tape' \in Tapes
    BY <1>3, <1>8, TapeType DEF Tapes
  <2> QED
    <3>0. PICK l : l = log'
      OBVIOUS
    <3>1. Overwritten(l, log, p, x)
      BY <1>6, <3>0 DEF Overwritten
    <3>2. /\ TapeOf(l, LogStart)[Distance(LogStart, p)] = x
          /\ \A i \in Positions : i # Distance(LogStart, p) =>
               TapeOf(l, LogStart)[i] = TapeOf(log, LogStart)[i]
      BY <1>3, <1>4, <3>1, BlockOfTape
    <3>3. Tape' = TapeOf(l, LogStart) /\ Tape = TapeOf(log, LogStart)
      BY <1>8, <3>0 DEF Tape
    <3> QED
      BY <1>4, <2>1, <3>2, <3>3
<1>11. \A i \in 0 .. m + w - 1 : Tape'[i] = Tape[i]
  BY <1>3, <1>4, <1>10 DEF Positions
<1>12. /\ Chain(Tape', 0, m)
       /\ \A b : \A lo \in Nat : Named(Tape', lo, m, b) <=> Named(Tape, lo, m, b)
       /\ \A b, v : LogSays(Tape', 0, m, b, v) <=> LogSays(Tape, 0, m, b, v)
  <2> DEFINE z == 0
  <2>1. z \in 0 .. m /\ m - z = m /\ z = 0 /\ m \in 0 .. m - z /\ m + z = m
        /\ (\A lo \in Nat : lo + z = lo) /\ z \in Nat
    BY <1>3
  <2>2. Chain(Tape, 0, m)
    BY InvParts DEF m
  <2>3. Boundary(Tape, z, m) /\ Shifted(Tape', Tape, z, m)
    <3>1. Boundary(Tape, 0, m)
      BY <1>3, <2>2 DEF Chain, Boundary
    <3>2. Shifted(Tape', Tape, 0, m)
      BY <1>3, <1>11 DEF Shifted
    <3> QED
      BY <3>1, <3>2
  <2> HIDE DEF z
  <2>4. Chain(Tape', 0, m)
    BY <1>3, <1>10, <2>1, <2>2, <2>3, ChainShift
  <2>5. ASSUME NEW b, NEW v, NEW lo \in Nat
        PROVE  /\ Named(Tape', lo, m, b) <=> Named(Tape, lo, m, b)
               /\ LogSays(Tape', lo, m, b, v) <=> LogSays(Tape, lo, m, b, v)
    <3>1. /\ Named(Tape', lo, m, b) <=> Named(Tape, lo + z, m + z, b)
          /\ LogSays(Tape', lo, m, b, v) <=> LogSays(Tape, lo + z, m + z, b, v)
      BY <1>3, <1>10, <2>1, <2>2, <2>3, SaysShift
    <3> QED
      BY <2>1, <3>1
  <2> QED
    BY <2>1, <2>4, <2>5
<1>13. Off(LogEnd)' = m /\ (\A q : Distance(LogStart', q) = Distance(LogStart, q))
       /\ \A i : Start(i)' = Start(i)
  BY <1>6 DEF Off, m, Start
<1>14. ~EntryLogged /\ ~EntryLogged' /\ logged' = logged /\ finished' = finished
  BY <1>1, <1>6 DEF EntryLogged, ghostVars
<1>15. pc' # "replay" /\ ControlInv' /\ CacheInv' /\ WriterInv' /\ SyncInv'
       /\ cache' = cache /\ \A b : Old(b)' = Old(b)
  BY <1>1, <1>6, <1>7, <1>14, LoggingStep
<1>16. NotifyInv'
  <2>1. (Unlogged' => Unlogged) /\ Awaited' = Awaited
    BY <1>1, <1>15 DEF Unlogged, Awaited
  <2> QED
    BY <1>1, <1>6, <2>1, InvParts, SameNotify DEF cacheVars, transactionVars, Logging
<1>17. PointerInv'
  BY <1>1, <1>6, <1>7, <1>14, InvParts DEF PointerInv, cacheVars
<1>18. EntriesInv'
  <2>1. Tip = LogEnd /\ Tip' = LogEnd /\ fEntries' = fEntries /\ superBlock' = superBlock
        /\ Off(Tip) = m /\ Off(Tip)' = m
    BY <1>1, <1>6 DEF Tip, m, Off
  <2>2. ASSUME NEW i \in DOMAIN fEntries
        PROVE  IsArray(Tape', Start(i)) /\ Start(i) < m
    <3>1. IsArray(Tape, Start(i)) /\ Start(i) < m /\ Start(i) \in Nat
      BY <1>1, <2>1, InvParts, LogBegins DEF EntriesInv
    <3>2. Tape'[Start(i)] = Tape[Start(i)]
      BY <1>3, <1>11, <3>1
    <3> QED
      BY <3>1, <3>2 DEF IsArray
  <2> QED
    BY <1>1, <1>13, <2>1, <2>2, InvParts DEF EntriesInv
<1>19. EntryInv'
  <2>1. SameTransaction
    BY <1>15 DEF SameTransaction
  <2>2. LogEntryLength' = LogEntryLength
        /\ \A i \in Nat : i < LogEntryLength => EntryBlock(i)' = EntryBlock(i)
    BY <2>1, SameEntryBlocks
  <2>3. LogPosition(LogEnd, LogEntryLength)' = LogPosition(LogEnd, LogEntryLength)
        /\ (Off(LogEnd) + LogEntryLength)' = m + LogEntryLength
    BY <1>6, <1>13, <2>2 DEF LogPosition
  <2>4. IF pc' = "log_write" THEN entry'.written < LogEntryLength
        ELSE entry'.written = LogEntryLength
    BY <1>2, <1>3, <1>6, <1>7
  <2>5. ASSUME NEW i \in 0 .. entry'.written - 1
        PROVE  Tape'[Off(LogEnd)' + i] = EntryBlock(i)'
    <3>1. i \in Nat /\ i < LogEntryLength /\ i \in 0 .. w
      BY <1>2, <1>3, <1>7
    <3>2. EntryBlock(i)' = EntryBlock(i)
      BY <2>2, <3>1
    <3>3. CASE i = w
      BY <1>10, <1>13, <3>2, <3>3 DEF x, w
    <3>4. CASE i # w
      <4>1. i \in 0 .. w - 1 /\ m + i \in 0 .. m + w - 1
        BY <1>3, <3>1, <3>4
      <4> QED
        BY <1>2, <1>11, <1>13, <3>2, <4>1
    <3> QED
      BY <3>3, <3>4
  <2> QED
    BY <1>2, <2>2, <2>3, <2>4, <2>5 DEF EntryInv
<1>20. LogInv'
  <2>1. ASSUME NEW b \in Blocks
        PROVE  LogSays(Tape', 0, m, b, Committed(b)')
    <3>1. Committed(b)' = Committed(b)
      BY <1>1, <1>15 DEF Committed
    <3> QED
      BY <1>1, <1>12, <3>1, InvParts DEF LogInv, m
  <2>2. ASSUME NEW b \in InPrevious(cache)
        PROVE  \E i \in DOMAIN fEntries : /\ fEntries[i].id = cache[b].previous
                                          /\ Named(Tape', Start(i), m, b)
    <3>1. PICK i \in DOMAIN fEntries : /\ fEntries[i].id = cache[b].previous
                                       /\ Named(Tape, Start(i), m, b)
      BY <1>1, InvParts DEF LogInv, m
    <3>2. Start(i) \in Nat
      BY <1>1, InvParts, LogBegins
    <3> QED
      BY <1>12, <3>1, <3>2
  <2> QED
    BY <1>1, <1>6, <1>13, <1>15, <2>1, <2>2 DEF LogInv, Logging
<1> QED
  BY <1>9, <1>12, <1>13, <1>15, <1>16, <1>17, <1>18, <1>19, <1>20, InvParts, InvNext

LEMMA LogSetEndStep ==
  ASSUME Inv, LogSetEnd
  PROVE  Inv'
<1> DEFINE hi == Off(LogEnd) + LogEntryLength
           q == LogPosition(entry.start, entry.written)
<1>1. /\ pc = "log_end" /\ pc' = "log_super" /\ pc # "replay" /\ pc \in Logging /\ pc' \in Logging
      /\ SameLog /\ pc \notin Closing /\ pc' \notin Closing
      /\ superBlock' = [superBlock EXCEPT !.log_end = q]
      /\ UNCHANGED <<disk, log, superBlockOnDisk, LogStart, LogEnd, fEntries, entry, task,
                     sync, transactionVars, cacheVars, ghostVars>>
  BY DEF LogSetEnd, SameLog, diskVars, Logging, Closing
<1>2. hi \in Off(LogEnd) + 1 .. LogSize - 1 /\ q \in Positions /\ Off(q) = hi
  BY <1>1, InvParts, EntryWritten
<1>3. q # LogEnd
  BY <1>2, InvParts, LogTypes
<1> HIDE DEF q, hi
<1>4. superBlock' \in SuperBlocks /\ superBlock'.log_end = q
      /\ superBlock'.log_start = superBlock.log_start
  BY <1>1, <1>2, InvParts DEF Types, SuperBlocks
<1>5. Types'
  BY <1>1, <1>4, InvParts DEF Types, Labels, transactionVars, cacheVars, ghostVars
<1>6. ~EntryLogged /\ ~EntryLogged' /\ logged' = logged /\ finished' = finished
  <2>1. superBlockOnDisk.log_end = LogEnd
    BY <1>1, InvParts DEF PointerInv
  <2> QED
    BY <1>1, <1>3, <1>4, <2>1 DEF EntryLogged, ghostVars
<1>7. pc' # "replay" /\ ControlInv' /\ CacheInv' /\ WriterInv' /\ SyncInv'
       /\ cache' = cache /\ \A b : Old(b)' = Old(b)
  BY <1>1, <1>6, LoggingStep
<1>8. NotifyInv'
  <2>1. (Unlogged' => Unlogged) /\ Awaited' = Awaited
    BY <1>1, <1>7 DEF Unlogged, Awaited
  <2> QED
    BY <1>1, <2>1, InvParts, SameNotify DEF cacheVars, transactionVars, Logging
<1>9. PointerInv'
  <2>1. LogPosition(entry.start, entry.written)' = q
    BY <1>1 DEF q, LogPosition
  <2> QED
    BY <1>1, <1>4, <1>6, <2>1, InvParts DEF PointerInv, cacheVars
<1>10. EntriesInv'
  BY <1>1, <1>4, InvParts DEF EntriesInv, SameLog, Tip, Start, Off, Tape
<1>11. EntryInv'
  <2>1. LogEntryLength' = LogEntryLength /\ \A i : EntryBlock(i)' = EntryBlock(i)
    BY <1>7 DEF LogEntryLength, Changed, EntryBlock
  <2>2. Off(LogEnd)' = Off(LogEnd) /\ Tape' = Tape
        /\ LogPosition(LogEnd, LogEntryLength)' = LogPosition(LogEnd, LogEntryLength)
    BY <1>1, <2>1 DEF Off, Tape, LogPosition
  <2> QED
    BY <1>1, <2>1, <2>2, InvParts DEF EntryInv
<1>12. LogInv'
  <2>1. \A b \in Blocks : Committed(b)' = Committed(b)
    BY <1>1, <1>7 DEF Committed
  <2> QED
    BY <1>1, <1>7, <2>1, InvParts DEF LogInv, SameLog, Off, Tape, Start
<1> QED
  BY <1>1, <1>5, <1>7, <1>8, <1>9, <1>10, <1>11, <1>12, InvParts, InvNext

LEMMA LogWriteSuperBlockStep ==
  ASSUME Inv, LogWriteSuperBlock
  PROVE  Inv'
<1>1. /\ pc = "log_super" /\ pc' = "log_position" /\ pc # "replay"
      /\ pc \in Logging /\ pc' \in Logging
      /\ SameLog /\ pc \notin Closing /\ pc' \notin Closing
      /\ superBlockOnDisk' = superBlock /\ logged' = Len(finished)
      /\ UNCHANGED <<disk, log, superBlock, LogStart, LogEnd, fEntries, entry, task, finished,
                     sync, transactionVars, cacheVars, started, crashes>>
  BY DEF LogWriteSuperBlock, WriteSuperBlock, SameLog, logVars, Logging, Closing
<1>2. Types'
  <2>1. Len(finished) \in 1 .. Len(finished)
    BY InvParts DEF Types
  <2> QED
    BY <1>1, <2>1, InvParts DEF Types, Labels, transactionVars, cacheVars
<1>3. EntryLogged'
  BY <1>1 DEF EntryLogged
<1>7. pc' # "replay" /\ ControlInv' /\ CacheInv' /\ WriterInv' /\ SyncInv'
       /\ cache' = cache /\ \A b : Old(b)' = Old(b)
  BY <1>1, <1>3, LoggingStep
<1>8. NotifyInv'
  <2>1. (Unlogged' => Unlogged) /\ Awaited' = Awaited
    BY <1>1, <1>7 DEF Unlogged, Awaited
  <2> QED
    BY <1>1, <2>1, InvParts, SameNotify DEF cacheVars, transactionVars, Logging
<1>9. PointerInv'
  <2>1. LogPosition(entry.start, entry.written)' = LogPosition(entry.start, entry.written)
    BY <1>1 DEF LogPosition
  <2> QED
    BY <1>1, <2>1, InvParts DEF PointerInv, cacheVars
<1>10. EntriesInv'
  BY <1>1, InvParts DEF EntriesInv, SameLog, Tip, Start, Off, Tape
<1>11. EntryInv'
  <2>1. LogEntryLength' = LogEntryLength /\ \A i : EntryBlock(i)' = EntryBlock(i)
    BY <1>7 DEF LogEntryLength, Changed, EntryBlock
  <2>2. Off(LogEnd)' = Off(LogEnd) /\ Tape' = Tape
        /\ LogPosition(LogEnd, LogEntryLength)' = LogPosition(LogEnd, LogEntryLength)
    BY <1>1, <2>1 DEF Off, Tape, LogPosition
  <2> QED
    BY <1>1, <2>1, <2>2, InvParts DEF EntryInv
<1>12. LogInv'
  <2>1. \A b \in Blocks : Committed(b)' = Committed(b)
    BY <1>1, <1>7 DEF Committed
  <2> QED
    BY <1>1, <1>7, <2>1, InvParts DEF LogInv, SameLog, Off, Tape, Start
<1> QED
  BY <1>1, <1>2, <1>7, <1>8, <1>9, <1>10, <1>11, <1>12, InvParts, InvNext

LEMMA LogSetPositionStep ==
  ASSUME Inv, LogSetPosition
  PROVE  Inv'
<1> DEFINE m == Off(LogEnd)
           hi == Off(LogEnd) + LogEntryLength
           q == LogPosition(entry.start, entry.written)
<1>1. /\ pc = "log_position" /\ pc' = "log_add" /\ pc # "replay"
      /\ pc \in Logging /\ pc' \notin Logging
      /\ pc \notin Closing /\ pc' \in Closing
      /\ LogEnd' = q
      /\ UNCHANGED <<disk, log, superBlock, superBlockOnDisk, LogStart, fEntries, entry, task,
                     sync, transactionVars, cacheVars, ghostVars>>
  BY DEF LogSetPosition, diskVars, Logging, Closing
<1>2. /\ hi \in Off(LogEnd) + 1 .. LogSize - 1
      /\ Chain(Tape, 0, hi) /\ IsArray(Tape, Off(LogEnd))
      /\ \A b : Named(Tape, Off(LogEnd), hi, b) <=> b \in InTransaction(cache)
      /\ \A b \in Blocks : LogSays(Tape, 0, hi, b, cache[b].current)
      /\ q \in Positions /\ Off(q) = hi
  BY <1>1, InvParts, EntryWritten
<1>3. m \in Nat /\ LogSize \in Nat /\ entry.written = LogEntryLength /\ entry.start = LogEnd
  BY <1>1, InvParts, LogTypes DEF EntryInv, PointerInv
<1>4. hi \in Nat /\ m <= hi
  BY <1>2, <1>3
<1>5. Tape' = Tape /\ Off(LogEnd)' = hi /\ (\A i : Start(i)' = Start(i))
      /\ Off(entry.start)' = m
  BY <1>1, <1>2, <1>3 DEF Tape, Off, Start
<1> HIDE DEF q, hi
<1>6. Types'
  BY <1>1, <1>2, InvParts DEF Types, Labels, transactionVars, cacheVars, ghostVars
<1>7. EntryLogged'
  BY <1>1 DEF EntryLogged
<1>8. pc' # "replay" /\ ControlInv' /\ CacheInv' /\ WriterInv' /\ SyncInv'
       /\ cache' = cache /\ \A b : Old(b)' = Old(b)
  <2>1. pc \in Logging \cup {"log_add"} /\ pc' \in Logging \cup {"log_add", "cache_end"}
        /\ (pc' \in Logging => pc \in Logging) /\ entry'.id = entry.id
        /\ UNCHANGED <<disk, transactionVars, cacheVars, finished, sync, task>>
    BY <1>1 DEF ghostVars
  <2> QED
    BY <1>7, <2>1, LoggingStep
<1>9. NotifyInv'
  <2>1. (Unlogged' => Unlogged) /\ Awaited' = Awaited
    BY <1>1, <1>8 DEF Unlogged, Awaited
  <2> QED
    BY <1>1, <2>1, InvParts, SameNotify DEF cacheVars, transactionVars, Logging
<1>10. PointerInv'
  <2>1. logged = Len(finished) /\ logged' = logged /\ finished' = finished
    BY <1>1, InvParts DEF PointerInv, EntryLogged, ghostVars
  <2>2. Off(LogEnd)' = Off(entry.start)' + entry'.written
    BY <1>1, <1>3, <1>5 DEF hi, m
  <2> QED
    BY <1>1, <2>1, <2>2, InvParts DEF PointerInv, cacheVars, q
<1>11. EntriesInv'
  <2>1. Tip = LogEnd /\ Tip' = LogEnd
    BY <1>1, <1>3 DEF Tip
  <2>2. Off(Tip)' = Off(Tip)
    BY <1>1, <2>1 DEF Off
  <2> QED
    BY <1>1, <1>2, <1>5, <2>1, <2>2, InvParts DEF EntriesInv
<1>12. EntryInv'
  BY <1>1 DEF EntryInv
<1>13. LogInv'
  <2>1. ASSUME NEW b \in Blocks
        PROVE  LogSays(Tape, 0, hi, b, Committed(b)')
    BY <1>1, <1>2, <1>8 DEF Committed
  <2>2. ASSUME NEW b \in InPrevious(cache)
        PROVE  \E i \in DOMAIN fEntries : /\ fEntries[i].id = cache[b].previous
                                          /\ Named(Tape, Start(i), hi, b)
    <3>1. PICK i \in DOMAIN fEntries : /\ fEntries[i].id = cache[b].previous
                                       /\ Named(Tape, Start(i), m, b)
      BY <1>1, InvParts DEF LogInv
    <3>2. Start(i) \in Nat /\ Start(i) <= Start(i)
      BY <1>1, InvParts, LogBegins
    <3>3. Named(Tape, Start(i), hi, b)
      BY <1>3, <1>4, <3>1, <3>2, NamedWider
    <3> QED
      BY <3>1, <3>3
  <2>3. \A b \in InTransaction(cache) : Named(Tape, m, hi, b)
    BY <1>2
  <2> QED
    BY <1>1, <1>5, <1>8, <2>1, <2>2, <2>3 DEF LogInv
<1>14. Chain(Tape, 0, Off(LogEnd))'
  BY <1>2, <1>5
<1> QED
  BY <1>6, <1>8, <1>9, <1>10, <1>11, <1>12, <1>13, <1>14, InvParts, InvNext

LEMMA LogAddStep ==
  ASSUME Inv, LogAdd
  PROVE  Inv'
<1> DEFINE e == [id |-> entry.id, start |-> entry.start]
<1>0. PICK n : n = Len(fEntries)
  OBVIOUS
<1>1. /\ pc = "log_add" /\ pc' = "cache_end" /\ pc # "replay"
      /\ pc' \notin Logging /\ pc \in Closing /\ pc' \in Closing
      /\ SameLog /\ fEntries' = Append(fEntries, e) /\ entry' = NoEntry
      /\ UNCHANGED <<disk, log, superBlock, superBlockOnDisk, LogStart, LogEnd, task,
                     sync, transactionVars, cacheVars, ghostVars>>
  BY DEF LogAdd, diskVars, SameLog, Logging, Closing
<1>2. /\ entry.id = fTransactionID /\ fTransactionID > 0 /\ InTransaction(cache) # {}
      /\ fTransactionID \in Nat /\ fTransactionID \notin EntryIDs
  <2>1. fTransactionID \in 0 .. started /\ started \in Nat
    BY InvParts DEF Types, Values
  <2> QED
    BY <1>1, <2>1, InvParts DEF ControlInv, NotifyInv, Unlogged
<1>3. e \in LogEntries
  <2>1. fTransactionID \in 0 .. started /\ started \in 0 .. MaxTransactions
    BY InvParts DEF Types, Values
  <2>2. fTransactionID \in 1 .. MaxTransactions
    BY <1>2, <2>1, JournalConstants
  <2> QED
    BY <1>2, <2>2, InvParts, LogTypes DEF LogEntries
<1>4. fEntries \in Seq(LogEntries) /\ n \in Nat /\ DOMAIN fEntries = 1 .. n
  BY <1>0, InvParts, LenProperties DEF Types
<1>5. e.id = fTransactionID /\ e.start = entry.start
  BY <1>2
<1> HIDE DEF e
<1>6. /\ fEntries' \in Seq(LogEntries) /\ Len(fEntries') = n + 1 /\ fEntries' # <<>>
      /\ \A i \in 1 .. n : fEntries'[i] = fEntries[i]
      /\ fEntries'[n + 1] = e /\ DOMAIN fEntries' = 1 .. n + 1
  BY <1>0, <1>1, <1>3, <1>4, AppendProperties, LenProperties
<1>7. Types'
  <2>1. 0 \in Positions /\ 0 \in Values /\ entry' \in [id : Values, start : Positions, written : Nat]
    BY <1>1, JournalConstants DEF Positions, Values, NoEntry, NO_TRANSACTION
  <2> QED
    BY <1>1, <1>6, <2>1, InvParts DEF Types, Labels, transactionVars, cacheVars, ghostVars
<1>8. EntryLogged /\ EntryLogged' /\ logged' = logged /\ finished' = finished
  BY <1>1 DEF EntryLogged, ghostVars
<1>9. pc' # "replay" /\ ControlInv' /\ CacheInv' /\ WriterInv' /\ SyncInv'
       /\ cache' = cache /\ \A b : Old(b)' = Old(b)
  BY <1>1, <1>8, LoggingStep
<1>10. EntryIDs' = EntryIDs \cup {fTransactionID}
  <2>1. ASSUME NEW i \in DOMAIN fEntries'
        PROVE  fEntries'[i].id \in EntryIDs \cup {fTransactionID}
    <3>1. i \in 1 .. n \/ i = n + 1
      BY <1>4, <1>6
    <3> QED
      BY <1>4, <1>5, <1>6, <3>1 DEF EntryIDs
  <2>2. ASSUME NEW i \in DOMAIN fEntries
        PROVE  fEntries[i].id \in EntryIDs'
    <3>1. i \in DOMAIN fEntries' /\ fEntries'[i] = fEntries[i]
      BY <1>4, <1>6
    <3> QED
      BY <3>1 DEF EntryIDs
  <2>3. fTransactionID \in EntryIDs'
    <3>1. n + 1 \in DOMAIN fEntries'
      BY <1>4, <1>6
    <3> QED
      BY <1>5, <1>6, <3>1 DEF EntryIDs
  <2> QED
    BY <2>1, <2>2, <2>3 DEF EntryIDs
<1>11. NotifyInv'
  <2>1. ~Unlogged' /\ Awaited' = Awaited
    BY <1>1, <1>9 DEF Unlogged, Awaited, Logging
  <2>2. fTransactionID \notin Awaited \cup Range(pending_notifications)
    BY <1>1, <1>2, InvParts DEF NotifyInv, SYNC, NO_TRANSACTION
  <2>3. fTransactionID' = fTransactionID /\ pending_notifications' = pending_notifications
        /\ fTransactionID <= fTransactionID
    BY <1>1, <1>2 DEF transactionVars, cacheVars
  <2> QED
    BY <1>1, <1>10, <2>1, <2>2, <2>3, InvParts DEF NotifyInv
<1>12. PointerInv'
  BY <1>1, <1>8, InvParts DEF PointerInv, cacheVars
<1> DEFINE m == Off(LogEnd)
           o == Off(entry.start)
<1>13. /\ Tape' = Tape /\ Off(LogEnd)' = m
       /\ \A i \in 1 .. n : Start(i)' = Start(i)
       /\ Start(n + 1)' = o
  BY <1>1, <1>5, <1>6 DEF Tape, Off, Start
<1>14. m \in Nat /\ o \in Nat /\ \A i \in 1 .. n : Start(i) \in Nat
  BY <1>1, <1>4, InvParts, LogTypes, LogBegins
<1>15. o < m
  <2>1. PICK b \in InTransaction(cache) : Named(Tape, o, m, b)
    BY <1>1, <1>2, InvParts DEF LogInv
  <2> QED
    BY <1>14, <2>1 DEF Named
<1>16. Tip = entry.start /\ Off(Tip) = o /\ Tip' = LogEnd /\ Off(Tip)' = m
  BY <1>1 DEF Tip, Off
<1> HIDE DEF m, o
<1>17. EntriesInv'
  <2>1. superBlock'.log_start = fEntries'[1].start
    <3>1. CASE fEntries = <<>>
      BY <1>0, <1>1, <1>5, <1>6, <1>16, <3>1, InvParts DEF EntriesInv
    <3>2. CASE fEntries # <<>>
      <4>1. 1 \in 1 .. n
        BY <1>0, <1>4, <3>2, EmptySeq
      <4> QED
        BY <1>1, <1>6, <3>2, <4>1, InvParts DEF EntriesInv
    <3> QED
      BY <3>1, <3>2
  <2>2. ASSUME NEW i \in 1 .. n + 1
        PROVE  /\ IsArray(Tape, Start(i)') /\ Start(i)' < m
               /\ i \in 1 .. n => Start(i)' < o /\ fEntries'[i].id < fTransactionID
    <3>1. CASE i \in 1 .. n
      <4>1. IsArray(Tape, Start(i)) /\ Start(i) < o
        BY <1>1, <1>4, <1>16, <3>1, InvParts DEF EntriesInv
      <4>2. Start(i)' = Start(i) /\ fEntries'[i] = fEntries[i]
        BY <1>6, <1>13, <3>1
      <4>3. fEntries[i].id \in EntryIDs /\ fEntries[i].id <= fTransactionID
        BY <1>1, <1>4, <3>1, InvParts DEF EntryIDs, NotifyInv
      <4>4. fEntries[i].id \in Nat
        <5>1. fEntries[i] \in LogEntries
          BY <1>4, <3>1
        <5> QED
          BY <5>1, JournalConstants DEF LogEntries
      <4>5. fEntries[i].id < fTransactionID
        BY <1>2, <4>3, <4>4
      <4> QED
        BY <1>14, <1>15, <3>1, <4>1, <4>2, <4>5
    <3>2. CASE i = n + 1
      <4>1. IsArray(Tape, o) /\ i \notin 1 .. n
        BY <1>1, <1>4, <1>16, <3>2, InvParts DEF EntriesInv
      <4> QED
        BY <1>13, <1>15, <3>2, <4>1
    <3> QED
      BY <1>4, <3>1, <3>2
  <2>3. ASSUME NEW i \in 1 .. n + 1, NEW j \in 1 .. n + 1, i < j
        PROVE  fEntries'[i].id < fEntries'[j].id /\ Start(i)' < Start(j)'
    <3>1. i \in 1 .. n
      BY <1>4, <2>3
    <3>2. CASE j \in 1 .. n
      <4>1. fEntries[i].id < fEntries[j].id /\ Start(i) < Start(j)
        BY <1>1, <1>4, <2>3, <3>1, <3>2, InvParts DEF EntriesInv
      <4> QED
        BY <1>6, <1>13, <3>1, <3>2, <4>1
    <3>3. CASE j = n + 1
      BY <1>5, <1>6, <1>13, <2>2, <3>1, <3>3
    <3> QED
      BY <1>4, <3>2, <3>3
  <2> QED
    BY <1>1, <1>6, <1>13, <1>16, <2>1, <2>2, <2>3 DEF EntriesInv
<1>18. EntryInv'
  BY <1>1 DEF EntryInv
<1>19. LogInv'
  <2>1. ASSUME NEW b \in Blocks
        PROVE  LogSays(Tape, 0, m, b, Committed(b)')
    <3>1. Committed(b)' = Committed(b)
      BY <1>1, <1>9 DEF Committed
    <3> QED
      BY <1>1, <3>1, InvParts DEF LogInv, m
  <2>2. ASSUME NEW b \in InPrevious(cache)
        PROVE  \E i \in DOMAIN fEntries' : /\ fEntries'[i].id = cache[b].previous
                                           /\ Named(Tape, Start(i)', m, b)
    <3>1. PICK i \in DOMAIN fEntries : /\ fEntries[i].id = cache[b].previous
                                       /\ Named(Tape, Start(i), m, b)
      BY <1>1, InvParts DEF LogInv, m
    <3>2. i \in 1 .. n /\ i \in DOMAIN fEntries' /\ fEntries'[i] = fEntries[i]
      BY <1>4, <1>6
    <3> QED
      BY <1>13, <3>1, <3>2
  <2>3. \A b \in InTransaction(cache) : Named(Tape, o, m, b)
    BY <1>1, InvParts DEF LogInv, m, o
  <2>4. Last(fEntries') = e
    BY <1>6 DEF Last
  <2>5. Start(Len(fEntries))' = o
    <3>1. Len(fEntries)' = n + 1
      BY <1>6
    <3> QED
      BY <1>1, <1>5, <1>6, <3>1 DEF Start, Off, o
  <2>6. fTransactionID' = fTransactionID
    BY <1>1 DEF transactionVars
  <2> QED
    BY <1>1, <1>5, <1>6, <1>9, <1>13, <2>1, <2>2, <2>3, <2>4, <2>5, <2>6 DEF LogInv
<1> QED
  BY <1>1, <1>7, <1>9, <1>11, <1>12, <1>17, <1>18, <1>19, InvParts, InvNext

-----------------------------------------------------------------------------
(* The end of the cache's transaction *)

LEMMA WriterTypes ==
  ASSUME Types
  PROVE  /\ \A w \in Writers : /\ writer[w].busy \in SUBSET Blocks
                               /\ writer[w].todo \in SUBSET Blocks
         /\ Writers = {"notifier", "journal"}
         /\ Busy = writer["notifier"].busy \cup writer["journal"].busy
BY DEF Types, Writers, Busy

LEMMA StartWritingType ==
  ASSUME Types, NEW w \in Writers, NEW blocks \in SUBSET Blocks, StartWriting(w, blocks)
  PROVE  /\ writer' \in [Writers -> [busy : SUBSET Blocks, todo : SUBSET Blocks]]
         /\ writer'[w].busy = blocks /\ writer'[w].todo = blocks
         /\ \A v \in Writers \ {w} : writer'[v] = writer[v]
BY DEF Types, StartWriting

LEMMA CacheEndStep ==
  ASSUME Inv, CacheEnd
  PROVE  Inv'
<1> DEFINE B == BlocksInPreviousTransaction
<1>1. /\ pc = "cache_end" /\ pc' = "cache_end_written" /\ pc # "replay" /\ pc' # "replay"
      /\ SameLog /\ pc \in Calm /\ pc' \in Calm /\ pc \in Closing /\ pc' \in Closing
      /\ Busy = {} /\ StartWriting("journal", B)
      /\ UNCHANGED <<disk, log, superBlockOnDisk, logVars, task, sync, cache,
                     pending_notifications, hook, transactionVars, ghostVars>>
  BY DEF CacheEnd, SameLog, diskVars, logVars, Calm, Closing, TransactionLocked
<1>2. "journal" \in Writers /\ "notifier" \in Writers /\ B \in SUBSET Blocks
      /\ B \subseteq InPrevious(cache)
  BY DEF Writers, BlocksInPreviousTransaction, InPrevious, InTransaction
<1>3. /\ writer' \in [Writers -> [busy : SUBSET Blocks, todo : SUBSET Blocks]]
      /\ writer'["journal"].busy = B /\ writer'["journal"].todo = B
      /\ writer'["notifier"] = writer["notifier"]
  BY <1>1, <1>2, InvParts, StartWritingType
<1>4. writer["notifier"].busy = {} /\ writer["notifier"].todo = {}
  BY <1>1, <1>2, InvParts, WriterTypes DEF WriterInv
<1> HIDE DEF B
<1>5. Types'
  BY <1>1, <1>3, InvParts DEF Types, Labels, logVars, transactionVars, ghostVars
<1>6. ControlInv'
  BY <1>1, InvParts DEF ControlInv, logVars, transactionVars, ghostVars, Logging, Closing
<1>7. EntryLogged /\ EntryLogged'
  BY <1>1 DEF EntryLogged
<1>8. \A b : Old(b)' = Old(b) /\ Committed(b)' = Committed(b)
  BY <1>1 DEF Old, Committed
<1>9. CacheInv'
  BY <1>1, <1>7, <1>8, InvParts DEF CacheInv, ghostVars
<1>10. WriterInv'
  BY <1>1, <1>2, <1>3, <1>4 DEF WriterInv, Writers, B, BlocksInPreviousTransaction
<1>11. SyncInv'
  <2>1. sync = "none"
    BY <1>1, InvParts DEF ControlInv
  <2> QED
    BY <1>1, <2>1, InvParts DEF SyncInv
<1>12. NotifyInv'
  <2>1. (Unlogged' => Unlogged) /\ Awaited' = Awaited
    BY <1>1 DEF Unlogged, Awaited, transactionVars, Logging
  <2> QED
    BY <1>1, <2>1, InvParts, SameNotify DEF logVars, transactionVars
<1>13. PointerInv' /\ EntriesInv' /\ EntryInv'
  <2>1. logged' = Len(finished)'
    BY <1>1, <1>7, InvParts DEF PointerInv, ghostVars
  <2> QED
    BY <1>1, <2>1, InvParts, SamePointers, SameEntries, SameEntry, LogTypes
       DEF logVars, Logging
<1>14. LogInv'
  BY <1>1, <1>8, InvParts, SameLogInv DEF logVars, transactionVars
<1> QED
  BY <1>1, <1>5, <1>6, <1>9, <1>10, <1>11, <1>12, <1>13, <1>14, InvParts, InvNext

LEMMA CacheEndWrittenStep ==
  ASSUME Inv, CacheEndWritten
  PROVE  Inv'
<1>1. /\ pc = "cache_end_written" /\ pc' \in {"unlocked", "flush"}
      /\ pc # "replay" /\ pc' # "replay"
      /\ SameLog /\ pc \in Calm /\ pc' \in Calm /\ pc \in Closing /\ pc' \notin Closing
      /\ writer["journal"].busy = {} /\ fUnwrittenTransactions' = 0
      /\ cache' = cache_end_transaction(cache, fTransactionID)
      /\ (pc' = "flush" <=> sync' = "start") /\ sync' \in {"none", "start"}
      /\ UNCHANGED <<disk, log, superBlockOnDisk, logVars, task, fTransactionID,
                     fHasSubtransaction, writer, pending_notifications, hook, ghostVars>>
  BY DEF CacheEndWritten, AfterLog, SameLog, diskVars, logVars, Calm, Closing, Idle
<1>2. /\ BlocksInPreviousTransaction = {}
      /\ InTransaction(cache) # {} /\ ~fHasSubtransaction /\ fTransactionID > 0
      /\ fTransactionID \in Values /\ fTransactionID # NO_TRANSACTION
      /\ sync = "none"
  <2>1. fTransactionID \in 0 .. started /\ started \in 0 .. MaxTransactions
    BY InvParts DEF Types, Values
  <2>2. fTransactionID \in Values
    BY <2>1, JournalConstants DEF Values
  <2>3. fTransactionID > 0
    BY <1>1, InvParts DEF ControlInv
  <2> QED
    BY <1>1, <2>1, <2>2, <2>3, InvParts DEF ControlInv, WriterInv, NO_TRANSACTION
<1>3. ASSUME NEW b \in Blocks
      PROVE  /\ cache'[b] \in CachedBlocks
             /\ ~cache'[b].transaction /\ cache'[b].current = cache[b].current
             /\ cache'[b].parent = NULL
             /\ cache[b].transaction =>
                  cache'[b].previous = fTransactionID /\ cache'[b].original = NULL
                  /\ cache[b].previous = NO_TRANSACTION
             /\ ~cache[b].transaction => cache'[b] = cache[b]
  <2>1. cache[b] \in CachedBlocks /\ cache'[b] = cache_end_transaction(cache, fTransactionID)[b]
    BY <1>1, InvParts DEF Types
  <2>2. cache[b].transaction => cache[b].previous = NO_TRANSACTION
    BY <1>2 DEF BlocksInPreviousTransaction, InTransaction, InPrevious
  <2>3. ~cache[b].transaction => cache[b].parent = NULL
    BY <1>1, InvParts DEF CacheInv
  <2>4. CASE cache[b].transaction
    BY <1>2, <2>1, <2>2, <2>4, ZenonT(60) DEF cache_end_transaction, CachedBlocks, Buffers
  <2>5. CASE ~cache[b].transaction
    BY <2>1, <2>3, <2>5 DEF cache_end_transaction
  <2> QED
    BY <2>4, <2>5
<1>4. Types'
  <2>1. cache' \in [Blocks -> CachedBlocks]
    <3>1. cache' = [b \in Blocks |-> cache'[b]]
      BY <1>1 DEF cache_end_transaction
    <3> QED
      BY <1>3, <3>1
  <2> QED
    BY <1>1, <2>1, InvParts DEF Types, Labels, logVars, ghostVars
<1>5. InTransaction(cache)' = {} /\ InPrevious(cache)' = InPrevious(cache) \cup InTransaction(cache)
      /\ InPrevious(cache) \cap InTransaction(cache) = {}
  BY <1>2, <1>3 DEF InTransaction, InPrevious
<1>6. \A b \in Blocks : Old(b)' = cache[b].current /\ Committed(b)' = cache[b].current
                        /\ Committed(b) = cache[b].current
                        /\ (b \notin InTransaction(cache) => Old(b)' = Old(b))
  BY <1>1, <1>3 DEF Old, Committed, InTransaction
<1>7. EntryLogged /\ ~EntryLogged' /\ logged = Len(finished)
  BY <1>1, InvParts DEF EntryLogged, PointerInv
<1>8. ControlInv'
  BY <1>1, <1>2, <1>5, <1>7 DEF ControlInv, logVars, ghostVars, Logging
<1>9. CacheInv'
  <2> SUFFICES ASSUME NEW b \in Blocks
               PROVE  /\ cache'[b].current \in Values
                      /\ ~cache'[b].transaction
                      /\ cache'[b].original \in {NULL, cache'[b].current}
                         /\ cache'[b].parent = NULL
                      /\ cache'[b].current = Last(finished)[b]
                      /\ cache'[b].previous = NO_TRANSACTION => disk[b] = Old(b)'
                      /\ Old(b)' = finished[logged][b]
    BY <1>1 DEF CacheInv, ghostVars
  <2>1. /\ cache[b].current \in Values
        /\ ~cache[b].transaction => cache[b].original \in {NULL, cache[b].current}
        /\ cache[b].current = Last(finished)[b]
        /\ cache[b].previous = NO_TRANSACTION => disk[b] = Old(b)
    BY <1>1, InvParts DEF CacheInv
  <2>2. Last(finished) = finished[logged]
    BY <1>7 DEF Last
  <2> QED
    BY <1>2, <1>3, <1>6, <2>1, <2>2 DEF InTransaction
<1>10. WriterInv'
  <2>1. /\ writer' = writer /\ writer["notifier"].busy \subseteq InPrevious(cache)
        /\ writer["notifier"].todo \subseteq writer["notifier"].busy
        /\ writer["notifier"].todo = {} => writer["notifier"].busy = {}
        /\ \A b \in writer["notifier"].busy \ writer["notifier"].todo : disk[b] = Old(b)
        /\ writer["journal"].todo \subseteq writer["journal"].busy
        /\ writer["notifier"].busy # {} => hook = "none"
    BY <1>1, InvParts DEF WriterInv, Writers
  <2>2. \A b \in InPrevious(cache) : Old(b)' = Old(b)
    BY <1>5, <1>6 DEF InPrevious
  <2> QED
    BY <1>1, <1>5, <2>1, <2>2 DEF WriterInv, Writers
<1>11. SyncInv'
  BY <1>1, <1>2, InvParts DEF SyncInv
<1>12. fEntries # <<>> /\ Last(fEntries).id = fTransactionID /\ Len(fEntries) \in DOMAIN fEntries
       /\ \A b \in InTransaction(cache) : Named(Tape, Start(Len(fEntries)), Off(LogEnd), b)
  BY <1>1, InvParts DEF LogInv, Types
<1>13. NotifyInv'
  <2>1. EntryIDs' = EntryIDs /\ fTransactionID \in EntryIDs
    BY <1>1, <1>12 DEF EntryIDs, Last, logVars
  <2>2. Awaited' = Awaited \cup {fTransactionID}
    <3>1. ASSUME NEW b \in InPrevious(cache)'
          PROVE  cache'[b].previous \in Awaited \cup {fTransactionID}
      BY <1>3, <1>5 DEF Awaited, InTransaction, InPrevious
    <3>2. ASSUME NEW b \in InPrevious(cache)
          PROVE  cache[b].previous \in Awaited'
      <4>1. b \in InPrevious(cache)' /\ cache'[b] = cache[b]
        BY <1>3, <1>5 DEF InTransaction, InPrevious
      <4> QED
        BY <4>1 DEF Awaited
    <3>3. fTransactionID \in Awaited'
      <4>1. PICK b \in InTransaction(cache) : TRUE
        BY <1>2
      <4>2. b \in InPrevious(cache)' /\ cache'[b].previous = fTransactionID
        BY <1>3, <1>5 DEF InTransaction
      <4> QED
        BY <4>2 DEF Awaited
    <3> QED
      BY <3>1, <3>2, <3>3 DEF Awaited
  <2>3. ~Unlogged'
    BY <1>1 DEF Unlogged, Logging
  <2> QED
    BY <1>1, <2>1, <2>2, <2>3, InvParts DEF NotifyInv
<1>14. PointerInv' /\ EntriesInv' /\ EntryInv'
  BY <1>1, <1>7, InvParts, SamePointers, SameEntries, SameEntry, LogTypes
     DEF logVars, Calm, Logging
<1>15. LogInv'
  <2>1. Tape' = Tape /\ Off(LogEnd)' = Off(LogEnd) /\ (\A i : Start(i)' = Start(i))
        /\ fEntries' = fEntries
    BY <1>1 DEF Tape, Off, Start, logVars
  <2>2. \A b \in Blocks : LogSays(Tape, 0, Off(LogEnd), b, Committed(b)')
    BY <1>1, <1>6, InvParts DEF LogInv
  <2>3. ASSUME NEW b \in InPrevious(cache)'
        PROVE  \E i \in DOMAIN fEntries : /\ fEntries[i].id = cache'[b].previous
                                          /\ Named(Tape, Start(i), Off(LogEnd), b)
    <3>1. CASE b \in InTransaction(cache)
      BY <1>3, <1>12, <3>1 DEF InTransaction, Last
    <3>2. CASE b \notin InTransaction(cache)
      <4>1. b \in InPrevious(cache) /\ cache'[b].previous = cache[b].previous
        BY <1>3, <1>5, <3>2 DEF InTransaction, InPrevious
      <4> QED
        BY <1>1, <4>1, InvParts DEF LogInv
    <3> QED
      BY <3>1, <3>2
  <2> QED
    BY <1>1, <2>1, <2>2, <2>3 DEF LogInv
<1> QED
  BY <1>1, <1>4, <1>8, <1>9, <1>10, <1>11, <1>13, <1>14, <1>15, InvParts, InvNext

-----------------------------------------------------------------------------
(* The BlockWriters and the notifications *)

LEMMA WriterFrame ==
  ASSUME Inv, pc # "replay", sync' = "none" <=> sync = "none",
         UNCHANGED <<diskVars, logVars, transactionVars, ghostVars, pc, task, cache, hook>>
  PROVE  /\ ControlInv' /\ CacheInv' /\ PointerInv' /\ EntriesInv' /\ EntryInv' /\ LogInv'
         /\ SameLog /\ (\A b : Old(b)' = Old(b)) /\ (Unlogged' <=> Unlogged)
         /\ Awaited' = Awaited /\ EntryIDs' = EntryIDs
<1>1. SameLog /\ SameTransaction /\ cache' = cache /\ disk' = disk /\ pc' = pc
      /\ superBlock' = superBlock /\ superBlockOnDisk' = superBlockOnDisk
      /\ entry' = entry /\ fEntries' = fEntries /\ finished' = finished /\ logged' = logged
      /\ fTransactionID' = fTransactionID /\ fHasSubtransaction' = fHasSubtransaction
      /\ fUnwrittenTransactions' = fUnwrittenTransactions
  BY DEF SameLog, SameTransaction, diskVars, logVars, transactionVars, ghostVars
<1>2. (\A b : Old(b)' = Old(b)) /\ (\A b : Committed(b)' = Committed(b))
      /\ (\A b : Prior(b)' = Prior(b)) /\ (EntryLogged' <=> EntryLogged)
      /\ (Unlogged' <=> Unlogged) /\ Awaited' = Awaited /\ EntryIDs' = EntryIDs
  BY <1>1 DEF Old, Committed, Prior, EntryLogged, Unlogged, Awaited, EntryIDs
<1>3. ControlInv'
  BY <1>1, InvParts DEF ControlInv
<1>4. CacheInv'
  BY <1>1, <1>2, InvParts DEF CacheInv
<1>5. PointerInv'
  <2>1. EntryLogged' => logged' = Len(finished)'
    BY <1>1, <1>2, InvParts DEF PointerInv
  <2> QED
    BY <1>1, <2>1, InvParts, SamePointers
<1>6. EntriesInv' /\ EntryInv'
  BY <1>1, InvParts, SameEntries, SameEntry, LogTypes
<1>7. LogInv'
  BY <1>1, <1>2, InvParts, SameLogInv
<1> QED
  BY <1>1, <1>2, <1>3, <1>4, <1>5, <1>6, <1>7

LEMMA SyncStartStep ==
  ASSUME Inv, SyncStart
  PROVE  Inv'
<1> DEFINE B == InPrevious(cache) \ Busy
<1>1. /\ sync = "start" /\ sync' = "write" /\ StartWriting("journal", B)
      /\ (pc # "flush" => Busy = {})
      /\ UNCHANGED <<diskVars, logVars, transactionVars, ghostVars, pc, task, cache, hook>>
      /\ UNCHANGED <<pending_notifications, hook>>
  BY DEF SyncStart, TransactionLocked
<1>2. pc # "replay" /\ pc # "cache_end_written"
  BY <1>1, InvParts DEF Inv, ReplayInv, ControlInv
<1>3. /\ ControlInv' /\ CacheInv' /\ PointerInv' /\ EntriesInv' /\ EntryInv' /\ LogInv'
      /\ SameLog /\ (\A b : Old(b)' = Old(b)) /\ (Unlogged' <=> Unlogged)
      /\ Awaited' = Awaited
  BY <1>1, <1>2, WriterFrame
<1>4. "journal" \in Writers /\ "notifier" \in Writers /\ B \in SUBSET Blocks
  BY DEF Writers, InPrevious
<1>5. /\ writer' \in [Writers -> [busy : SUBSET Blocks, todo : SUBSET Blocks]]
      /\ writer'["journal"].busy = B /\ writer'["journal"].todo = B
      /\ writer'["notifier"] = writer["notifier"]
  BY <1>1, <1>4, InvParts, StartWritingType
<1>6. /\ writer["journal"].busy = {} /\ Busy = writer["notifier"].busy
      /\ Busy' = B \cup writer["notifier"].busy
  <2>1. writer["journal"].busy = {}
    BY <1>1, <1>2, InvParts DEF WriterInv
  <2>2. Busy' = writer'["notifier"].busy \cup writer'["journal"].busy
    BY DEF Busy, Writers
  <2> QED
    BY <1>5, <2>1, <2>2, InvParts, WriterTypes
<1>7. Types'
  BY <1>1, <1>5, InvParts DEF Types, diskVars, logVars, transactionVars, ghostVars
<1>8. WriterInv'
  BY <1>1, <1>2, <1>3, <1>4, <1>5, <1>6, InvParts
     DEF WriterInv, Writers, diskVars, BlocksInPreviousTransaction
<1>9. SyncInv'
  BY <1>1, <1>2, <1>5, <1>6, InvParts DEF SyncInv
<1>10. NotifyInv'
  BY <1>1, <1>2, <1>3, InvParts, SameNotify DEF logVars, transactionVars
<1> QED
  BY <1>1, <1>2, <1>3, <1>7, <1>8, <1>9, <1>10, InvParts, InvNext

LEMMA SyncWrittenStep ==
  ASSUME Inv, SyncWritten
  PROVE  Inv'
<1>1. /\ sync = "write" /\ sync' = "wait" /\ writer["journal"] = Idle
      /\ pending_notifications' = Append(pending_notifications, SYNC)
      /\ UNCHANGED <<diskVars, logVars, transactionVars, ghostVars, pc, task, cache, hook>>
      /\ UNCHANGED <<writer, hook>>
  BY DEF SyncWritten, WaitForNotifications
<1>2. pc # "replay" /\ pc \notin {"cache_end", "cache_end_written"}
  BY <1>1, InvParts DEF Inv, ReplayInv, ControlInv
<1>3. /\ ControlInv' /\ CacheInv' /\ PointerInv' /\ EntriesInv' /\ EntryInv' /\ LogInv'
      /\ SameLog /\ (\A b : Old(b)' = Old(b)) /\ (Unlogged' <=> Unlogged)
      /\ Awaited' = Awaited /\ EntryIDs' = EntryIDs
  BY <1>1, <1>2, WriterFrame
<1>4. SYNC \notin Range(pending_notifications) /\ SYNC \in Values
      /\ pending_notifications \in Seq(Values)
  BY <1>1, <1>2, InvParts, JournalConstants
     DEF SyncInv, SYNC, NO_TRANSACTION, Values, Types
<1>5. /\ pending_notifications' \in Seq(Values)
      /\ Range(pending_notifications') = Range(pending_notifications) \cup {SYNC}
      /\ IsInjective(pending_notifications) => IsInjective(pending_notifications')
      /\ Last(pending_notifications') = SYNC
  BY <1>1, <1>4, AppendMembers, AppendProperties DEF Last
<1>6. Types'
  BY <1>1, <1>5, InvParts DEF Types, diskVars, logVars, transactionVars, ghostVars
<1>7. WriterInv'
  BY <1>1, <1>2, <1>3, InvParts
     DEF WriterInv, Idle, diskVars, BlocksInPreviousTransaction
<1>8. SyncInv'
  <2>1. Busy = writer["notifier"].busy
    <3>1. writer["journal"].busy = {}
      BY <1>1 DEF Idle
    <3> QED
      BY <3>1, InvParts, WriterTypes
  <2> QED
    BY <1>1, <1>2, <1>5, <2>1, InvParts DEF SyncInv
<1>9. NotifyInv'
  <2>1. SYNC \notin Awaited
    BY DEF Awaited, InPrevious, SYNC
  <2>2. pc' = pc /\ fTransactionID' = fTransactionID
    BY <1>1 DEF transactionVars
  <2> QED
    BY <1>2, <1>3, <1>5, <2>1, <2>2, InvParts DEF NotifyInv
<1> QED
  BY <1>1, <1>2, <1>3, <1>6, <1>7, <1>8, <1>9, InvParts, InvNext

LEMMA NotifierWritesStep ==
  ASSUME Inv, NotifierWrites
  PROVE  Inv'
<1>1. PICK B \in (SUBSET (InPrevious(cache) \ Busy)) \ {{}} : StartWriting("notifier", B)
  BY DEF NotifierWrites
<1>0. B # {} /\ B \subseteq InPrevious(cache) /\ B \cap Busy = {}
  BY <1>1
<1>2. /\ writer["notifier"] = Idle /\ hook = "none"
      /\ UNCHANGED <<diskVars, logVars, transactionVars, ghostVars, pc, task, cache, hook>>
      /\ UNCHANGED <<pending_notifications, hook, sync>>
  BY DEF NotifierWrites, NotifierFree
<1>3. pc # "replay"
  BY <1>0 DEF Inv, ReplayInv
<1>4. /\ ControlInv' /\ CacheInv' /\ PointerInv' /\ EntriesInv' /\ EntryInv' /\ LogInv'
      /\ SameLog /\ (\A b : Old(b)' = Old(b)) /\ (Unlogged' <=> Unlogged)
      /\ Awaited' = Awaited /\ EntryIDs' = EntryIDs
  BY <1>2, <1>3, WriterFrame
<1>5. "journal" \in Writers /\ "notifier" \in Writers /\ B \in SUBSET Blocks
      /\ B # {} /\ B \subseteq InPrevious(cache) /\ B \cap Busy = {}
  BY <1>0 DEF Writers, InPrevious
<1>6. /\ writer' \in [Writers -> [busy : SUBSET Blocks, todo : SUBSET Blocks]]
      /\ writer'["notifier"].busy = B /\ writer'["notifier"].todo = B
      /\ writer'["journal"] = writer["journal"]
  BY <1>1, <1>5, InvParts, StartWritingType
<1>7. B \cap writer["journal"].busy = {}
  BY <1>5, InvParts, WriterTypes
<1>8. Types'
  BY <1>2, <1>6, InvParts DEF Types, diskVars, logVars, transactionVars, ghostVars
<1>9. WriterInv'
  <2>1. disk' = disk /\ InPrevious(cache)' = InPrevious(cache)
        /\ BlocksInPreviousTransaction' = BlocksInPreviousTransaction
    BY <1>2 DEF diskVars, BlocksInPreviousTransaction
  <2> QED
    BY <1>2, <1>3, <1>4, <1>5, <1>6, <1>7, <2>1, InvParts DEF WriterInv, Writers
<1>10. sync \in {"none", "start"}
  <2>1. writer["notifier"].busy = {}
    BY <1>2 DEF Idle
  <2>2. sync \notin {"write", "wait", "done"}
    BY <1>3, <1>5, <2>1, InvParts DEF SyncInv
  <2> QED
    BY <2>2, InvParts DEF Types
<1>11. SyncInv'
  BY <1>2, <1>3, <1>10, InvParts DEF SyncInv
<1>12. NotifyInv'
  BY <1>2, <1>3, <1>4, InvParts, SameNotify DEF logVars, transactionVars
<1> QED
  BY <1>2, <1>3, <1>4, <1>8, <1>9, <1>11, <1>12, InvParts, InvNext

LEMMA NotifySyncStep ==
  ASSUME Inv, NotifySync
  PROVE  Inv'
<1>1. /\ writer["notifier"] = Idle /\ hook = "none"
      /\ pending_notifications # <<>> /\ Head(pending_notifications) = SYNC
      /\ pending_notifications' = Tail(pending_notifications)
      /\ sync' = "done"
      /\ UNCHANGED <<diskVars, logVars, transactionVars, ghostVars, pc, task, cache, hook>>
      /\ UNCHANGED <<writer, hook>>
  BY DEF NotifySync, NotifierFree
<1>2. pc # "replay"
  BY <1>1 DEF Inv, ReplayInv
<1>3. pending_notifications \in Seq(Values) /\ IsInjective(pending_notifications)
  BY <1>2, InvParts DEF Types, NotifyInv
<1>4. /\ pending_notifications' \in Seq(Values) /\ IsInjective(pending_notifications')
      /\ SYNC \in Range(pending_notifications)
      /\ Range(pending_notifications') = Range(pending_notifications) \ {SYNC}
  BY <1>1, <1>3, TailMembers
<1>5. sync = "wait"
  BY <1>2, <1>4, InvParts DEF SyncInv
<1>6. /\ ControlInv' /\ CacheInv' /\ PointerInv' /\ EntriesInv' /\ EntryInv' /\ LogInv'
      /\ SameLog /\ (\A b : Old(b)' = Old(b)) /\ (Unlogged' <=> Unlogged)
      /\ Awaited' = Awaited /\ EntryIDs' = EntryIDs
  BY <1>1, <1>2, <1>5, WriterFrame
<1>7. Types'
  BY <1>1, <1>4, InvParts DEF Types, diskVars, logVars, transactionVars, ghostVars
<1>8. WriterInv'
  BY <1>1, <1>2, <1>5, <1>6, InvParts
     DEF WriterInv, diskVars, BlocksInPreviousTransaction
<1>9. InPrevious(cache) = {}
  BY <1>1, <1>2, <1>5, InvParts DEF SyncInv, Idle
<1>10. pc # "flush" => pending_notifications' = <<>>
  <2> SUFFICES ASSUME pc # "flush" PROVE Tail(pending_notifications) = <<>>
    BY <1>1
  <2> DEFINE s == pending_notifications
             n == Len(s)
  <2>1. n \in Nat \ {0} /\ DOMAIN s = 1 .. n /\ s[1] = SYNC
    BY <1>1, <1>3, LenProperties, EmptySeq
  <2>2. s[n] = SYNC
    BY <1>2, <1>5, InvParts DEF SyncInv, Last
  <2>3. n = 1
    BY <1>3, <2>1, <2>2 DEF IsInjective
  <2>4. Tail(s) \in Seq(Values) /\ Len(Tail(s)) = n - 1
    BY <1>1, <1>3, HeadTailProperties
  <2> QED
    <3>1. Len(Tail(s)) = 0
      BY <2>3, <2>4
    <3> QED
      BY <2>4, <3>1, EmptySeq
<1>11. SyncInv'
  <2>1. SYNC \notin Range(pending_notifications)'
    BY <1>4
  <2>2. writer["notifier"].busy = {}
    BY <1>1 DEF Idle
  <2> QED
    BY <1>1, <1>9, <1>10, <2>1, <2>2 DEF SyncInv
<1>12. NotifyInv'
  <2>1. ASSUME NEW id \in EntryIDs
        PROVE  id # SYNC
    <3>1. PICK i \in DOMAIN fEntries : id = fEntries[i].id
      BY DEF EntryIDs
    <3>2. fEntries[i] \in LogEntries
      BY InvParts DEF Types
    <3> QED
      BY <3>1, <3>2 DEF LogEntries, SYNC, NO_TRANSACTION
  <2>2. pc' = pc /\ fTransactionID' = fTransactionID
    BY <1>1 DEF transactionVars
  <2> QED
    BY <1>2, <1>4, <1>6, <2>1, <2>2, InvParts DEF NotifyInv
<1> QED
  BY <1>1, <1>2, <1>6, <1>7, <1>8, <1>11, <1>12, InvParts, InvNext

(* The transactions that a BlockWriter completes                           *)
Completed(c, done) ==
  {c[b].previous : b \in {x \in done : c[x].previous # NO_TRANSACTION
       /\ {y \in Blocks : c[y].previous = c[x].previous} \subseteq done}}

LEMMA Written ==
  ASSUME NEW c \in [Blocks -> CachedBlocks], NEW done \in SUBSET Blocks,
         NEW s, s = WrittenTransactions(c, done)
  PROVE  s \in Seq(Values) /\ IsInjective(s) /\ Range(s) = Completed(c, done)
<1> DEFINE blocksOf(id) == {b \in Blocks : c[b].previous = id}
           ids == {c[b].previous : b \in done} \ {NO_TRANSACTION}
           written == {id \in ids : blocksOf(id) \subseteq done}
           key == [id \in written |-> Max(blocksOf(id))]
<1>1. written = Completed(c, done)
  BY DEF Completed
<1>2. ASSUME NEW id \in written
      PROVE  Max(blocksOf(id)) \in Blocks /\ c[Max(blocksOf(id))].previous = id
  <2>1. blocksOf(id) # {} /\ blocksOf(id) \in SUBSET Blocks
    OBVIOUS
  <2>2. blocksOf(id) \in SUBSET Nat /\ IsFiniteSet(blocksOf(id))
    BY <2>1, BlockNumbers, FS_Subset
  <2>3. Max(blocksOf(id)) \in blocksOf(id)
    BY <2>1, <2>2, GreatestNat
  <2> QED
    BY <2>3
<1>3. s = SortedBy(key)
  BY DEF WrittenTransactions
<1>4. written \in SUBSET Values
  BY DEF CachedBlocks
<1> HIDE DEF blocksOf, ids, written
<1>5. key \in [written -> Nat] /\ key \in Injection(written, Blocks) /\ IsInjective(key)
  <2>1. \A id \in written : key[id] \in Blocks /\ c[key[id]].previous = id
    BY <1>2
  <2> QED
    BY <2>1, BlockNumbers DEF Injection, IsInjective
<1>6. IsFiniteSet(written)
  BY <1>5, BlockNumbers, FS_Injection
<1> HIDE DEF key
<1>7. s \in Seq(written) /\ IsInjective(s) /\ Range(s) = written
  BY <1>3, <1>5, <1>6, SortedBySeq
<1>8. s \in Seq(Values)
  <2>1. Len(s) \in Nat /\ DOMAIN s = 1 .. Len(s) /\ \A i \in 1 .. Len(s) : s[i] \in written
    BY <1>7, LenProperties
  <2>2. s = [i \in 1 .. Len(s) |-> s[i]]
    BY <1>7
  <2> QED
    BY <1>4, <2>1, <2>2
<1> QED
  BY <1>1, <1>7, <1>8

LEMMA ConcatMembers ==
  ASSUME NEW S, NEW s \in Seq(S), NEW t \in Seq(S)
  PROVE  /\ s \o t \in Seq(S) /\ Range(s \o t) = Range(s) \cup Range(t)
         /\ IsInjective(s) /\ IsInjective(t) /\ Range(s) \cap Range(t) = {} =>
              IsInjective(s \o t)
<1> DEFINE m == Len(s)
           n == Len(t)
           r == s \o t
<1>1. m \in Nat /\ n \in Nat /\ DOMAIN s = 1 .. m /\ DOMAIN t = 1 .. n
  BY LenProperties
<1>2. /\ r \in Seq(S) /\ Len(r) = m + n
      /\ \A i \in 1 .. m + n : r[i] = IF i <= m THEN s[i] ELSE t[i - m]
  BY ConcatProperties
<1>3. DOMAIN r = 1 .. m + n
  BY <1>2, LenProperties
<1> HIDE DEF m, n, r
<1>4. ASSUME NEW i \in 1 .. m + n
      PROVE  \/ i \in 1 .. m /\ r[i] = s[i] /\ r[i] \in Range(s)
             \/ i - m \in 1 .. n /\ r[i] = t[i - m] /\ r[i] \in Range(t)
  <2>1. CASE i <= m
    <3>1. i \in 1 .. m
      BY <1>1, <2>1
    <3> QED
      BY <1>1, <1>2, <2>1, <3>1 DEF Range
  <2>2. CASE ~(i <= m)
    <3>1. i - m \in 1 .. n
      BY <1>1, <2>2
    <3> QED
      BY <1>1, <1>2, <2>2, <3>1 DEF Range
  <2> QED
    BY <2>1, <2>2
<1>5. Range(r) = Range(s) \cup Range(t)
  <2>1. ASSUME NEW x \in Range(s)
        PROVE  x \in Range(r)
    <3>1. PICK i \in 1 .. m : s[i] = x
      BY <1>1 DEF Range
    <3>2. i \in 1 .. m + n /\ i <= m
      BY <1>1
    <3> QED
      BY <1>2, <1>3, <3>1, <3>2 DEF Range
  <2>2. ASSUME NEW x \in Range(t)
        PROVE  x \in Range(r)
    <3>1. PICK j \in 1 .. n : t[j] = x
      BY <1>1 DEF Range
    <3>2. j + m \in 1 .. m + n /\ ~(j + m <= m) /\ (j + m) - m = j
      BY <1>1
    <3> QED
      BY <1>2, <1>3, <3>1, <3>2 DEF Range
  <2>3. ASSUME NEW x \in Range(r)
        PROVE  x \in Range(s) \cup Range(t)
    BY <1>3, <1>4 DEF Range
  <2> QED
    BY <2>1, <2>2, <2>3
<1>6. ASSUME IsInjective(s), IsInjective(t), Range(s) \cap Range(t) = {}
      PROVE  IsInjective(r)
  <2> SUFFICES ASSUME NEW i \in 1 .. m + n, NEW j \in 1 .. m + n, r[i] = r[j]
               PROVE  i = j
    BY <1>3 DEF IsInjective
  <2>1. CASE i \in 1 .. m /\ j \in 1 .. m
    BY <1>1, <1>2, <1>6, <2>1 DEF IsInjective
  <2>2. CASE i \notin 1 .. m /\ j \notin 1 .. m
    <3>1. i - m \in 1 .. n /\ j - m \in 1 .. n /\ t[i - m] = t[j - m]
      BY <1>4, <2>2
    <3>2. i - m = j - m
      BY <1>1, <1>6, <3>1 DEF IsInjective
    <3> QED
      BY <1>1, <3>2
  <2>3. CASE i \in 1 .. m /\ j \notin 1 .. m
    <3>1. r[j] \in Range(t)
      BY <1>4, <2>3
    <3>2. r[i] = s[i]
      BY <1>1, <1>2, <2>3
    <3>3. r[i] \in Range(s)
      BY <1>1, <2>3, <3>2 DEF Range
    <3> QED
      BY <1>6, <3>1, <3>3
  <2>4. CASE i \notin 1 .. m /\ j \in 1 .. m
    <3>1. r[i] \in Range(t)
      BY <1>4, <2>4
    <3>2. r[j] = s[j]
      BY <1>1, <1>2, <2>4
    <3>3. r[j] \in Range(s)
      BY <1>1, <2>4, <3>2 DEF Range
    <3> QED
      BY <1>6, <3>1, <3>3
  <2> QED
    BY <2>1, <2>2, <2>3, <2>4
<1> QED
  BY <1>2, <1>5, <1>6 DEF r

(* A BlockWriter writes what the last closed transaction made of a block.  *)
LEMMA OldWritten ==
  ASSUME Inv, pc # "replay", NEW b \in InPrevious(cache)
  PROVE  WriteData(cache[b]) = Old(b) /\ Old(b) \in Values
<1>1. b \in Blocks /\ cache[b].previous # NO_TRANSACTION
  BY DEF InPrevious
<1>2. /\ cache[b].current \in Values
      /\ cache[b].transaction => cache[b].original \in Values
      /\ ~cache[b].transaction => cache[b].original \in {NULL, cache[b].current}
  BY <1>1, InvParts DEF CacheInv
<1>3. NULL \notin Values
  BY DEF NULL, Values
<1> QED
  BY <1>1, <1>2, <1>3 DEF WriteData, Old

LEMMA WriteBlockStep ==
  ASSUME Inv, NEW w \in Writers, NEW b \in Blocks, WriteBlock(w, b)
  PROVE  Inv'
<1> DEFINE B == writer[w].busy
<1>1. /\ b \in writer[w].todo
      /\ disk' = [disk EXCEPT ![b] = WriteData(cache[b])]
      /\ UNCHANGED <<log, superBlockOnDisk, hook, pc, task, sync, logVars, transactionVars,
                     ghostVars>>
      /\ \/ /\ writer[w].todo # {b}
            /\ writer' = [writer EXCEPT ![w].todo = @ \ {b}]
            /\ UNCHANGED <<cache, pending_notifications>>
         \/ /\ writer[w].todo = {b}
            /\ writer' = [writer EXCEPT ![w] = Idle]
            /\ cache' = BlocksDone(cache, B)
            /\ pending_notifications' =
                 pending_notifications \o WrittenTransactions(cache, B)
  BY DEF WriteBlock
<1>2. pc # "replay"
  BY <1>1 DEF Inv, ReplayInv, Idle
<1>3. /\ \A v \in Writers :
           /\ writer[v].busy \in SUBSET Blocks /\ writer[v].todo \in SUBSET Blocks
           /\ writer[v].todo \subseteq writer[v].busy
           /\ writer[v].todo = {} => writer[v].busy = {}
           /\ writer[v].busy \subseteq InPrevious(cache)
           /\ \A x \in writer[v].busy \ writer[v].todo : disk[x] = Old(x)
           /\ v # w => writer[v].busy \cap B = {}
      /\ writer["journal"].busy # {} => sync = "write" \/ pc = "cache_end_written"
      /\ pc = "cache_end_written" =>
           BlocksInPreviousTransaction \subseteq writer["journal"].busy
      /\ writer["notifier"].busy # {} => hook = "none"
      /\ Writers = {"notifier", "journal"}
  BY <1>2, InvParts, WriterTypes DEF WriterInv
<1>4. b \in B /\ b \in InPrevious(cache) /\ B \in SUBSET Blocks /\ B \subseteq InPrevious(cache)
  BY <1>1, <1>3
<1>5. disk' \in [Blocks -> Values] /\ disk'[b] = Old(b)
      /\ \A x \in Blocks : x # b => disk'[x] = disk[x]
  BY <1>1, <1>2, <1>4, OldWritten, InvParts DEF Types
<1>6. SameLog /\ pc' = pc /\ superBlock' = superBlock /\ superBlockOnDisk' = superBlockOnDisk
      /\ entry' = entry /\ fEntries' = fEntries /\ finished' = finished /\ logged' = logged
      /\ fTransactionID' = fTransactionID /\ fHasSubtransaction' = fHasSubtransaction
      /\ fUnwrittenTransactions' = fUnwrittenTransactions /\ hook' = hook /\ sync' = sync
      /\ task' = task /\ started' = started /\ crashes' = crashes
  BY <1>1 DEF SameLog, logVars, transactionVars, ghostVars
<1>7. (EntryLogged' <=> EntryLogged) /\ (Unlogged' <=> Unlogged) /\ EntryIDs' = EntryIDs
  BY <1>6 DEF EntryLogged, Unlogged, EntryIDs
<1>8. /\ writer' \in [Writers -> [busy : SUBSET Blocks, todo : SUBSET Blocks]]
      /\ \A v \in Writers : v # w => writer'[v] = writer[v]
      /\ \/ writer[w].todo # {b} /\ writer'[w].busy = B
            /\ writer'[w].todo = writer[w].todo \ {b}
         \/ writer[w].todo = {b} /\ writer'[w].busy = {} /\ writer'[w].todo = {}
  <2>1. writer \in [Writers -> [busy : SUBSET Blocks, todo : SUBSET Blocks]]
    BY InvParts DEF Types
  <2>2. CASE writer[w].todo # {b}
    BY <1>1, <1>3, <2>1, <2>2
  <2>3. CASE writer[w].todo = {b}
    BY <1>1, <2>1, <2>3 DEF Idle
  <2> QED
    BY <2>2, <2>3
(* What becomes of the cached blocks *)
<1> DEFINE D == IF writer[w].todo = {b} THEN B ELSE {}
<1>9. ASSUME NEW x \in Blocks
      PROVE  /\ cache'[x] \in CachedBlocks
             /\ cache'[x].transaction = cache[x].transaction
             /\ cache'[x].current = cache[x].current /\ cache'[x].parent = cache[x].parent
             /\ cache'[x].previous = IF x \in D THEN NO_TRANSACTION ELSE cache[x].previous
             /\ cache[x].transaction => cache'[x].original = cache[x].original
             /\ ~cache[x].transaction => cache'[x].original \in {NULL, cache[x].original}
  <2>1. cache[x] \in CachedBlocks
    BY InvParts DEF Types
  <2>2. CASE writer[w].todo # {b}
    BY <1>1, <2>1, <2>2
  <2>3. CASE writer[w].todo = {b}
    <3>1. cache' = BlocksDone(cache, B) /\ D = B
      BY <1>1, <2>3
    <3>2. x \in B => cache[x].previous # NO_TRANSACTION
      BY <1>4 DEF InPrevious
    <3>3. CASE x \in B
      <4> HIDE DEF B
      <4>1. NULL \in Buffers /\ NO_TRANSACTION \in Values
        BY JournalConstants DEF Buffers, Values, NO_TRANSACTION
      <4>2. cache'[x] = [cache[x] EXCEPT
                           !.previous = NO_TRANSACTION,
                           !.original = IF cache[x].transaction THEN @ ELSE NULL]
        BY <3>1, <3>2, <3>3 DEF BlocksDone
      <4> QED
        BY <2>1, <3>1, <3>3, <4>1, <4>2 DEF CachedBlocks
    <3>4. CASE x \notin B
      BY <2>1, <3>1, <3>4 DEF BlocksDone
    <3> QED
      BY <3>3, <3>4
  <2> QED
    BY <2>2, <2>3
<1>10. cache' \in [Blocks -> CachedBlocks]
  <2>1. cache' = [x \in Blocks |-> cache'[x]]
    BY <1>1, InvParts DEF BlocksDone, Types
  <2> QED
    BY <1>9, <2>1
<1>11. /\ SameTransaction /\ InTransaction(cache)' = InTransaction(cache)
       /\ InPrevious(cache)' = InPrevious(cache) \ D
       /\ \A x \in Blocks : Old(x)' = Old(x) /\ Committed(x)' = Committed(x)
                            /\ Prior(x)' = Prior(x)
  <2>1. \A x \in Blocks : Old(x)' = Old(x)
    BY <1>9 DEF Old
  <2>2. SameTransaction /\ InTransaction(cache)' = InTransaction(cache)
        /\ InPrevious(cache)' = InPrevious(cache) \ D
    BY <1>9 DEF SameTransaction, InTransaction, InPrevious
  <2> QED
    BY <1>6, <1>9, <2>1, <2>2 DEF Committed, Prior
(* What a writer has done is on the disk.                                  *)
<1>12. /\ D \subseteq B
       /\ \A x \in D : disk'[x] = Old(x)
       /\ \A v \in Writers : \A x \in writer'[v].busy \ writer'[v].todo : disk'[x] = Old(x)
  <2>1. \A x \in B : x \notin writer[w].todo \/ x = b => disk'[x] = Old(x)
    BY <1>3, <1>4, <1>5
  <2>2. ASSUME NEW v \in Writers, v # w, NEW x \in writer'[v].busy \ writer'[v].todo
        PROVE  disk'[x] = Old(x)
    <3>1. x \in writer[v].busy \ writer[v].todo /\ x \in Blocks /\ x # b
      BY <1>3, <1>4, <1>8, <2>2
    <3> QED
      BY <1>3, <1>5, <3>1
  <2>3. ASSUME NEW x \in writer'[w].busy \ writer'[w].todo
        PROVE  disk'[x] = Old(x)
    BY <1>8, <2>1
  <2> QED
    BY <2>1, <2>2, <2>3
<1>13. CacheInv'
  <2> SUFFICES ASSUME NEW x \in Blocks
               PROVE  /\ cache'[x].current \in Values
                      /\ cache'[x].transaction => cache'[x].original \in Values
                      /\ ~cache'[x].transaction =>
                           /\ cache'[x].original \in {NULL, cache'[x].current}
                           /\ cache'[x].parent = NULL
                      /\ IF pc = "open" THEN Prior(x)' = Last(finished)[x]
                         ELSE cache'[x].current = Last(finished)[x]
                      /\ cache'[x].previous = NO_TRANSACTION => disk'[x] = Old(x)'
                      /\ ~EntryLogged => Old(x)' = finished[logged][x]
    BY <1>6, <1>7 DEF CacheInv
  <2>1. /\ cache[x].current \in Values
        /\ cache[x].transaction => cache[x].original \in Values
        /\ ~cache[x].transaction =>
             cache[x].original \in {NULL, cache[x].current} /\ cache[x].parent = NULL
        /\ IF pc = "open" THEN Prior(x) = Last(finished)[x]
           ELSE cache[x].current = Last(finished)[x]
        /\ cache[x].previous = NO_TRANSACTION => disk[x] = Old(x)
        /\ ~EntryLogged => Old(x) = finished[logged][x]
    BY <1>2, InvParts DEF CacheInv
  <2>2. cache'[x].previous = NO_TRANSACTION => disk'[x] = Old(x)
    <3>1. CASE x \in D
      BY <1>12, <3>1
    <3>2. CASE x \notin D
      BY <1>4, <1>5, <1>9, <2>1, <3>2 DEF InPrevious
    <3> QED
      BY <3>1, <3>2
  <2> HIDE DEF D
  <2> QED
    BY <1>9, <1>11, <2>1, <2>2
<1>14. BlocksInPreviousTransaction' = BlocksInPreviousTransaction \ D
  BY <1>11 DEF BlocksInPreviousTransaction
<1>15. /\ \A v \in Writers :
            /\ writer'[v].todo \subseteq writer'[v].busy
            /\ writer'[v].todo = {} => writer'[v].busy = {}
            /\ writer'[v].busy \subseteq writer[v].busy
            /\ writer'[v].busy \cap D = {}
       /\ \A v \in Writers : writer[v].busy \subseteq writer'[v].busy \cup D
  BY <1>3, <1>4, <1>8
<1> HIDE DEF D
<1>16. WriterInv'
  <2>1. ASSUME NEW v \in Writers
        PROVE  /\ writer'[v].todo \subseteq writer'[v].busy
               /\ writer'[v].todo = {} => writer'[v].busy = {}
               /\ writer'[v].busy \subseteq InPrevious(cache)'
               /\ \A x \in writer'[v].busy \ writer'[v].todo : disk'[x] = Old(x)'
    <3>1. writer'[v].busy \in SUBSET Blocks
      BY <1>8
    <3> QED
      BY <1>3, <1>11, <1>12, <1>15, <3>1
  <2>2. "journal" \in Writers /\ "notifier" \in Writers
    BY DEF Writers
  <2>3. writer'["journal"].busy \cap writer'["notifier"].busy = {}
    <3>1. writer["journal"].busy \cap writer["notifier"].busy = {}
      BY <1>2, InvParts DEF WriterInv
    <3> QED
      BY <1>15, <2>2, <3>1
  <2> QED
    BY <1>3, <1>6, <1>14, <1>15, <2>1, <2>2, <2>3 DEF WriterInv
(* The notifications *)
<1>17. PICK s : /\ s \in Seq(Values) /\ IsInjective(s)
                /\ pending_notifications' = pending_notifications \o s
                /\ Range(s) = {cache[y].previous : y \in
                      {x \in D : {z \in Blocks : cache[z].previous = cache[x].previous}
                                   \subseteq D}}
  <2>1. CASE writer[w].todo = {b}
    <3> DEFINE s == WrittenTransactions(cache, B)
    <3>1. s \in Seq(Values) /\ IsInjective(s) /\ Range(s) = Completed(cache, B)
      <4> HIDE DEF s
      <4>1. s = WrittenTransactions(cache, B)
        BY DEF s
      <4>2. cache \in [Blocks -> CachedBlocks] /\ B \in SUBSET Blocks
        BY <1>4, InvParts DEF Types
      <4> QED
        BY <4>1, <4>2, Written
    <3>2. D = B /\ \A x \in B : cache[x].previous # NO_TRANSACTION
      BY <1>4, <2>1 DEF D, InPrevious
    <3>3. Completed(cache, B) =
              {cache[y].previous : y \in
                {x \in D : {z \in Blocks : cache[z].previous = cache[x].previous}
                             \subseteq D}}
      BY <3>2 DEF Completed
    <3> QED
      BY <1>1, <2>1, <3>1, <3>3
  <2>2. CASE writer[w].todo # {b}
    <3>1. D = {} /\ pending_notifications' = pending_notifications
      BY <1>1, <2>2 DEF D
    <3>2. <<>> \in Seq(Values) /\ pending_notifications \o <<>> = pending_notifications
      BY ConcatEmptySeq, InvParts DEF Types
    <3>3. IsInjective(<<>>) /\ Range(<<>>) = {}
      BY DEF IsInjective, Range
    <3> QED
      BY <3>1, <3>2, <3>3
  <2> QED
    BY <2>1, <2>2
<1>18. /\ pending_notifications \in Seq(Values) /\ IsInjective(pending_notifications)
       /\ Range(pending_notifications) \ {SYNC} \subseteq EntryIDs
       /\ Awaited \subseteq EntryIDs
       /\ Awaited \cap Range(pending_notifications) = {}
  BY <1>2, InvParts DEF Types, NotifyInv
<1>19. Range(s) \subseteq Awaited /\ SYNC \notin Range(s)
  BY <1>4, <1>12, <1>17 DEF Awaited, InPrevious, SYNC
<1>20. Awaited' = Awaited \ Range(s)
  <2>1. ASSUME NEW x \in InPrevious(cache)'
        PROVE  cache'[x].previous \in Awaited /\ cache'[x].previous \notin Range(s)
    <3>1. x \in InPrevious(cache) /\ x \notin D /\ cache'[x].previous = cache[x].previous
          /\ x \in Blocks
      BY <1>9, <1>11 DEF InPrevious
    <3>2. cache[x].previous \notin Range(s)
      BY <1>17, <3>1
    <3> QED
      BY <3>1, <3>2 DEF Awaited
  <2>2. ASSUME NEW id \in Awaited, id \notin Range(s)
        PROVE  id \in Awaited'
    <3>1. PICK x \in InPrevious(cache) : id = cache[x].previous
      BY DEF Awaited
    <3>2. PICK z \in Blocks : cache[z].previous = id /\ z \notin D
      BY <1>17, <2>2, <3>1 DEF InPrevious
    <3>3. z \in InPrevious(cache)' /\ cache'[z].previous = id
      BY <1>9, <1>11, <3>1, <3>2 DEF InPrevious
    <3> QED
      BY <3>3 DEF Awaited
  <2> QED
    BY <2>1, <2>2 DEF Awaited
<1>21. /\ pending_notifications' \in Seq(Values) /\ IsInjective(pending_notifications')
       /\ Range(pending_notifications') = Range(pending_notifications) \cup Range(s)
  <2>1. Range(pending_notifications) \cap Range(s) = {}
    BY <1>18, <1>19
  <2> QED
    BY <1>17, <1>18, <2>1, ConcatMembers
<1>22. NotifyInv'
  BY <1>2, <1>6, <1>7, <1>18, <1>19, <1>20, <1>21, InvParts DEF NotifyInv
<1>23. Types'
  BY <1>1, <1>5, <1>8, <1>10, <1>21, InvParts
     DEF Types, logVars, transactionVars, ghostVars
<1>24. ControlInv'
  BY <1>2, <1>6, <1>11, InvParts DEF ControlInv
<1>25. SyncInv'
  <2>1. sync # "done" /\ (pc # "flush" => sync # "wait") /\ (sync = "wait" => w = "notifier")
    <3>1. b \in InPrevious(cache) /\ InPrevious(cache) # {}
      BY <1>4
    <3>2. sync # "done"
      BY <1>2, <3>1, InvParts DEF SyncInv
    <3>3. sync = "wait" => pc # "cache_end_written"
      BY <1>2, InvParts DEF ControlInv
    <3>4. sync = "wait" => w = "notifier"
      BY <1>3, <1>4, <3>3
    <3> QED
      BY <1>2, <1>4, <3>2, <3>4, InvParts DEF SyncInv
  <2>2. "journal" \in Writers /\ "notifier" \in Writers
    BY DEF Writers
  <2>3. Busy = writer["notifier"].busy \cup writer["journal"].busy
        /\ Busy' = writer'["notifier"].busy \cup writer'["journal"].busy
    BY DEF Busy, Writers
  <2>4. sync = "write" => InPrevious(cache)' \subseteq Busy'
    <3>1. sync = "write" => InPrevious(cache) \subseteq Busy
      BY <1>2, InvParts DEF SyncInv
    <3> QED
      BY <1>11, <1>15, <2>2, <2>3, <3>1
  <2>5. sync = "wait" => InPrevious(cache)' \subseteq writer'["notifier"].busy
    <3>1. sync = "wait" => InPrevious(cache) \subseteq writer["notifier"].busy
      BY <1>2, InvParts DEF SyncInv
    <3> QED
      BY <1>11, <1>15, <2>2, <3>1
  <2>6. sync = "wait" <=> SYNC \in Range(pending_notifications')
    BY <1>2, <1>19, <1>21, InvParts DEF SyncInv
  <2>7. sync = "write" /\ pc # "flush" => writer'["notifier"].busy = {}
    BY <1>2, <1>15, <2>2, InvParts DEF SyncInv
  <2> QED
    BY <1>6, <2>1, <2>4, <2>5, <2>6, <2>7 DEF SyncInv
<1>26. PointerInv' /\ EntriesInv' /\ EntryInv'
  <2>1. EntryLogged' => logged' = Len(finished)'
    BY <1>2, <1>6, <1>7, InvParts DEF PointerInv
  <2> QED
    BY <1>2, <1>6, <1>11, <2>1, InvParts, SamePointers, SameEntries, SameEntry, LogTypes
<1>27. LogInv'
  <2>1. \A x \in Blocks : cache'[x].previous \in {NO_TRANSACTION, cache[x].previous}
    BY <1>9
  <2> QED
    BY <1>2, <1>6, <1>11, <2>1, InvParts, SameLogInv
<1> QED
  BY <1>2, <1>6, <1>13, <1>16, <1>22, <1>23, <1>24, <1>25, <1>26, <1>27, InvParts, InvNext

-----------------------------------------------------------------------------
(* Client transactions *)

LEMMA ClientFrame ==
  ASSUME Inv, pc \in {"unlocked", "open", "failed"},
         pc' \in {"unlocked", "open", "batch", "log"},
         UNCHANGED <<diskVars, logVars, writer, pending_notifications, hook>>,
         sync' \in {"none", "start"},
         \A b \in Blocks : Old(b)' = Old(b) /\ cache'[b].previous = cache[b].previous
  PROVE  /\ WriterInv' /\ SyncInv' /\ PointerInv' /\ EntriesInv' /\ EntryInv' /\ LogInv'
         /\ SameLog /\ Awaited' = Awaited /\ ~EntryLogged /\ ~EntryLogged'
         /\ pc # "replay" /\ pc' # "replay" /\ sync = "none"
<1>1. SameLog /\ disk' = disk /\ superBlock' = superBlock /\ superBlockOnDisk' = superBlockOnDisk
      /\ entry' = entry /\ fEntries' = fEntries /\ pc \in Calm /\ pc' \in Calm
      /\ pc # "replay" /\ pc' # "replay" /\ pc \notin Closing /\ pc' \notin Closing
      /\ pc' \notin Logging /\ pc \notin Logging
  BY DEF SameLog, diskVars, logVars, Calm, Closing, Logging
<1>2. InPrevious(cache)' = InPrevious(cache) /\ Awaited' = Awaited
  BY DEF InPrevious, Awaited
<1>3. \A b \in Blocks : Committed(b)' = Committed(b)
  BY <1>1 DEF Committed
<1>4. ~EntryLogged /\ ~EntryLogged' /\ sync = "none"
  BY <1>1, InvParts DEF EntryLogged, ControlInv
<1>5. WriterInv'
  <2>1. \A w \in Writers : writer[w].busy \in SUBSET Blocks
    BY InvParts, WriterTypes
  <2>2. writer["journal"].busy = {} /\ "journal" \in Writers
    BY <1>1, <1>4, InvParts DEF WriterInv, Writers
  <2> QED
    BY <1>1, <1>2, <2>1, <2>2, InvParts DEF WriterInv
<1>6. SyncInv'
  BY <1>1, <1>4, InvParts DEF SyncInv
<1>7. PointerInv' /\ EntriesInv' /\ EntryInv'
  BY <1>1, <1>4, InvParts, SamePointers, SameEntries, SameEntry, LogTypes
<1>8. LogInv'
  BY <1>1, <1>3, InvParts, SameLogInv
<1> QED
  BY <1>1, <1>2, <1>4, <1>5, <1>6, <1>7, <1>8

LEMMA BlockTypes ==
  ASSUME Inv, pc # "replay", NEW b \in Blocks
  PROVE  /\ cache[b] \in CachedBlocks /\ cache[b].current \in Values
         /\ cache[b].parent \in Values \cup {NULL, CURRENT_DATA}
         /\ cache[b].transaction => cache[b].original \in Values
         /\ ~cache[b].transaction =>
              cache[b].original \in {NULL, cache[b].current} /\ cache[b].parent = NULL
         /\ cache[b].previous = NO_TRANSACTION => disk[b] = Old(b)
         /\ ~EntryLogged => Old(b) = finished[logged][b]
         /\ pc = "open" => Prior(b) = Last(finished)[b]
         /\ pc # "open" => cache[b].current = Last(finished)[b]
         /\ NULL \notin Values /\ CURRENT_DATA \notin Values /\ NULL # CURRENT_DATA
         /\ NULL \in Buffers /\ Values \subseteq Buffers
<1>1. cache[b] \in CachedBlocks /\ NULL \notin Values /\ CURRENT_DATA \notin Values
      /\ NULL # CURRENT_DATA
  BY InvParts DEF Types, NULL, CURRENT_DATA, Values
<1> QED
  BY <1>1, InvParts DEF CacheInv, CachedBlocks, Buffers

LEMMA LockStep ==
  ASSUME Inv, Lock
  PROVE  Inv'
<1>1. /\ pc = "unlocked" /\ pc' = "open" /\ pc # "replay"
      /\ started < MaxTransactions /\ started' = started + 1 /\ task' = "client"
      /\ UNCHANGED <<diskVars, logVars, writer, pending_notifications, hook>>
      /\ UNCHANGED <<sync, fUnwrittenTransactions, finished, logged, crashes>>
      /\ \/ /\ fUnwrittenTransactions > 0
            /\ cache' = cache_start_sub_transaction(cache)
            /\ fHasSubtransaction' = TRUE /\ fTransactionID' = fTransactionID
         \/ /\ fUnwrittenTransactions = 0 /\ fTransactionID' = fTransactionID + 1
            /\ cache' = cache /\ fHasSubtransaction' = fHasSubtransaction
  BY DEF Lock
<1>2. sync = "none" /\ fUnwrittenTransactions \in Nat
  BY <1>1, InvParts DEF ControlInv, Types
<1>3. fUnwrittenTransactions = 0 => InTransaction(cache) = {} /\ logged = Len(finished)
        /\ ~fHasSubtransaction
  BY <1>1, InvParts DEF ControlInv
<1>4. ASSUME NEW b \in Blocks
      PROVE  /\ cache'[b] \in CachedBlocks
             /\ cache'[b].current = cache[b].current /\ cache'[b].original = cache[b].original
             /\ cache'[b].transaction = cache[b].transaction
             /\ cache'[b].previous = cache[b].previous
             /\ ~cache[b].transaction => cache'[b].parent = cache[b].parent
             /\ cache[b].transaction => fHasSubtransaction' /\ cache'[b].parent = CURRENT_DATA
  <2>1. CASE fUnwrittenTransactions > 0
    <3>1. cache' = cache_start_sub_transaction(cache) /\ fHasSubtransaction' = TRUE
      BY <1>1, <2>1
    <3>2. cache[b] \in CachedBlocks
      BY <1>1, BlockTypes
    <3>3. CASE cache[b].transaction
      <4>1. cache'[b] = [cache[b] EXCEPT !.parent = CURRENT_DATA]
        BY <3>1, <3>3 DEF cache_start_sub_transaction
      <4> QED
        BY <3>1, <3>2, <3>3, <4>1, ZenonT(40) DEF CachedBlocks
    <3>4. CASE ~cache[b].transaction
      BY <3>1, <3>2, <3>4 DEF cache_start_sub_transaction
    <3> QED
      BY <3>3, <3>4
  <2>2. CASE fUnwrittenTransactions = 0
    BY <1>1, <1>3, <2>2, BlockTypes DEF InTransaction
  <2> QED
    BY <1>2, <2>1, <2>2
<1>5. \A b \in Blocks : Old(b)' = Old(b) /\ cache'[b].previous = cache[b].previous
  BY <1>4 DEF Old
<1>6. /\ WriterInv' /\ SyncInv' /\ PointerInv' /\ EntriesInv' /\ EntryInv' /\ LogInv'
      /\ SameLog /\ Awaited' = Awaited /\ ~EntryLogged /\ ~EntryLogged'
  BY <1>1, <1>2, <1>5, ClientFrame
<1>7. fTransactionID \in Nat /\ started \in Nat /\ fTransactionID <= started
      /\ MaxTransactions \in Nat
  BY InvParts, JournalConstants DEF Types, Values
<1>8. Types'
  <2>1. cache' \in [Blocks -> CachedBlocks]
    <3>1. cache' = [b \in Blocks |-> cache'[b]]
      BY <1>1, InvParts DEF cache_start_sub_transaction, Types
    <3> QED
      BY <1>4, <3>1
  <2>2. started' \in Values /\ fTransactionID' \in 0 .. started'
    BY <1>1, <1>7 DEF Values
  <2> QED
    BY <1>1, <2>1, <2>2, InvParts DEF Types, Labels, diskVars, logVars
<1>9. ControlInv'
  <2>1. fTransactionID' > 0
    BY <1>1, <1>7, InvParts DEF ControlInv
  <2> QED
    BY <1>1, <1>2, <1>3, <2>1 DEF ControlInv, Logging, Closing
<1>10. CacheInv'
  <2> SUFFICES ASSUME NEW b \in Blocks
               PROVE  /\ cache'[b].current \in Values
                      /\ cache'[b].transaction => cache'[b].original \in Values
                      /\ ~cache'[b].transaction =>
                           /\ cache'[b].original \in {NULL, cache'[b].current}
                           /\ cache'[b].parent = NULL
                      /\ Prior(b)' = Last(finished)[b]
                      /\ cache'[b].previous = NO_TRANSACTION => disk[b] = Old(b)'
                      /\ Old(b)' = finished[logged][b]
    BY <1>1 DEF CacheInv, diskVars
  <2>1. Prior(b)' = cache[b].current
    BY <1>1, <1>4, BlockTypes DEF Prior
  <2> QED
    BY <1>1, <1>4, <1>5, <1>6, <2>1, BlockTypes
<1>11. NotifyInv'
  <2>1. CASE fUnwrittenTransactions > 0
    <3>1. Unlogged
      BY <1>1, <2>1 DEF Unlogged, Closing
    <3> QED
      BY <1>1, <1>6, <2>1, <3>1, InvParts, SameNotify DEF logVars
  <2>2. CASE fUnwrittenTransactions = 0
    <3>1. fTransactionID' = fTransactionID + 1 /\ EntryIDs' = EntryIDs
      BY <1>1, <2>2 DEF EntryIDs, logVars
    <3>2. ASSUME NEW id \in EntryIDs
          PROVE  id <= fTransactionID' /\ id # fTransactionID'
      <4>1. id <= fTransactionID
        BY <1>1, InvParts DEF NotifyInv
      <4>2. id \in Nat
        <5>1. PICK i \in DOMAIN fEntries : id = fEntries[i].id
          BY DEF EntryIDs
        <5>2. fEntries[i] \in LogEntries
          BY InvParts DEF Types
        <5> QED
          BY <5>1, <5>2, JournalConstants DEF LogEntries
      <4> QED
        BY <1>7, <3>1, <4>1, <4>2
    <3> QED
      BY <1>1, <1>6, <3>1, <3>2, InvParts DEF NotifyInv
  <2> QED
    BY <1>2, <2>1, <2>2
<1> QED
  BY <1>1, <1>6, <1>8, <1>9, <1>10, <1>11, InvParts, InvNext

LEMMA ChangeStep ==
  ASSUME Inv, NEW b \in Blocks, Change(b)
  PROVE  Inv'
<1>1. /\ pc = "open" /\ pc' = "open" /\ pc # "replay"
      /\ UNCHANGED <<diskVars, logVars, writer, pending_notifications, hook>>
      /\ UNCHANGED <<sync, task, transactionVars, ghostVars>>
      /\ cache' = get_writable_cached_block(cache, b, started)
  BY DEF Change
<1>2. sync = "none" /\ started \in Values
  BY <1>1, InvParts DEF ControlInv, Types
<1>3. \A x \in Blocks \ {b} : cache'[x] = cache[x]
  BY <1>1, InvParts DEF get_writable_cached_block, Types
<1>4. /\ cache'[b] \in CachedBlocks
      /\ cache'[b].transaction /\ cache'[b].current = started
      /\ cache'[b].original = Old(b) /\ cache'[b].previous = cache[b].previous
      /\ cache'[b].parent = IF cache[b].parent = CURRENT_DATA THEN cache[b].current
                            ELSE cache[b].parent
  <2> DEFINE c == cache[b]
  <2>1. c \in CachedBlocks
    BY <1>1, BlockTypes
  <2>2. cache'[b] = [c EXCEPT !.transaction = TRUE,
                       !.original = IF @ = NULL THEN c.current ELSE @,
                       !.parent = IF @ = CURRENT_DATA THEN c.current ELSE @,
                       !.current = started]
    BY <1>1, InvParts DEF get_writable_cached_block, Types
  <2>3. (IF c.original = NULL THEN c.current ELSE c.original) = Old(b)
        /\ Old(b) \in Values
    BY <1>1, BlockTypes DEF Old
  <2>4. (IF c.parent = CURRENT_DATA THEN c.current ELSE c.parent)
           \in Buffers \cup {CURRENT_DATA}
    BY <2>1, <1>1, BlockTypes DEF CachedBlocks
  <2>5. started \in Buffers /\ Old(b) \in Buffers
    BY <1>2, <2>3 DEF Buffers
  <2> HIDE DEF c
  <2> QED
    BY <2>1, <2>2, <2>3, <2>4, <2>5 DEF CachedBlocks, c
<1>5. \A x \in Blocks : Old(x)' = Old(x) /\ cache'[x].previous = cache[x].previous
  <2>1. Old(b)' = Old(b)
    BY <1>4 DEF Old
  <2> QED
    BY <1>3, <1>4, <2>1 DEF Old
<1>6. /\ WriterInv' /\ SyncInv' /\ PointerInv' /\ EntriesInv' /\ EntryInv' /\ LogInv'
      /\ SameLog /\ Awaited' = Awaited /\ ~EntryLogged /\ ~EntryLogged'
  BY <1>1, <1>2, <1>5, ClientFrame
<1>7. Types'
  <2>1. cache' \in [Blocks -> CachedBlocks]
    <3>1. cache' = [x \in Blocks |-> cache'[x]]
      BY <1>1, InvParts DEF get_writable_cached_block, Types
    <3>2. \A x \in Blocks : cache'[x] \in CachedBlocks
      BY <1>3, <1>4, InvParts DEF Types
    <3> QED
      BY <3>1, <3>2
  <2> QED
    BY <1>1, <2>1, InvParts DEF Types, Labels, diskVars, logVars, transactionVars, ghostVars
<1>8. ControlInv'
  BY <1>1, <1>2, InvParts DEF ControlInv, transactionVars, ghostVars, logVars, Logging, Closing
<1>9. CacheInv'
  <2> SUFFICES ASSUME NEW x \in Blocks
               PROVE  /\ cache'[x].current \in Values
                      /\ cache'[x].transaction => cache'[x].original \in Values
                      /\ ~cache'[x].transaction =>
                           /\ cache'[x].original \in {NULL, cache'[x].current}
                           /\ cache'[x].parent = NULL
                      /\ Prior(x)' = Last(finished)[x]
                      /\ cache'[x].previous = NO_TRANSACTION => disk[x] = Old(x)'
                      /\ Old(x)' = finished[logged][x]
    BY <1>1 DEF CacheInv, diskVars, ghostVars
  <2>1. fHasSubtransaction' = fHasSubtransaction
    BY <1>1 DEF transactionVars
  <2>2. CASE x # b
    <3>1. cache'[x] = cache[x] /\ Prior(x)' = Prior(x)
      BY <1>3, <2>1, <2>2 DEF Prior
    <3> QED
      BY <1>1, <1>5, <1>6, <3>1, BlockTypes
  <2>3. CASE x = b
    <3>1. Old(b) \in Values
      BY <1>1, BlockTypes DEF Old
    <3>2. Prior(b)' = Prior(b)
      BY <1>1, <1>4, <2>1, BlockTypes DEF Prior, Old
    <3> QED
      BY <1>1, <1>2, <1>4, <1>5, <1>6, <2>3, <3>1, <3>2, BlockTypes
  <2> QED
    BY <2>2, <2>3
<1>10. NotifyInv'
  <2>1. Unlogged' => Unlogged
    BY <1>1 DEF Unlogged, transactionVars
  <2> QED
    BY <1>1, <1>6, <2>1, InvParts, SameNotify DEF logVars, transactionVars
<1> QED
  BY <1>1, <1>6, <1>7, <1>8, <1>9, <1>10, InvParts, InvNext

LEMMA DoneStep ==
  ASSUME Inv, Done
  PROVE  Inv'
<1> DEFINE volume == [b \in Blocks |-> cache[b].current]
<1>1. /\ pc = "open" /\ pc' \in {"batch", "unlocked", "log"} /\ pc # "replay"
      /\ finished' = Append(finished, volume)
      /\ UNCHANGED <<diskVars, logVars, writer, pending_notifications, hook>>
      /\ UNCHANGED <<fTransactionID, fHasSubtransaction, task, started, crashes, logged, cache>>
      /\ \/ pc' = "batch" /\ sync' = "start"
            /\ fUnwrittenTransactions' = fUnwrittenTransactions
         \/ pc' = "unlocked" /\ sync' = sync
            /\ fUnwrittenTransactions' = fUnwrittenTransactions + 1
         \/ pc' = "log" /\ sync' = sync
            /\ fUnwrittenTransactions' = fUnwrittenTransactions
  BY DEF Done, cacheVars
<1>2. sync = "none" /\ fUnwrittenTransactions \in Nat
  BY <1>1, InvParts DEF ControlInv, Types
<1>3. \A b \in Blocks : Old(b)' = Old(b) /\ cache'[b].previous = cache[b].previous
  BY <1>1 DEF Old
<1>4. /\ WriterInv' /\ SyncInv' /\ PointerInv' /\ EntriesInv' /\ EntryInv' /\ LogInv'
      /\ SameLog /\ Awaited' = Awaited /\ ~EntryLogged /\ ~EntryLogged'
  BY <1>1, <1>2, <1>3, ClientFrame
<1>5. volume \in [Blocks -> Values]
  BY <1>1, BlockTypes
<1>6. finished \in Seq([Blocks -> Values]) /\ logged \in 1 .. Len(finished)
      /\ Len(finished) \in Nat
  BY InvParts, LenProperties DEF Types
<1> HIDE DEF volume
<1>7. /\ finished' \in Seq([Blocks -> Values]) /\ Len(finished') = Len(finished) + 1
      /\ logged \in 1 .. Len(finished')
      /\ finished'[logged] = finished[logged] /\ Last(finished') = volume
  <2>1. /\ finished' \in Seq([Blocks -> Values]) /\ Len(finished') = Len(finished) + 1
        /\ finished'[logged] = finished[logged] /\ finished'[Len(finished) + 1] = volume
    BY <1>1, <1>5, <1>6, AppendProperties
  <2> QED
    BY <1>6, <2>1 DEF Last
<1>8. Types'
  BY <1>1, <1>2, <1>7, InvParts DEF Types, Labels, diskVars, logVars
<1>9. ControlInv'
  BY <1>1, <1>2, InvParts DEF ControlInv, Logging, Closing
<1>10. CacheInv'
  <2> SUFFICES ASSUME NEW b \in Blocks
               PROVE  /\ cache[b].current \in Values
                      /\ cache[b].transaction => cache[b].original \in Values
                      /\ ~cache[b].transaction =>
                           /\ cache[b].original \in {NULL, cache[b].current}
                           /\ cache[b].parent = NULL
                      /\ cache[b].current = volume[b]
                      /\ cache[b].previous = NO_TRANSACTION => disk[b] = Old(b)'
                      /\ Old(b)' = finished[logged][b]
    BY <1>1, <1>7 DEF CacheInv, diskVars
  <2> QED
    BY <1>1, <1>3, <1>4, BlockTypes DEF volume
<1>11. NotifyInv'
  <2>1. Unlogged' => Unlogged
    BY <1>1 DEF Unlogged
  <2> QED
    BY <1>1, <1>4, <2>1, InvParts, SameNotify DEF logVars
<1> QED
  BY <1>1, <1>4, <1>8, <1>9, <1>10, <1>11, InvParts, InvNext

(* What is left of the finished transactions after a crash, or when one    *)
(* that could not be logged is aborted                                     *)
LEMMA LoggedPrefix ==
  ASSUME NEW S, NEW f \in Seq(S), NEW n \in 1 .. Len(f)
  PROVE  /\ SubSeq(f, 1, n) \in Seq(S) /\ Len(SubSeq(f, 1, n)) = n
         /\ SubSeq(f, 1, n)[n] = f[n]
<1>1. Len(f) \in Nat /\ \A i \in 1 .. n : f[i] \in S
  BY LenProperties
<1>2. /\ SubSeq(f, 1, n) \in Seq(S) /\ Len(SubSeq(f, 1, n)) = n - 1 + 1
      /\ \A i \in 1 .. n - 1 + 1 : SubSeq(f, 1, n)[i] = f[1 + i - 1]
  BY <1>1, SubSeqProperties
<1>3. n \in 1 .. n - 1 + 1 /\ 1 + n - 1 = n /\ n - 1 + 1 = n
  BY <1>1
<1> QED
  BY <1>2, <1>3

LEMMA AbortStep ==
  ASSUME Inv, Abort
  PROVE  Inv'
<1>1. /\ pc \in {"open", "failed"} /\ pc' = "unlocked" /\ pc # "replay"
      /\ UNCHANGED <<diskVars, logVars, writer, pending_notifications, hook>>
      /\ UNCHANGED <<fTransactionID, fHasSubtransaction, task, sync, started, crashes, logged>>
      /\ \/ fHasSubtransaction /\ cache' = cache_abort_sub_transaction(cache)
            /\ fUnwrittenTransactions' = fUnwrittenTransactions /\ finished' = finished
         \/ ~fHasSubtransaction /\ cache' = cache_abort_transaction(cache)
            /\ fUnwrittenTransactions' = 0 /\ finished' = SubSeq(finished, 1, logged)
  BY DEF Abort
<1>2. /\ sync = "none" /\ fUnwrittenTransactions \in Nat
      /\ fHasSubtransaction => pc = "open" /\ fUnwrittenTransactions > 0 /\ fTransactionID > 0
  BY <1>1, InvParts DEF ControlInv, Types
<1>3. ASSUME NEW b \in Blocks
      PROVE  /\ cache'[b] \in CachedBlocks /\ cache'[b].current = Prior(b)
             /\ cache'[b].current \in Values
             /\ cache'[b].transaction => cache[b].transaction /\ fHasSubtransaction
                                         /\ cache'[b].original = cache[b].original
             /\ ~cache'[b].transaction =>
                  /\ cache'[b].original \in {NULL, cache'[b].current}
                  /\ cache'[b].parent = NULL
                  /\ cache'[b].current = Old(b)
             /\ cache'[b].previous = cache[b].previous
  <2> DEFINE c == cache[b]
  <2>1. c \in CachedBlocks
    BY <1>1, BlockTypes
  <2>2. /\ c.current \in Values
        /\ c.parent \in Values \cup {NULL, CURRENT_DATA}
        /\ c.transaction => c.original \in Values
        /\ ~c.transaction => c.original \in {NULL, c.current} /\ c.parent = NULL
        /\ NULL \notin Values /\ CURRENT_DATA \notin Values /\ NULL # CURRENT_DATA
        /\ NULL \in Buffers /\ Values \subseteq Buffers
    BY <1>1, BlockTypes
  <2>3. CASE ~c.transaction
    <3>1. cache'[b] = c
      BY <1>1, <2>3 DEF cache_abort_sub_transaction, cache_abort_transaction
    <3> QED
      BY <2>1, <2>2, <2>3, <3>1 DEF Prior, Old
  <2>4. CASE c.transaction /\ fHasSubtransaction /\ c.parent = NULL
    <3>1. cache'[b] = [c EXCEPT
                         !.current = IF c.original # NULL THEN c.original ELSE @,
                         !.original = IF c.previous = NO_TRANSACTION THEN NULL ELSE @,
                         !.transaction = FALSE]
      BY <1>1, <2>4 DEF cache_abort_sub_transaction, AbortedSubBlock
    <3>2. Prior(b) = c.original /\ Old(b) = c.original
      BY <2>4 DEF Prior, Old
    <3> HIDE DEF c
    <3>3. /\ cache'[b].current = c.original /\ ~cache'[b].transaction
          /\ cache'[b].previous = c.previous /\ cache'[b].parent = NULL
          /\ cache'[b].original \in {NULL, c.original}
          /\ cache'[b] \in CachedBlocks
      BY <2>1, <2>2, <2>4, <3>1, ZenonT(60) DEF CachedBlocks
    <3> QED
      BY <2>2, <2>4, <3>2, <3>3, SMTT(30) DEF c
  <2>5. CASE c.transaction /\ fHasSubtransaction /\ c.parent # NULL
    <3>1. cache'[b] = [c EXCEPT
                         !.current = IF c.parent # CURRENT_DATA THEN c.parent ELSE @,
                         !.parent = NULL]
      BY <1>1, <2>5 DEF cache_abort_sub_transaction, AbortedSubBlock
    <3>2. Prior(b) = IF c.parent # CURRENT_DATA THEN c.parent ELSE c.current
      BY <2>5 DEF Prior
    <3> HIDE DEF c
    <3>3. /\ cache'[b].current = (IF c.parent # CURRENT_DATA THEN c.parent ELSE c.current)
          /\ cache'[b].transaction
          /\ cache'[b].previous = c.previous /\ cache'[b].original = c.original
          /\ cache'[b] \in CachedBlocks /\ cache'[b].current \in Values
      BY <2>1, <2>2, <2>5, <3>1, ZenonT(60) DEF CachedBlocks
    <3> QED
      BY <2>2, <2>5, <3>2, <3>3 DEF c
  <2>6. CASE c.transaction /\ ~fHasSubtransaction
    <3>1. cache'[b] = [c EXCEPT
                         !.current = IF c.original # NULL THEN c.original ELSE @,
                         !.original = NULL, !.parent = NULL, !.transaction = FALSE]
      BY <1>1, <2>6 DEF cache_abort_transaction
    <3>2. Prior(b) = c.original /\ Old(b) = c.original
      BY <2>6 DEF Prior, Old
    <3> HIDE DEF c
    <3>3. /\ cache'[b].current = c.original /\ ~cache'[b].transaction
          /\ cache'[b].previous = c.previous /\ cache'[b].parent = NULL
          /\ cache'[b].original = NULL
          /\ cache'[b] \in CachedBlocks
      BY <2>1, <2>2, <2>6, <3>1, ZenonT(60) DEF CachedBlocks
    <3> QED
      BY <2>2, <2>6, <3>2, <3>3 DEF c
  <2> QED
    BY <2>3, <2>4, <2>5, <2>6
<1>4. \A b \in Blocks : Old(b)' = Old(b) /\ cache'[b].previous = cache[b].previous
  BY <1>3 DEF Old
<1>5. /\ WriterInv' /\ SyncInv' /\ PointerInv' /\ EntriesInv' /\ EntryInv' /\ LogInv'
      /\ SameLog /\ Awaited' = Awaited /\ ~EntryLogged /\ ~EntryLogged'
  BY <1>1, <1>2, <1>4, ClientFrame
<1>6. /\ finished' \in Seq([Blocks -> Values]) /\ logged \in 1 .. Len(finished')
      /\ finished'[logged] = finished[logged]
      /\ fHasSubtransaction => finished' = finished
      /\ ~fHasSubtransaction => Len(finished') = logged
  <2>1. finished \in Seq([Blocks -> Values]) /\ logged \in 1 .. Len(finished)
    BY InvParts DEF Types
  <2>2. /\ SubSeq(finished, 1, logged) \in Seq([Blocks -> Values])
        /\ Len(SubSeq(finished, 1, logged)) = logged
        /\ SubSeq(finished, 1, logged)[logged] = finished[logged]
    BY <2>1, LoggedPrefix
  <2>3. logged \in 1 .. logged
    BY <2>1
  <2> QED
    BY <1>1, <2>1, <2>2, <2>3
<1>7. Types'
  <2>1. cache' \in [Blocks -> CachedBlocks]
    <3>1. cache' = [b \in Blocks |-> cache'[b]]
      BY <1>1 DEF cache_abort_sub_transaction, cache_abort_transaction
    <3> QED
      BY <1>3, <3>1
  <2> QED
    BY <1>1, <1>2, <1>6, <2>1, InvParts DEF Types, Labels, diskVars, logVars
<1>8. ControlInv'
  <2>1. ~fHasSubtransaction => InTransaction(cache)' = {}
    BY <1>3 DEF InTransaction
  <2> QED
    BY <1>1, <1>2, <1>6, <2>1 DEF ControlInv, Logging, Closing
<1>9. CacheInv'
  <2> SUFFICES ASSUME NEW b \in Blocks
               PROVE  /\ cache'[b].current \in Values
                      /\ cache'[b].transaction => cache'[b].original \in Values
                      /\ ~cache'[b].transaction =>
                           /\ cache'[b].original \in {NULL, cache'[b].current}
                           /\ cache'[b].parent = NULL
                      /\ cache'[b].current = Last(finished')[b]
                      /\ cache'[b].previous = NO_TRANSACTION => disk[b] = Old(b)'
                      /\ Old(b)' = finished[logged][b]
    BY <1>1, <1>6 DEF CacheInv, diskVars
  <2>1. CASE fHasSubtransaction
    BY <1>1, <1>2, <1>3, <1>4, <1>5, <1>6, <2>1, BlockTypes
  <2>2. CASE ~fHasSubtransaction
    <3>1. ~cache'[b].transaction /\ cache'[b].current = Old(b)
      BY <1>3, <2>2
    <3>2. Old(b) = finished[logged][b] /\ Last(finished') = finished[logged]
      BY <1>1, <1>5, <1>6, <2>2, BlockTypes DEF Last
    <3> QED
      BY <1>1, <1>3, <1>4, <3>1, <3>2, BlockTypes
  <2> QED
    BY <2>1, <2>2
<1>10. NotifyInv'
  <2>1. Unlogged' => Unlogged
    <3>1. fHasSubtransaction => Unlogged
      BY <1>2 DEF Unlogged
    <3>2. ~fHasSubtransaction => ~Unlogged'
      BY <1>1 DEF Unlogged, Logging
    <3> QED
      BY <3>1, <3>2
  <2> QED
    BY <1>1, <1>5, <2>1, InvParts, SameNotify DEF logVars
<1> QED
  BY <1>1, <1>5, <1>7, <1>8, <1>9, <1>10, InvParts, InvNext

-----------------------------------------------------------------------------
(* _TransactionWritten() *)

LEMMA HookFrame ==
  ASSUME Inv, pc # "replay", writer["notifier"].busy = {},
         UNCHANGED <<disk, log, LogEnd, entry, pc, task, sync, cache, writer,
                     transactionVars, started, crashes, finished>>,
         EntryLogged' \/ (~EntryLogged /\ logged' = logged),
         pc # "log_super" => logged' = logged
  PROVE  /\ ControlInv' /\ CacheInv' /\ WriterInv' /\ SameTransaction
         /\ (\A b : Old(b)' = Old(b)) /\ (\A b : Committed(b)' = Committed(b))
         /\ (Unlogged' <=> Unlogged) /\ Awaited' = Awaited
<1>1. cache' = cache /\ disk' = disk /\ pc' = pc /\ entry' = entry /\ sync' = sync
      /\ finished' = finished /\ writer' = writer
      /\ fTransactionID' = fTransactionID /\ fHasSubtransaction' = fHasSubtransaction
      /\ fUnwrittenTransactions' = fUnwrittenTransactions
  BY DEF transactionVars
<1>2. (\A b : Old(b)' = Old(b)) /\ (\A b : Committed(b)' = Committed(b))
      /\ (\A b : Prior(b)' = Prior(b))
      /\ (Unlogged' <=> Unlogged) /\ Awaited' = Awaited /\ SameTransaction
  BY <1>1 DEF Old, Committed, Prior, Unlogged, Awaited, SameTransaction
<1>3. ControlInv'
  <2>1. pc \in {"unlocked", "open", "flush"} => logged' = logged
    OBVIOUS
  <2> QED
    BY <1>1, <2>1, InvParts DEF ControlInv
<1>4. CacheInv'
  BY <1>1, <1>2, InvParts DEF CacheInv
<1>5. WriterInv'
  BY <1>1, <1>2, InvParts DEF WriterInv, BlocksInPreviousTransaction
<1> QED
  BY <1>2, <1>3, <1>4, <1>5

(* What is left of the list when an entry is removed from it               *)
Shortened(f, e, k) ==
  /\ f \in Seq(LogEntries) /\ k \in DOMAIN e /\ Len(f) = Len(e) - 1
  /\ DOMAIN f = 1 .. Len(e) - 1
  /\ \A j \in DOMAIN f : f[j] = e[IF j < k THEN j ELSE j + 1]

LEMMA EntryRemoved ==
  ASSUME Types, EntriesInv, NEW id \in EntryIDs
  PROVE  \E k \in DOMAIN fEntries :
           /\ fEntries[k].id = id
           /\ fEntries[1].id = id <=> k = 1
           /\ Shortened(RemoveFirstMatch(fEntries, LAMBDA e : e.id = id), fEntries, k)
<1> DEFINE n == Len(fEntries)
           I == {i \in 1 .. n : fEntries[i].id = id}
<1>1. fEntries \in Seq(LogEntries) /\ n \in Nat /\ DOMAIN fEntries = 1 .. n
  BY LenProperties DEF Types
<1>2. PICK k \in DOMAIN fEntries : fEntries[k].id = id
  BY DEF EntryIDs
<1>3. ASSUME NEW i \in 1 .. n
      PROVE  fEntries[i].id \in Nat
  <2>1. fEntries[i] \in LogEntries
    BY <1>1
  <2> QED
    BY <2>1, JournalConstants DEF LogEntries
<1>4. ASSUME NEW i \in 1 .. n, fEntries[i].id = id
      PROVE  i = k
  <2>1. (i < k => fEntries[i].id < fEntries[k].id) /\ (k < i => fEntries[k].id < fEntries[i].id)
    BY <1>1 DEF EntriesInv
  <2> QED
    BY <1>1, <1>2, <1>3, <1>4, <2>1
<1>5. I = {k} /\ I \in SUBSET Nat /\ I # {}
  BY <1>1, <1>2, <1>4
<1>6. Min(I) = k
  BY <1>5, LeastNat
<1>7. SelectInSeq(fEntries, LAMBDA e : e.id = id) = k
  BY <1>5, <1>6 DEF SelectInSeq
<1>8. RemoveFirstMatch(fEntries, LAMBDA e : e.id = id) = RemoveAt(fEntries, k)
  BY <1>1, <1>2, <1>7 DEF RemoveFirstMatch
<1>9. fEntries[1].id = id <=> k = 1
  BY <1>1, <1>2, <1>4
<1>10. Shortened(RemoveAt(fEntries, k), fEntries, k)
  <2> DEFINE f == RemoveAt(fEntries, k)
  <2>1. f \in Seq(LogEntries) /\ Len(f) = n - 1
        /\ \A j \in 1 .. n - 1 : f[j] = fEntries[IF j < k THEN j ELSE j + 1]
    BY <1>1, RemoveAtMembers
  <2>2. DOMAIN f = 1 .. n - 1
    BY <2>1, LenProperties
  <2> HIDE DEF f
  <2>3. Shortened(f, fEntries, k)
    BY <2>1, <2>2 DEF Shortened
  <2> QED
    BY <2>3 DEF f
<1> QED
  BY <1>2, <1>8, <1>9, <1>10

LEMMA TransactionWrittenStep ==
  ASSUME Inv, TransactionWritten, Ordinary
  PROVE  Inv'
<1> DEFINE id == Head(pending_notifications)
           first == fEntries[1].id = id
<1>1. /\ writer["notifier"] = Idle /\ hook = "none"
      /\ pending_notifications # <<>> /\ id # SYNC
      /\ superBlock' = IF ~first THEN superBlock
                       ELSE [superBlock EXCEPT !.log_start =
                               IF Len(fEntries) > 1 THEN fEntries[2].start % LogSize
                               ELSE LogEnd]
      /\ hook' = IF first THEN "super" ELSE "none"
      /\ fEntries' = RemoveFirstMatch(fEntries, LAMBDA e : e.id = id)
      /\ pending_notifications' = Tail(pending_notifications)
      /\ UNCHANGED <<disk, log, LogEnd, entry, pc, task, sync, cache, writer,
                     transactionVars, started, crashes, finished>>
      /\ UNCHANGED <<superBlockOnDisk, LogStart, logged>>
  BY DEF TransactionWritten, NotifierFree, diskVars, ghostVars
<1>2. pc # "replay"
  BY <1>1 DEF Inv, ReplayInv
<1>3. pending_notifications \in Seq(Values) /\ IsInjective(pending_notifications)
  BY <1>2, InvParts DEF Types, NotifyInv
<1>4. /\ pending_notifications' \in Seq(Values) /\ IsInjective(pending_notifications')
      /\ id \in Range(pending_notifications)
      /\ Range(pending_notifications') = Range(pending_notifications) \ {id}
  BY <1>1, <1>3, TailMembers
<1>5. id \in EntryIDs /\ id \notin Awaited
  BY <1>1, <1>2, <1>4, InvParts DEF NotifyInv
<1>6. ~(pc = "log_add" /\ Len(fEntries) = 1)
  <2> SUFFICES ASSUME pc = "log_add", Len(fEntries) = 1 PROVE FALSE
    OBVIOUS
  <2>1. fEntries[1].id = id
    BY <1>5, InvParts, LenProperties DEF EntryIDs, Types
  <2>2. HookRace
    BY <1>1, <2>1 DEF HookRace
  <2> QED
    BY <2>2 DEF Ordinary
<1>7. PICK k \in DOMAIN fEntries :
        /\ fEntries[k].id = id /\ (first <=> k = 1)
        /\ Shortened(fEntries', fEntries, k)
  BY <1>1, <1>2, <1>5, InvParts, EntryRemoved
<1> HIDE DEF id, first
<1>8. PICK n : n = Len(fEntries)
  OBVIOUS
<1>9. fEntries \in Seq(LogEntries) /\ n \in Nat /\ DOMAIN fEntries = 1 .. n /\ k \in 1 .. n
  BY <1>8, InvParts, LenProperties DEF Types
<1> DEFINE g(j) == IF j < k THEN j ELSE j + 1
<1>10. /\ fEntries' \in Seq(LogEntries) /\ Len(fEntries') = n - 1
       /\ DOMAIN fEntries' = 1 .. n - 1
       /\ \A j \in 1 .. n - 1 : fEntries'[j] = fEntries[g(j)]
  BY <1>7, <1>8 DEF Shortened
<1>11. /\ \A j \in 1 .. n - 1 : g(j) \in 1 .. n /\ g(j) # k
       /\ \A i, j \in 1 .. n - 1 : i < j => g(i) < g(j)
       /\ \A i \in 1 .. n : i # k => \E j \in 1 .. n - 1 : g(j) = i
  <2>1. ASSUME NEW i \in 1 .. n, i # k PROVE \E j \in 1 .. n - 1 : g(j) = i
    <3>1. CASE i < k
      BY <1>9, <3>1
    <3>2. CASE i > k
      <4>1. i - 1 \in 1 .. n - 1 /\ g(i - 1) = i
        BY <1>9, <3>2
      <4> QED
        BY <4>1
    <3> QED
      BY <1>9, <2>1, <3>1, <3>2
  <2> QED
    BY <1>9, <2>1
<1>12. /\ k # 1 => 1 \in 1 .. n - 1 /\ g(1) = 1
       /\ n > 1 => 1 \in 1 .. n - 1 /\ 2 \in 1 .. n /\ (k = 1 => g(1) = 2)
       /\ k # n => n - 1 \in 1 .. n - 1 /\ g(n - 1) = n
  BY <1>9
<1> HIDE DEF g
<1>13. /\ superBlock' \in SuperBlocks /\ superBlock'.log_end = superBlock.log_end
       /\ k # 1 => superBlock' = superBlock
       /\ k = 1 /\ n > 1 => superBlock'.log_start = fEntries[2].start
       /\ k = 1 /\ n <= 1 => superBlock'.log_start = LogEnd
  <2>1. superBlock \in SuperBlocks /\ LogEnd \in Positions
    BY InvParts DEF Types
  <2>2. ASSUME n > 1 PROVE fEntries[2].start \in Positions
                           /\ fEntries[2].start % LogSize = fEntries[2].start
    <3>1. fEntries[2] \in LogEntries
      BY <1>9, <1>12, <2>2
    <3>2. fEntries[2].start \in Positions
      BY <3>1 DEF LogEntries
    <3> QED
      BY <3>2, InvParts, TapeFacts, LogTypes
  <2> QED
    BY <1>1, <1>7, <1>8, <1>9, <2>1, <2>2 DEF SuperBlocks
<1>14. Types'
  BY <1>1, <1>4, <1>10, <1>13, InvParts DEF Types, transactionVars
<1>15. SameLog /\ (EntryLogged' <=> EntryLogged)
  BY <1>1, <1>13 DEF SameLog, EntryLogged
<1>16. /\ ControlInv' /\ CacheInv' /\ WriterInv' /\ SameTransaction
       /\ (\A b : Committed(b)' = Committed(b))
       /\ (Unlogged' <=> Unlogged) /\ Awaited' = Awaited
  <2>1. writer["notifier"].busy = {} /\ (EntryLogged' \/ (~EntryLogged /\ logged' = logged))
    BY <1>1, <1>15 DEF Idle
  <2> QED
    BY <1>1, <1>2, <2>1, HookFrame
<1>17. EntryIDs' = EntryIDs \ {id}
  <2>0. ASSUME NEW i \in 1 .. n, NEW j \in 1 .. n, i # j
        PROVE  fEntries[i].id # fEntries[j].id
    <3>1. fEntries[i] \in LogEntries /\ fEntries[j] \in LogEntries
      BY <1>9
    <3>2. fEntries[i].id \in Nat /\ fEntries[j].id \in Nat
      BY <3>1, JournalConstants DEF LogEntries
    <3>3. (i < j => fEntries[i].id < fEntries[j].id) /\ (j < i => fEntries[j].id < fEntries[i].id)
      BY <1>2, <1>9, InvParts DEF EntriesInv
    <3> QED
      BY <1>9, <2>0, <3>2, <3>3
  <2>1. ASSUME NEW j \in DOMAIN fEntries'
        PROVE  fEntries'[j].id \in EntryIDs \ {id}
    <3>1. j \in 1 .. n - 1 /\ g(j) \in 1 .. n /\ g(j) # k /\ fEntries'[j] = fEntries[g(j)]
      BY <1>10, <1>11
    <3> QED
      BY <1>7, <1>9, <2>0, <3>1 DEF EntryIDs
  <2>2. ASSUME NEW i \in DOMAIN fEntries, fEntries[i].id # id
        PROVE  fEntries[i].id \in EntryIDs'
    <3>1. PICK j \in 1 .. n - 1 : g(j) = i
      BY <1>7, <1>9, <1>11, <2>2
    <3> QED
      BY <1>10, <3>1 DEF EntryIDs
  <2> QED
    BY <2>1, <2>2 DEF EntryIDs
<1>18. NotifyInv'
  <2>1. pc' = pc /\ fTransactionID' = fTransactionID
    BY <1>1 DEF transactionVars
  <2> QED
    BY <1>2, <1>4, <1>5, <1>16, <1>17, <2>1, InvParts DEF NotifyInv
<1>19. SyncInv'
  <2>1. sync = "wait" <=> SYNC \in Range(pending_notifications')
    BY <1>1, <1>2, <1>4, InvParts DEF SyncInv
  <2>2. pc # "flush" => sync # "done"
    BY <1>1, <1>2, InvParts DEF SyncInv
  <2>3. ASSUME sync = "wait", pc # "flush"
        PROVE  Last(pending_notifications') = SYNC
    <3> DEFINE s == pending_notifications
               m == Len(s)
    <3>1. m \in Nat \ {0} /\ s[m] = SYNC /\ s[1] = id
      BY <1>1, <1>2, <1>3, <2>3, InvParts, EmptySeq DEF SyncInv, Last, id
    <3>2. m # 1
      BY <1>1, <3>1
    <3>3. Len(Tail(s)) = m - 1 /\ \A i \in 1 .. Len(Tail(s)) : Tail(s)[i] = s[i + 1]
      BY <1>1, <1>3, HeadTailProperties
    <3> HIDE DEF m, s
    <3>4. m - 1 \in 1 .. m - 1 /\ m - 1 + 1 = m
      BY <3>1, <3>2
    <3>5. Tail(s)[m - 1] = SYNC
      BY <3>1, <3>3, <3>4
    <3> QED
      BY <1>1, <3>3, <3>5 DEF Last, s
  <2> QED
    BY <1>1, <1>2, <2>1, <2>2, <2>3, InvParts DEF SyncInv, Busy
<1>20. PointerInv'
  <2>1. superBlockOnDisk.log_start = LogStart /\ superBlock.log_start = LogStart
    BY <1>1, <1>2, InvParts DEF PointerInv
  <2>2. hook' \in {"none", "super"} /\ (hook' = "none" => superBlock' = superBlock)
    BY <1>1, <1>7, <1>13
  <2>3. /\ LogPosition(entry.start, entry.written)' = LogPosition(entry.start, entry.written)
        /\ Off(LogEnd)' = Off(LogEnd) /\ Off(entry.start)' = Off(entry.start)
    BY <1>1 DEF LogPosition, Off
  <2> QED
    BY <1>1, <1>2, <1>13, <1>15, <2>1, <2>2, <2>3, InvParts DEF PointerInv
<1>21. /\ Tape' = Tape /\ Off(LogEnd)' = Off(LogEnd) /\ Off(entry.start)' = Off(entry.start)
       /\ Tip' = Tip /\ Off(Tip)' = Off(Tip)
       /\ \A j \in 1 .. n - 1 : Start(j)' = Start(g(j))
  BY <1>1, <1>10 DEF Tape, Off, Tip, Start
<1>22. EntriesInv'
  <2>1. superBlock'.log_start = IF fEntries' # <<>> THEN fEntries'[1].start ELSE Tip
    <3>1. CASE k # 1
      <4>1. fEntries # <<>> /\ fEntries' # <<>>
        BY <1>9, <1>10, <1>12, <3>1
      <4> QED
        BY <1>2, <1>10, <1>12, <1>13, <3>1, <4>1, InvParts DEF EntriesInv
    <3>2. CASE k = 1 /\ n > 1
      <4>1. fEntries' # <<>> /\ fEntries'[1] = fEntries[2]
        BY <1>10, <1>12, <3>2
      <4> QED
        BY <1>13, <3>2, <4>1
    <3>3. CASE k = 1 /\ n <= 1
      <4>1. n = 1
        BY <1>9, <3>3
      <4>2. Tip = LogEnd
        BY <1>6, <1>8, <4>1 DEF Tip
      <4>3. fEntries' = <<>>
        BY <1>10, <4>1, EmptySeq
      <4> QED
        BY <1>13, <3>3, <4>2, <4>3
    <3> QED
      BY <1>9, <3>1, <3>2, <3>3
  <2>2. ASSUME NEW j \in DOMAIN fEntries'
        PROVE  IsArray(Tape, Start(j)') /\ Start(j)' < Off(Tip)
    BY <1>2, <1>9, <1>10, <1>11, <1>21, InvParts DEF EntriesInv
  <2>3. ASSUME NEW i \in DOMAIN fEntries', NEW j \in DOMAIN fEntries', i < j
        PROVE  fEntries'[i].id < fEntries'[j].id /\ Start(i)' < Start(j)'
    <3>1. g(i) \in DOMAIN fEntries /\ g(j) \in DOMAIN fEntries /\ g(i) < g(j)
      BY <1>9, <1>10, <1>11, <2>3
    <3>2. fEntries[g(i)].id < fEntries[g(j)].id /\ Start(g(i)) < Start(g(j))
      BY <1>2, <3>1, InvParts DEF EntriesInv
    <3> QED
      BY <1>10, <1>21, <3>2
  <2> QED
    BY <1>1, <1>2, <1>21, <2>1, <2>2, <2>3, InvParts DEF EntriesInv
<1>23. EntryInv'
  BY <1>1, <1>2, <1>15, <1>16, InvParts, SameEntry, LogTypes
<1>24. LogInv'
  <2>1. ASSUME NEW b \in InPrevious(cache)
        PROVE  \E j \in DOMAIN fEntries' : /\ fEntries'[j].id = cache[b].previous
                                           /\ Named(Tape, Start(j)', Off(LogEnd), b)
    <3>1. PICK i \in DOMAIN fEntries : /\ fEntries[i].id = cache[b].previous
                                       /\ Named(Tape, Start(i), Off(LogEnd), b)
      BY <1>2, InvParts DEF LogInv
    <3>2. i # k
      BY <1>5, <1>7, <3>1 DEF Awaited
    <3>3. PICK j \in 1 .. n - 1 : g(j) = i
      BY <1>9, <1>11, <3>2
    <3> QED
      BY <1>10, <1>21, <3>1, <3>3
  <2>2. ASSUME pc \in {"cache_end", "cache_end_written"}
        PROVE  /\ fEntries' # <<>> /\ Last(fEntries').id = fTransactionID
               /\ \A b \in InTransaction(cache) :
                    Named(Tape, Start(Len(fEntries))', Off(LogEnd), b)
    <3>1. /\ fEntries[n].id = fTransactionID
          /\ \A b \in InTransaction(cache) : Named(Tape, Start(n), Off(LogEnd), b)
      BY <1>2, <1>8, <2>2, InvParts DEF LogInv, Last
    <3>2. k # n
      BY <1>2, <1>4, <1>7, <2>2, <3>1, InvParts DEF NotifyInv
    <3>3. n - 1 \in 1 .. n - 1 /\ fEntries'[n - 1] = fEntries[n]
      BY <1>10, <1>12, <3>2
    <3>4. Start(Len(fEntries))' = Start(n)
      BY <1>1, <1>10, <3>3 DEF Start, Off
    <3>5. Last(fEntries') = fEntries[n] /\ fEntries' # <<>>
      BY <1>10, <3>3 DEF Last
    <3> QED
      BY <3>1, <3>4, <3>5
  <2>3. pc' = pc /\ cache' = cache /\ fTransactionID' = fTransactionID
    BY <1>1 DEF transactionVars
  <2> QED
    BY <1>2, <1>16, <1>21, <2>1, <2>2, <2>3, InvParts DEF LogInv
<1> QED
  BY <1>1, <1>2, <1>14, <1>15, <1>16, <1>18, <1>19, <1>20, <1>22, <1>23, <1>24,
     InvParts, InvNext

LEMMA TransactionWrittenSuperBlockStep ==
  ASSUME Inv, TransactionWrittenSuperBlock
  PROVE  Inv'
<1>1. /\ hook = "super" /\ hook' = "log_start" /\ superBlockOnDisk' = superBlock
      /\ logged' = IF pc = "log_super" THEN Len(finished) ELSE logged
      /\ UNCHANGED <<disk, log, LogEnd, entry, pc, task, sync, cache, writer,
                     transactionVars, started, crashes, finished>>
      /\ UNCHANGED <<superBlock, LogStart, fEntries, pending_notifications>>
  BY DEF TransactionWrittenSuperBlock, WriteSuperBlock, logVars
<1>2. pc # "replay" /\ SameLog
  BY <1>1 DEF Inv, ReplayInv, SameLog
<1>3. /\ pc = "log_super" => EntryLogged'
      /\ pc # "log_super" => (EntryLogged' <=> EntryLogged)
  BY <1>1 DEF EntryLogged
<1>4. writer["notifier"].busy = {}
  BY <1>1, <1>2, InvParts DEF WriterInv
<1>5. /\ ControlInv' /\ CacheInv' /\ WriterInv' /\ SameTransaction
      /\ (\A b : Committed(b)' = Committed(b))
      /\ (Unlogged' <=> Unlogged) /\ Awaited' = Awaited
  BY <1>1, <1>2, <1>3, <1>4, HookFrame
<1>6. Types'
  <2>1. logged' \in 1 .. Len(finished)
    BY <1>1, InvParts DEF Types
  <2> QED
    BY <1>1, <2>1, InvParts DEF Types, transactionVars
<1>7. SyncInv'
  <2>1. ~(pc # "flush" /\ sync = "done")
    BY <1>1, <1>2, InvParts DEF SyncInv
  <2> QED
    BY <1>1, <1>2, <2>1, InvParts DEF SyncInv, Busy
<1>8. NotifyInv'
  BY <1>1, <1>2, <1>5, InvParts, SameNotify DEF transactionVars
<1>9. PointerInv'
  <2>1. EntryLogged' => logged' = Len(finished)
    BY <1>1, <1>2, <1>3, InvParts DEF PointerInv
  <2>2. /\ LogPosition(entry.start, entry.written)' = LogPosition(entry.start, entry.written)
        /\ Off(LogEnd)' = Off(LogEnd) /\ Off(entry.start)' = Off(entry.start)
    BY <1>1 DEF LogPosition, Off
  <2> QED
    BY <1>1, <1>2, <2>1, <2>2, InvParts DEF PointerInv
<1>10. EntriesInv' /\ EntryInv' /\ LogInv'
  BY <1>1, <1>2, <1>5, InvParts, SameEntries, SameEntry, SameLogInv, LogTypes
     DEF transactionVars
<1> QED
  BY <1>1, <1>2, <1>5, <1>6, <1>7, <1>8, <1>9, <1>10, InvParts, InvNext

(* The same log, with another beginning                                    *)
LEMMA LogRebased ==
  ASSUME Types, log' = log, NEW s \in Positions, LogStart' = s, NEW d, d = Off(s),
         NEW n \in 0 .. LogSize, d <= n, Chain(Tape, 0, n), Boundary(Tape, d, n)
  PROVE  /\ d \in Nat /\ Tape' \in Tapes /\ Chain(Tape', 0, n - d)
         /\ \A p \in Positions : d <= Off(p) => Distance(s, p) = Off(p) - d
         /\ \A i \in Nat : i + d < LogSize => Tape'[i] = Tape[i + d]
         /\ \A b : \A lo, hi \in Nat : d <= lo /\ d <= hi /\ hi <= n =>
              (Named(Tape', lo - d, hi - d, b) <=> Named(Tape, lo, hi, b))
         /\ \A b, v : LogSays(Tape', 0, n - d, b, v) <=> LogSays(Tape, d, n, b, v)
<1> DEFINE t == TapeOf(log, LogStart)
           u == TapeOf(log, s)
           z == 0
<1>1. log \in [Positions -> LogBlocks] /\ LogStart \in Positions /\ LogSize \in Nat
      /\ Positions \subseteq Nat
  BY LogTypes
<1>2. t = Tape /\ u = Tape' /\ t \in Tapes /\ u \in Tapes
  BY <1>1, TapeType DEF Tape, Tapes
<1>3. d = Distance(LogStart, s) /\ d \in Nat /\ d \in 0 .. n /\ \A p \in Positions : Off(p) \in Nat
  BY <1>1, LogTypes DEF Off
<1>4. \A p \in Positions : d <= Off(p) => Distance(s, p) = Off(p) - d
  <2>1. \A p \in Positions : Distance(LogStart, p) >= d => Distance(s, p) = Distance(LogStart, p) - d
    BY <1>1, <1>3, Rebase
  <2> QED
    BY <1>3, <2>1 DEF Off
<1>5. \A i \in Nat : i + d < LogSize => u[i] = t[i + d]
  BY <1>1, <1>3, Rebase
<1> HIDE DEF t, u
<1>6. Shifted(u, t, d, n) /\ Chain(t, 0, n) /\ Boundary(t, d, n) /\ t \in Tapes /\ u \in Tapes
      /\ d \in 0 .. n
  BY <1>1, <1>2, <1>3, <1>5 DEF Shifted
<1>7. Chain(u, 0, n - d)
  BY <1>6, ChainShift
<1>8. ASSUME NEW b, NEW lo \in Nat, NEW hi \in Nat, d <= lo, d <= hi, hi <= n
      PROVE  Named(u, lo - d, hi - d, b) <=> Named(t, lo, hi, b)
  <2> DEFINE l == lo - d
             h == hi - d
  <2>1. l \in Nat /\ h \in 0 .. n - d /\ l + d = lo /\ h + d = hi
    BY <1>3, <1>8
  <2> HIDE DEF l, h
  <2>2. /\ Named(u, l, h, b) <=> Named(t, l + d, h + d, b)
        /\ LogSays(u, l, h, b, b) <=> LogSays(t, l + d, h + d, b, b)
    BY <1>6, <2>1, SaysShift, ZenonT(60)
  <2>3. Named(u, l, h, b) <=> Named(t, lo, hi, b)
    BY <2>1, <2>2
  <2> QED
    BY <2>3 DEF l, h
<1>9. ASSUME NEW b, NEW v
      PROVE  LogSays(u, 0, n - d, b, v) <=> LogSays(t, d, n, b, v)
  <2> DEFINE h == n - d
  <2>1. z \in Nat /\ h \in 0 .. n - d /\ z + d = d /\ h + d = n
    BY <1>3
  <2> HIDE DEF z, h
  <2>2. LogSays(u, z, h, b, v) <=> LogSays(t, z + d, h + d, b, v)
    BY <1>6, <2>1, SaysShift, ZenonT(60)
  <2>3. LogSays(u, z, h, b, v) <=> LogSays(t, d, n, b, v)
    BY <2>1, <2>2
  <2> QED
    BY <2>3 DEF z, h
<1> QED
  BY <1>2, <1>3, <1>4, <1>5, <1>7, <1>8, <1>9

LEMMA TransactionWrittenLogStartStep ==
  ASSUME Inv, TransactionWrittenLogStart
  PROVE  Inv'
<1>1. /\ hook = "log_start" /\ hook' = "none" /\ LogStart' = superBlock.log_start
      /\ UNCHANGED <<disk, log, LogEnd, entry, pc, task, sync, cache, writer,
                     transactionVars, started, crashes, finished>>
      /\ UNCHANGED <<superBlock, superBlockOnDisk, fEntries, pending_notifications, logged>>
  BY DEF TransactionWrittenLogStart, diskVars, ghostVars
<1>2. pc # "replay"
  BY <1>1 DEF Inv, ReplayInv
<1>3. (EntryLogged' <=> EntryLogged) /\ writer["notifier"].busy = {}
  BY <1>1, <1>2, InvParts DEF EntryLogged, WriterInv
<1>5. /\ ControlInv' /\ CacheInv' /\ WriterInv' /\ SameTransaction
      /\ (\A b : Committed(b)' = Committed(b))
      /\ (Unlogged' <=> Unlogged) /\ Awaited' = Awaited
  BY <1>1, <1>2, <1>3, HookFrame
<1>6. Types'
  BY <1>1, InvParts, LogTypes DEF Types, transactionVars
<1>7. SyncInv'
  <2>1. ~(pc # "flush" /\ sync = "done")
    BY <1>1, <1>2, InvParts DEF SyncInv
  <2> QED
    BY <1>1, <1>2, <2>1, InvParts DEF SyncInv, Busy
<1>8. NotifyInv'
  BY <1>1, <1>2, <1>5, InvParts, SameNotify DEF transactionVars
<1>9. PICK s, d, n, o : s = superBlock.log_start /\ d = Off(superBlock.log_start)
                        /\ n = Off(LogEnd) /\ o = Off(Tip)
  OBVIOUS
<1>10. /\ s \in Positions /\ d \in Nat /\ n \in Nat /\ n \in 0 .. LogSize /\ n < LogSize /\ o \in Nat
       /\ d <= o /\ o <= n /\ d <= n /\ Boundary(Tape, d, n) /\ Tip \in Positions
       /\ LogSize \in Nat /\ LogEnd \in Positions
       /\ \A i \in DOMAIN fEntries : Start(i) \in Nat /\ Start(i) >= d
  <2>1. /\ d <= o /\ o <= n /\ Tip \in Positions /\ Boundary(Tape, d, n)
        /\ \A i \in DOMAIN fEntries : Start(i) \in Nat /\ Start(i) >= d
    BY <1>2, <1>9, InvParts, LogBegins
  <2>2. /\ s \in Positions /\ d \in Nat /\ n \in Nat /\ n \in 0 .. LogSize /\ o \in Nat /\ n < LogSize
        /\ LogSize \in Nat /\ LogEnd \in Positions
    BY <1>9, <2>1, InvParts, LogTypes
  <2> QED
    BY <2>1, <2>2
<1>11. /\ Chain(Tape', 0, n - d)
       /\ \A p \in Positions : d <= Off(p) => Distance(s, p) = Off(p) - d
       /\ \A i \in Nat : i + d < LogSize => Tape'[i] = Tape[i + d]
       /\ \A b : \A lo, hi \in Nat : d <= lo /\ d <= hi /\ hi <= n =>
            (Named(Tape', lo - d, hi - d, b) <=> Named(Tape, lo, hi, b))
       /\ \A b, v : LogSays(Tape', 0, n - d, b, v) <=> LogSays(Tape, d, n, b, v)
  BY <1>1, <1>9, <1>10, InvParts, LogRebased
<1>12. /\ Off(LogEnd)' = n - d /\ Tip' = Tip /\ Off(Tip)' = o - d
       /\ \A i \in DOMAIN fEntries : Start(i)' = Start(i) - d
  <2>1. Off(LogEnd)' = Distance(s, LogEnd) /\ Tip' = Tip /\ Off(Tip)' = Distance(s, Tip)
    BY <1>1, <1>9 DEF Off, Tip
  <2>2. ASSUME NEW i \in DOMAIN fEntries
        PROVE  Start(i)' = Start(i) - d
    <3>1. fEntries[i] \in LogEntries
      BY InvParts DEF Types
    <3>2. fEntries[i].start \in Positions
      BY <3>1 DEF LogEntries
    <3>3. Start(i)' = Distance(s, fEntries[i].start)
      BY <1>1, <1>9 DEF Start, Off
    <3>4. d <= Off(fEntries[i].start)
      BY <1>10 DEF Start
    <3> QED
      BY <1>11, <3>2, <3>3, <3>4 DEF Start
  <2> QED
    BY <1>9, <1>10, <1>11, <2>1, <2>2
<1>13. Chain(Tape, 0, Off(LogEnd))'
  BY <1>11, <1>12
<1>14. PointerInv'
  <2>1. superBlockOnDisk.log_start = superBlock.log_start
    BY <1>1, <1>2, InvParts DEF PointerInv
  <2>2. ASSUME pc = "log_add"
        PROVE  Off(LogEnd)' = Off(entry.start)' + entry.written
    <3>1. Tip = entry.start /\ n = o + entry.written /\ entry.written \in Nat
      BY <1>2, <1>9, <2>2, InvParts, LogTypes DEF Tip, PointerInv
    <3>2. Off(entry.start)' = o - d
      BY <1>1, <1>12, <3>1 DEF Off
    <3> QED
      BY <1>10, <1>12, <3>1, <3>2
  <2>3. LogPosition(entry.start, entry.written)' = LogPosition(entry.start, entry.written)
    BY <1>1 DEF LogPosition
  <2> QED
    BY <1>1, <1>2, <1>3, <2>1, <2>2, <2>3, InvParts DEF PointerInv
<1>15. EntriesInv'
  <2>1. superBlock.log_start = IF fEntries # <<>> THEN fEntries[1].start ELSE Tip
    BY <1>2, InvParts DEF EntriesInv
  <2>2. ASSUME NEW i \in DOMAIN fEntries
        PROVE  IsArray(Tape', Start(i)') /\ Start(i)' < Off(Tip)'
    <3>1. IsArray(Tape, Start(i)) /\ Start(i) < o /\ Start(i) \in Nat /\ Start(i) >= d
      BY <1>2, <1>9, <1>10, InvParts DEF EntriesInv
    <3>2. Start(i) - d \in Nat /\ (Start(i) - d) + d = Start(i) /\ Start(i) < LogSize
          /\ Start(i) - d < o - d
      BY <1>10, <3>1
    <3>3. Tape'[Start(i) - d] = Tape[Start(i)]
      BY <1>11, <3>2
    <3> QED
      BY <1>12, <3>1, <3>2, <3>3 DEF IsArray
  <2>3. ASSUME NEW i \in DOMAIN fEntries, NEW j \in DOMAIN fEntries, i < j
        PROVE  fEntries[i].id < fEntries[j].id /\ Start(i)' < Start(j)'
    <3>1. fEntries[i].id < fEntries[j].id /\ Start(i) < Start(j)
      BY <1>2, <2>3, InvParts DEF EntriesInv
    <3> QED
      BY <1>10, <1>12, <3>1
  <2>4. ASSUME pc = "log_add" PROVE IsArray(Tape', Off(Tip)')
    <3>1. IsArray(Tape, o)
      BY <1>2, <1>9, <2>4, InvParts DEF EntriesInv
    <3>2. o - d \in Nat /\ (o - d) + d = o /\ o < LogSize
      BY <1>10
    <3> QED
      BY <1>11, <1>12, <3>1, <3>2 DEF IsArray
  <2> QED
    BY <1>1, <1>12, <2>1, <2>2, <2>3, <2>4 DEF EntriesInv
<1>16. EntryInv'
  <2> SUFFICES ASSUME pc \in Logging PROVE EntryInv'
    BY <1>1 DEF EntryInv
  <2>1. /\ n + LogEntryLength < LogSize
        /\ LogPosition(LogEnd, LogEntryLength) # LogSize
        /\ IF pc = "log_write" THEN entry.written < LogEntryLength
           ELSE entry.written = LogEntryLength
        /\ \A i \in 0 .. entry.written - 1 : Tape[n + i] = EntryBlock(i)
    BY <1>2, <1>9, InvParts DEF EntryInv
  <2>2. LogEntryLength' = LogEntryLength
        /\ \A i \in Nat : i < LogEntryLength => EntryBlock(i)' = EntryBlock(i)
    BY <1>5, SameEntryBlocks
  <2>3. LogPosition(LogEnd, LogEntryLength)' = LogPosition(LogEnd, LogEntryLength)
    BY <1>1, <2>2 DEF LogPosition
  <2>4. LogEntryLength \in Nat /\ entry.written \in Nat
    BY EntryFits, InvParts, LogTypes
  <2>5. ASSUME NEW i \in 0 .. entry.written - 1
        PROVE  Tape'[(n - d) + i] = EntryBlock(i)'
    <3>1. i \in Nat /\ i < LogEntryLength /\ (n - d) + i \in Nat /\ ((n - d) + i) + d = n + i
          /\ n + i < LogSize
      BY <1>10, <2>1, <2>4
    <3>2. Tape'[(n - d) + i] = Tape[n + i]
      BY <1>11, <3>1
    <3> QED
      BY <2>1, <2>2, <3>1, <3>2
  <2>6. (n - d) + LogEntryLength < LogSize
    BY <1>10, <2>1, <2>4
  <2> QED
    BY <1>1, <1>12, <2>1, <2>2, <2>3, <2>5, <2>6 DEF EntryInv
<1>17. LogInv'
  <2>1. ASSUME NEW b \in Blocks
        PROVE  LogSays(Tape', 0, n - d, b, Committed(b))
    <3>1. LogSays(Tape, 0, n, b, Committed(b))
      BY <1>2, <1>9, InvParts DEF LogInv
    <3>2. LogSays(Tape, d, n, b, Committed(b))
      BY <1>10, <3>1, SaysLater
    <3> QED
      BY <1>11, <3>2
  <2>2. ASSUME NEW b, NEW lo \in Nat, d <= lo, Named(Tape, lo, n, b)
        PROVE  Named(Tape', lo - d, n - d, b)
    <3>1. n <= n
      BY <1>10
    <3> QED
      BY <1>10, <1>11, <2>2, <3>1
  <2>3. ASSUME NEW b \in InPrevious(cache)
        PROVE  \E i \in DOMAIN fEntries : /\ fEntries[i].id = cache[b].previous
                                          /\ Named(Tape', Start(i)', n - d, b)
    <3>1. PICK i \in DOMAIN fEntries : /\ fEntries[i].id = cache[b].previous
                                       /\ Named(Tape, Start(i), n, b)
      BY <1>2, <1>9, InvParts DEF LogInv
    <3> QED
      BY <1>10, <1>12, <2>2, <3>1
  <2>4. ASSUME pc = "log_add", NEW b \in InTransaction(cache)
        PROVE  Named(Tape', Off(entry.start)', n - d, b)
    <3>1. Named(Tape, o, n, b) /\ Tip = entry.start
      BY <1>2, <1>9, <2>4, InvParts DEF LogInv, Tip
    <3>2. Off(entry.start)' = o - d
      BY <1>1, <1>12, <3>1 DEF Off
    <3> QED
      BY <1>10, <2>2, <3>1, <3>2
  <2>5. ASSUME pc \in {"cache_end", "cache_end_written"}
        PROVE  /\ fEntries # <<>> /\ Last(fEntries).id = fTransactionID
               /\ \A b \in InTransaction(cache) :
                    Named(Tape', Start(Len(fEntries))', n - d, b)
    <3>1. /\ fEntries # <<>> /\ Last(fEntries).id = fTransactionID
          /\ \A b \in InTransaction(cache) :
               Named(Tape, Start(Len(fEntries)), n, b)
      BY <1>2, <1>9, <2>5, InvParts DEF LogInv
    <3>2. PICK k : k = Len(fEntries)
      OBVIOUS
    <3>3. k \in DOMAIN fEntries
      BY <3>1, <3>2, InvParts, EmptySeq, LenProperties DEF Types
    <3>4. Start(Len(fEntries))' = Start(k)'
      BY <1>1, <3>2 DEF Start, Off
    <3> QED
      BY <1>10, <1>12, <2>2, <3>1, <3>2, <3>3, <3>4
  <2>6. fTransactionID' = fTransactionID
    BY <1>1 DEF transactionVars
  <2> QED
    BY <1>1, <1>5, <1>12, <2>1, <2>3, <2>4, <2>5, <2>6 DEF LogInv
<1> QED
  BY <1>1, <1>2, <1>5, <1>6, <1>7, <1>8, <1>13, <1>14, <1>15, <1>16, <1>17, InvParts, InvNext

-----------------------------------------------------------------------------
(* A crash, and the replay of the log *)

LEMMA EmptyCache ==
  ASSUME NEW f \in [Blocks -> Buffers], cache' = [b \in Blocks |-> NewBlock(f[b])]
  PROVE  /\ cache' \in [Blocks -> CachedBlocks]
         /\ InPrevious(cache)' = {} /\ InTransaction(cache)' = {}
<1>1. 0 \in Values /\ NULL \in Buffers /\ NULL \in Buffers \cup {CURRENT_DATA}
  BY JournalConstants DEF Values, Buffers
<1>2. \A b \in Blocks : cache'[b] = NewBlock(f[b]) /\ NewBlock(f[b]) \in CachedBlocks
  BY <1>1 DEF NewBlock, CachedBlocks, NO_TRANSACTION
<1>3. \A b \in Blocks : ~cache'[b].transaction /\ cache'[b].previous = NO_TRANSACTION
  BY <1>2 DEF NewBlock
<1> QED
  BY <1>2, <1>3 DEF InPrevious, InTransaction

LEMMA CrashStep ==
  ASSUME Inv, Crash
  PROVE  Inv'
<1>1. /\ crashes' = crashes + 1
      /\ superBlock' = superBlockOnDisk
      /\ LogStart' = superBlockOnDisk.log_start
      /\ LogEnd' = superBlockOnDisk.log_end
      /\ fEntries' = <<>>
      /\ entry' = [NoEntry EXCEPT !.start = superBlockOnDisk.log_start]
      /\ fUnwrittenTransactions' = 0 /\ fTransactionID' = 0
      /\ fHasSubtransaction' = FALSE
      /\ pc' = "replay" /\ task' = "client" /\ sync' = "none"
      /\ cache' = [b \in Blocks |-> NewBlock(NULL)]
      /\ writer' = [w \in Writers |-> Idle]
      /\ pending_notifications' = <<>> /\ hook' = "none"
      /\ finished' = SubSeq(finished, 1, logged)
      /\ UNCHANGED <<started, logged, disk, log, superBlockOnDisk>>
  BY DEF Crash, diskVars
<1>2. PICK s, e, d, n : /\ s = superBlockOnDisk.log_start /\ e = superBlockOnDisk.log_end
                        /\ d = Off(superBlockOnDisk.log_start)
                        /\ n = Off(superBlockOnDisk.log_end)
  OBVIOUS
<1>3. /\ s \in Positions /\ e \in Positions /\ d \in Nat /\ n \in Nat /\ n \in 0 .. LogSize
      /\ LogSize \in Nat /\ Positions \subseteq Nat /\ log \in [Positions -> LogBlocks]
  BY <1>2, InvParts, LogTypes
<1>4. /\ d <= n /\ Chain(Tape, 0, n) /\ Boundary(Tape, d, n)
      /\ \A b \in Blocks : Recovers(Tape, d, n, disk, b, finished[logged][b])
  BY <1>2, RecoverNow DEF Recoverable
<1>5. /\ Tape' \in Tapes /\ Chain(Tape', 0, n - d)
      /\ \A p \in Positions : d <= Off(p) => Distance(s, p) = Off(p) - d
      /\ \A b : \A lo, hi \in Nat : d <= lo /\ d <= hi /\ hi <= n =>
            (Named(Tape', lo - d, hi - d, b) <=> Named(Tape, lo, hi, b))
      /\ \A b, v : LogSays(Tape', 0, n - d, b, v) <=> LogSays(Tape, d, n, b, v)
  BY <1>1, <1>2, <1>3, <1>4, InvParts, LogRebased
<1>6. /\ LogStart' = s /\ LogEnd' = e /\ entry'.start = s /\ entry'.written = 0
      /\ entry' \in [id : Values, start : Positions, written : Nat]
  <2>1. 0 \in Values
    BY JournalConstants DEF Values
  <2>2. entry' = [id |-> 0, start |-> s, written |-> 0]
    BY <1>1, <1>2 DEF NoEntry, NO_TRANSACTION
  <2>3. s \in Positions /\ 0 \in Nat
    BY <1>3
  <2>4. entry' \in [id : Values, start : Positions, written : Nat]
    BY <2>1, <2>2, <2>3
  <2>5. entry'.start = s /\ entry'.written = 0
    BY <2>2
  <2> QED
    BY <1>1, <1>2, <2>4, <2>5
<1>7. Off(entry.start)' = 0 /\ Off(LogEnd)' = n - d
  <2>1. Distance(s, s) = 0
    BY <1>3, DistanceType
  <2>2. Off(e) = n /\ d <= Off(e)
    BY <1>2, <1>4
  <2>3. Distance(s, e) = n - d
    BY <1>3, <1>5, <2>2
  <2>4. Off(entry.start)' = Distance(s, s) /\ Off(LogEnd)' = Distance(s, e)
    BY <1>6 DEF Off
  <2> QED
    BY <2>1, <2>3, <2>4
<1>8. /\ finished' \in Seq([Blocks -> Values]) /\ Len(finished') = logged
      /\ finished'[logged] = finished[logged] /\ logged \in 1 .. logged
  <2>1. finished \in Seq([Blocks -> Values]) /\ logged \in 1 .. Len(finished)
        /\ Len(finished) \in Nat
    BY InvParts DEF Types
  <2>2. \A i \in 1 .. logged : finished[i] \in [Blocks -> Values]
    BY <2>1, LenProperties
  <2>3. /\ SubSeq(finished, 1, logged) \in Seq([Blocks -> Values])
        /\ Len(SubSeq(finished, 1, logged)) = (IF 1 <= logged THEN logged - 1 + 1 ELSE 0)
        /\ \A i \in 1 .. logged - 1 + 1 : SubSeq(finished, 1, logged)[i] = finished[1 + i - 1]
    BY <2>1, <2>2, SubSeqProperties
  <2>4. logged \in 1 .. logged - 1 + 1 /\ 1 + logged - 1 = logged /\ logged - 1 + 1 = logged
    BY <2>1
  <2>5. finished'[logged] = finished[1 + logged - 1]
    BY <1>1, <2>3, <2>4
  <2> QED
    BY <1>1, <2>1, <2>3, <2>4, <2>5
<1>9. /\ cache' \in [Blocks -> CachedBlocks]
      /\ InPrevious(cache)' = {} /\ InTransaction(cache)' = {}
  <2> DEFINE f == [b \in Blocks |-> NULL]
  <2>1. f \in [Blocks -> Buffers] /\ cache' = [b \in Blocks |-> NewBlock(f[b])]
    BY <1>1 DEF Buffers
  <2> HIDE DEF f
  <2> QED
    BY <2>1, EmptyCache
<1>10. Types'
  <2>1. started \in Values /\ 0 \in 0 .. started /\ superBlockOnDisk \in SuperBlocks
        /\ disk \in [Blocks -> Values] /\ crashes + 1 \in Nat
    BY InvParts DEF Types, Values
  <2>2. writer' \in [Writers -> [busy : SUBSET Blocks, todo : SUBSET Blocks]]
    BY <1>1 DEF Idle
  <2>3. fEntries' \in Seq(LogEntries) /\ pending_notifications' \in Seq(Values)
    BY <1>1, EmptySeq
  <2> QED
    BY <1>1, <1>3, <1>6, <1>8, <1>9, <2>1, <2>2, <2>3 DEF Types, Labels
<1>11. ASSUME NEW b \in Blocks
       PROVE  Recovers(Tape', 0, n - d, disk, b, finished[logged][b])
  <2>1. Recovers(Tape, d, n, disk, b, finished[logged][b])
    BY <1>4
  <2>2. LogSays(Tape', 0, n - d, b, finished[logged][b])
    BY <1>5, <2>1 DEF Recovers
  <2>3. d <= d /\ n <= n /\ d - d = 0
    BY <1>3
  <2>4. Named(Tape', d - d, n - d, b) <=> Named(Tape, d, n, b)
    BY <1>3, <1>4, <1>5, <2>3
  <2> QED
    BY <2>1, <2>2, <2>3, <2>4 DEF Recovers
<1>12. ASSUME NEW b
       PROVE  LogSays(Tape', 0, 1, b, disk[b])
  BY DEF LogSays, Names
<1>13. entry'.start # LogEnd' => IsArray(Tape', 0) /\ 0 <= Len(Tape'[0].runs)
  <2> SUFFICES ASSUME s # e PROVE IsArray(Tape', 0) /\ 0 <= Len(Tape'[0].runs)
    BY <1>6
  <2>1. n - d # 0
    <3>1. \A q \in Positions : Distance(s, s) = Distance(s, q) => s = q
      BY <1>3, DistanceType
    <3>2. Distance(s, s) = 0 /\ Distance(s, e) = n - d
      BY <1>6, <1>7 DEF Off
    <3> QED
      BY <1>3, <3>1, <3>2
  <2>2. 0 < n - d /\ n - d \in 0 .. LogSize /\ 0 \in 0 .. (n - d) - 1
    BY <1>3, <1>4, <2>1
  <2>3. IsArray(Tape', 0)
    BY <1>5, <2>2 DEF Chain
  <2>4. Len(Tape'[0].runs) \in Nat
    BY <1>5, <2>2, ChainFacts
  <2> QED
    BY <2>3, <2>4
<1>14. 0 <= n - d
  BY <1>3, <1>4
<1>15. At' = 0
  BY <1>6, <1>7 DEF At
<1>16. ReplayInv'
  <2>1. (\A b \in Blocks : Recovers(Tape, 0, Off(LogEnd), disk, b, finished[logged][b]))'
    BY <1>1, <1>7, <1>8, <1>11
  <2>2. (\A b \in Blocks : LogSays(Tape, 0, At + 1, b, disk[b]))'
    BY <1>1, <1>12, <1>15
  <2>3. logged' = Len(finished)'
    BY <1>1, <1>8
  <2>4. (IF entry.start = LogEnd THEN entry.written = 0
         ELSE /\ IsArray(Tape, Off(entry.start))
              /\ entry.written <= Len(Tape[Off(entry.start)].runs))'
    BY <1>6, <1>7, <1>13
  <2>5. (Off(entry.start) <= Off(LogEnd))'
    BY <1>7, <1>14
  <2> QED
    BY <1>1, <1>9, <2>1, <2>2, <2>3, <2>4, <2>5 DEF ReplayInv
<1> QED
  BY <1>1, <1>5, <1>7, <1>10, <1>16 DEF Inv

(* Where the replay is *)
LEMMA ReplayFacts ==
  ASSUME Inv, pc = "replay"
  PROVE  /\ ReplayInv /\ Types /\ Tape \in Tapes /\ Chain(Tape, 0, Off(LogEnd))
         /\ Off(LogEnd) \in Nat /\ Off(LogEnd) \in 0 .. LogSize /\ Off(LogEnd) < LogSize
         /\ Off(entry.start) \in Nat /\ entry.written \in Nat /\ LogSize \in Nat
         /\ entry.start \in Positions /\ LogEnd \in Positions
         /\ entry.start = LogEnd => entry.written = 0
         /\ entry.start # LogEnd =>
              /\ Off(entry.start) \in 0 .. Off(LogEnd) - 1
              /\ IsArray(Tape, Off(entry.start))
              /\ RunsAt(entry.start) = Tape[Off(entry.start)].runs
              /\ RunsAt(entry.start) \in Seq(Blocks) /\ Len(RunsAt(entry.start)) \in Nat
              /\ Past(Tape, Off(entry.start)) <= Off(LogEnd)
<1>1. ReplayInv /\ Types /\ Chain(Tape, 0, Off(LogEnd))
  BY DEF Inv
<1>2. /\ Tape \in Tapes /\ Off(LogEnd) \in Nat /\ Off(LogEnd) \in 0 .. LogSize
      /\ Off(entry.start) \in Nat /\ entry.written \in Nat /\ LogSize \in Nat
      /\ entry.start \in Positions /\ LogEnd \in Positions /\ Off(LogEnd) < LogSize
      /\ log \in [Positions -> LogBlocks] /\ LogStart \in Positions
  BY <1>1, LogTypes
<1>3. ASSUME entry.start # LogEnd
      PROVE  /\ Off(entry.start) \in 0 .. Off(LogEnd) - 1
             /\ IsArray(Tape, Off(entry.start))
             /\ RunsAt(entry.start) = Tape[Off(entry.start)].runs
  <2>1. Off(entry.start) # Off(LogEnd)
    BY <1>2, <1>3, TapeFacts
  <2>2. Off(entry.start) <= Off(LogEnd) /\ IsArray(Tape, Off(entry.start))
    BY <1>1, <1>3 DEF ReplayInv
  <2>3. Off(entry.start) \in 0 .. Off(LogEnd) - 1
    BY <1>2, <2>1, <2>2
  <2>4. Tape[Off(entry.start)] = log[entry.start] /\ entry.start % LogSize = entry.start
    BY <1>2, TapeFacts
  <2> QED
    BY <2>2, <2>3, <2>4 DEF RunsAt
<1>4. ASSUME entry.start # LogEnd
      PROVE  /\ RunsAt(entry.start) \in Seq(Blocks) /\ Len(RunsAt(entry.start)) \in Nat
             /\ Past(Tape, Off(entry.start)) <= Off(LogEnd)
  BY <1>1, <1>2, <1>3, <1>4, ChainFacts
<1>5. entry.start = LogEnd => entry.written = 0
  BY <1>1 DEF ReplayInv
<1> QED
  BY <1>1, <1>2, <1>3, <1>4, <1>5

LEMMA ReplayBlockStep ==
  ASSUME Inv, ReplayBlock
  PROVE  Inv'
<1> DEFINE runs == RunsAt(entry.start)
<1>1. /\ pc = "replay" /\ entry.start # LogEnd /\ entry.written < Len(runs)
      /\ disk' = [disk EXCEPT ![runs[entry.written + 1]] =
                    log[(entry.start + 1 + entry.written) % LogSize].data]
      /\ entry' = [entry EXCEPT !.written = @ + 1]
      /\ UNCHANGED <<log, superBlockOnDisk, superBlock, LogStart, LogEnd, fEntries,
                     pc, task, sync, fUnwrittenTransactions, fTransactionID,
                     fHasSubtransaction, cache, writer, pending_notifications, hook,
                     started, crashes, finished, logged>>
  BY DEF ReplayBlock, transactionVars, cacheVars, ghostVars
<1>2. PICK a, n, i, x : /\ a = Off(entry.start) /\ n = Off(LogEnd) /\ i = entry.written + 1
                        /\ x = runs[entry.written + 1]
  OBVIOUS
<1>3. /\ ReplayInv /\ Types /\ Tape \in Tapes /\ Chain(Tape, 0, n)
      /\ n \in Nat /\ n \in 0 .. LogSize /\ n < LogSize
      /\ entry.written \in Nat /\ LogSize \in Nat /\ entry.start \in Positions
      /\ a \in 0 .. n - 1 /\ IsArray(Tape, a) /\ runs = Tape[a].runs
      /\ runs \in Seq(Blocks) /\ Len(runs) \in Nat
  BY <1>1, <1>2, ReplayFacts
<1> HIDE DEF runs
<1>4. i \in 1 .. Len(runs) /\ i \in Nat /\ x = runs[i] /\ x \in Blocks
  <2>1. i \in 1 .. Len(runs) /\ i \in Nat
    BY <1>1, <1>2, <1>3
  <2> QED
    BY <1>2, <1>3, <2>1, LenProperties
<1>5. a + i \in 0 .. n - 1 /\ \A b : Names(Tape, a + i, b) <=> b = x
  <2>1. ASSUME NEW b
        PROVE  a + i \in 0 .. n - 1 /\ (Names(Tape, a + i, b) <=> Tape[a].runs[i] = b)
    BY <1>3, <1>4, ArrayNames
  <2> QED
    BY <1>3, <1>4, <2>1
<1>6. log[(entry.start + 1 + entry.written) % LogSize] = Tape[a + i]
  <2>0. entry.start \in Nat
    BY <1>3, LogTypes
  <2>1. entry.start + 1 + entry.written = entry.start + i
    <3>1. \A p, q \in Nat : p + 1 + q = p + (q + 1)
      OBVIOUS
    <3>2. entry.written \in Nat
      BY <1>3
    <3> QED
      BY <1>2, <2>0, <3>1, <3>2
  <2>2. a + i < LogSize
    BY <1>3, <1>4, <1>5
  <2>3. Tape[a + i] = log[(entry.start + i) % LogSize]
    BY <1>2, <1>3, <1>4, <2>2, TapeFacts, LogTypes
  <2> QED
    BY <2>1, <2>3
<1>7. Tape[a + i].data \in Values
  <2>1. Names(Tape, a + i, x)
    BY <1>5
  <2> QED
    BY <1>3, <1>5, <2>1, NamesArray
<1>8. PICK v : v = Tape[a + i].data
  OBVIOUS
<1>9. /\ disk' \in [Blocks -> Values] /\ disk'[x] = v
      /\ \A b \in Blocks : b # x => disk'[b] = disk[b]
  <2>1. disk' = [disk EXCEPT ![x] = v] /\ disk \in [Blocks -> Values] /\ v \in Values
    BY <1>1, <1>2, <1>3, <1>6, <1>7, <1>8 DEF Types
  <2> QED
    BY <1>4, <2>1
<1>10. /\ entry' \in [id : Values, start : Positions, written : Nat]
       /\ entry'.start = entry.start /\ entry'.written = i
  <2>1. entry \in [id : Values, start : Positions, written : Nat]
    BY <1>3 DEF Types
  <2>2. entry' = [entry EXCEPT !.written = i]
    BY <1>1, <1>2
  <2> QED
    BY <1>4, <2>1, <2>2
<1>11. Types'
  BY <1>1, <1>3, <1>9, <1>10 DEF Types
<1>12. /\ Tape' = Tape /\ Off(LogEnd)' = n /\ Off(entry.start)' = a
  BY <1>1, <1>2, <1>10 DEF Tape, Off
<1>13. At + 1 = a + i /\ At' + 1 = a + i + 1
  BY <1>2, <1>3, <1>10, <1>12 DEF At
<1>14. ASSUME NEW b \in Blocks
       PROVE  Recovers(Tape, 0, n, disk', b, finished[logged][b])
  <2>1. Recovers(Tape, 0, n, disk, b, finished[logged][b])
    BY <1>2, <1>3 DEF ReplayInv
  <2>2. b = x => Named(Tape, 0, n, b)
    BY <1>5 DEF Named
  <2> QED
    BY <1>9, <2>1, <2>2 DEF Recovers
<1>15. ASSUME NEW b \in Blocks
       PROVE  LogSays(Tape, 0, a + i + 1, b, disk'[b])
  <2> DEFINE m == a + i
             k == a + i + 1
             z == 0
  <2>1. LogSays(Tape, z, m, b, disk[b])
    BY <1>3, <1>13 DEF ReplayInv
  <2>2. z \in Nat /\ m \in Nat /\ k \in Nat /\ z <= m /\ m <= k
    BY <1>3, <1>4
  <2>3. m .. k - 1 = {m}
    BY <2>2
  <2>4. \A p \in m .. k - 1 : Names(Tape, p, b) => Tape[p].data = disk'[b]
    BY <1>5, <1>8, <1>9, <2>3
  <2>5. ~Named(Tape, m, k, b) => disk[b] = disk'[b]
    BY <1>5, <1>9, <2>3 DEF Named
  <2> HIDE DEF m, k, z
  <2>6. LogSays(Tape, z, k, b, disk'[b])
    BY <2>1, <2>2, <2>4, <2>5, SaysJoin
  <2> QED
    BY <2>6 DEF z, k
<1>16. ReplayInv'
  <2>1. (\A b \in Blocks : Recovers(Tape, 0, Off(LogEnd), disk, b, finished[logged][b]))'
    BY <1>1, <1>12, <1>14
  <2>2. (\A b \in Blocks : LogSays(Tape, 0, At + 1, b, disk[b]))'
    BY <1>12, <1>13, <1>15
  <2>3. (IF entry.start = LogEnd THEN entry.written = 0
         ELSE /\ IsArray(Tape, Off(entry.start))
              /\ entry.written <= Len(Tape[Off(entry.start)].runs))'
    <3>1. i <= Len(Tape[a].runs)
      BY <1>3, <1>4
    <3> QED
      BY <1>1, <1>3, <1>10, <1>12, <3>1
  <2>4. (Off(entry.start) <= Off(LogEnd))'
    BY <1>3, <1>12
  <2> QED
    BY <1>1, <1>3, <2>1, <2>2, <2>3, <2>4 DEF ReplayInv
<1> QED
  BY <1>1, <1>3, <1>11, <1>12, <1>16 DEF Inv

LEMMA ReplayNextStep ==
  ASSUME Inv, ReplayNext
  PROVE  Inv'
<1>1. /\ pc = "replay" /\ entry.start # LogEnd
      /\ entry.written = Len(RunsAt(entry.start))
      /\ entry' = [entry EXCEPT !.start = NextStart(@), !.written = 0]
      /\ UNCHANGED <<disk, log, superBlockOnDisk, superBlock, LogStart, LogEnd, fEntries,
                     pc, task, sync, fUnwrittenTransactions, fTransactionID,
                     fHasSubtransaction, cache, writer, pending_notifications, hook,
                     started, crashes, finished, logged>>
  BY DEF ReplayNext, diskVars, transactionVars, cacheVars, ghostVars
<1>2. PICK a, n, k, q : /\ a = Off(entry.start) /\ n = Off(LogEnd) /\ k = Past(Tape, Off(entry.start))
                        /\ q = NextStart(entry.start)
  OBVIOUS
<1>3. /\ ReplayInv /\ Types /\ Tape \in Tapes /\ Chain(Tape, 0, n)
      /\ n \in Nat /\ n \in 0 .. LogSize /\ n < LogSize
      /\ entry.written \in Nat /\ LogSize \in Nat /\ entry.start \in Positions /\ LogEnd \in Positions
      /\ a \in 0 .. n - 1 /\ IsArray(Tape, a) /\ RunsAt(entry.start) = Tape[a].runs
      /\ Len(Tape[a].runs) \in Nat /\ k <= n
  BY <1>1, <1>2, ReplayFacts
<1>4. k = a + entry.written + 1 /\ k \in Nat /\ k \in 0 .. n
  BY <1>1, <1>2, <1>3 DEF Past
<1>5. q \in Positions /\ Off(q) = k
  <2> DEFINE d == entry.written + 1
  <2>1. d \in Nat /\ a + d < LogSize /\ a + d = k
    BY <1>3, <1>4
  <2>2. q = (entry.start + d) % LogSize
    <3>1. \A x, y \in Nat : x + y + 1 = x + (y + 1)
      OBVIOUS
    <3>2. entry.written \in Nat /\ entry.start \in Nat
      BY <1>3, LogTypes
    <3>3. entry.start + entry.written + 1 = entry.start + d
      BY <3>1, <3>2
    <3> QED
      BY <1>1, <1>2, <3>3 DEF NextStart
  <2> HIDE DEF d
  <2>3. log \in [Positions -> LogBlocks] /\ LogStart \in Positions
        /\ Off(entry.start) + d < LogSize
    BY <1>2, <1>3, <2>1, LogTypes
  <2>4. (entry.start + d) % LogSize \in Positions
        /\ Off((entry.start + d) % LogSize) = Off(entry.start) + d
    BY <1>3, <2>1, <2>3, TapeFacts
  <2> QED
    BY <1>2, <2>1, <2>2, <2>4
<1>6. Boundary(Tape, k, n)
  <2>1. k < n => IsArray(Tape, k)
    BY <1>2, <1>3, ChainFacts
  <2> QED
    BY <1>3, <1>4, <2>1 DEF Boundary
<1>7. \A b : ~Names(Tape, k, b)
  BY <1>3, <1>4, <1>6, ChainBoundary
<1>8. /\ entry' \in [id : Values, start : Positions, written : Nat]
      /\ entry'.start = q /\ entry'.written = 0
  <2>1. entry \in [id : Values, start : Positions, written : Nat]
    BY <1>3 DEF Types
  <2> QED
    BY <1>1, <1>2, <1>5, <2>1
<1>9. Types'
  BY <1>1, <1>3, <1>8 DEF Types
<1>10. Tape' = Tape /\ Off(LogEnd)' = n /\ Off(entry.start)' = k
  BY <1>1, <1>2, <1>5, <1>8 DEF Tape, Off
<1>11. At + 1 = k /\ At' + 1 = k + 1
  BY <1>2, <1>3, <1>4, <1>8, <1>10 DEF At
<1>12. ASSUME NEW b \in Blocks
       PROVE  LogSays(Tape, 0, k + 1, b, disk[b])
  <2> DEFINE l == k + 1
             z == 0
  <2>1. LogSays(Tape, z, k, b, disk[b])
    BY <1>3, <1>11 DEF ReplayInv
  <2>2. z \in Nat /\ l \in Nat /\ z <= k /\ k <= l
    BY <1>4
  <2>3. k .. l - 1 = {k}
    BY <1>4
  <2>4. \A p \in k .. l - 1 : Names(Tape, p, b) => Tape[p].data = disk[b]
    BY <1>7, <2>3
  <2> HIDE DEF l, z
  <2>5. LogSays(Tape, z, l, b, disk[b])
    BY <1>4, <2>1, <2>2, <2>4, SaysJoin
  <2> QED
    BY <2>5 DEF z, l
<1>13. ReplayInv'
  <2>1. (\A b \in Blocks : Recovers(Tape, 0, Off(LogEnd), disk, b, finished[logged][b]))'
    BY <1>1, <1>2, <1>3, <1>10 DEF ReplayInv
  <2>2. (\A b \in Blocks : LogSays(Tape, 0, At + 1, b, disk[b]))'
    BY <1>1, <1>10, <1>11, <1>12
  <2>3. (IF entry.start = LogEnd THEN entry.written = 0
         ELSE /\ IsArray(Tape, Off(entry.start))
              /\ entry.written <= Len(Tape[Off(entry.start)].runs))'
    <3>1. q # LogEnd => k # n
      BY <1>2, <1>3, <1>5, TapeFacts, LogTypes
    <3>2. ASSUME k # n
          PROVE  IsArray(Tape, k) /\ 0 <= Len(Tape[k].runs)
      <4>1. IsArray(Tape, k) /\ k \in 0 .. n - 1
        BY <1>3, <1>4, <1>6, <3>2 DEF Boundary
      <4>2. Len(Tape[k].runs) \in Nat
        BY <1>3, <4>1, ChainFacts
      <4> QED
        BY <4>1, <4>2
    <3> QED
      BY <1>1, <1>8, <1>10, <3>1, <3>2
  <2>4. (Off(entry.start) <= Off(LogEnd))'
    BY <1>3, <1>10
  <2> QED
    BY <1>1, <1>3, <2>1, <2>2, <2>3, <2>4 DEF ReplayInv
<1> QED
  BY <1>1, <1>3, <1>9, <1>10, <1>13 DEF Inv

(* When the replay has come to the end of the log, what was logged is on   *)
(* the disk.                                                               *)
LEMMA AllReplayed ==
  ASSUME Inv, pc = "replay", entry.start = LogEnd, NEW b \in Blocks
  PROVE  disk[b] = finished[logged][b]
<1>1. PICK n : n = Off(LogEnd)
  OBVIOUS
<1>2. /\ ReplayInv /\ Tape \in Tapes /\ Chain(Tape, 0, n) /\ n \in Nat /\ n \in 0 .. LogSize
      /\ At = n
  <2>1. entry.written = 0 /\ Off(LogEnd) \in Nat
    BY ReplayFacts
  <2> QED
    BY <1>1, <2>1, ReplayFacts DEF At
<1>3. Recovers(Tape, 0, n, disk, b, finished[logged][b]) /\ LogSays(Tape, 0, n + 1, b, disk[b])
  BY <1>1, <1>2 DEF ReplayInv
<1>4. CASE ~Named(Tape, 0, n, b)
  BY <1>3, <1>4 DEF Recovers
<1>5. CASE Named(Tape, 0, n, b)
  <2>1. PICK p \in 0 .. n - 1 : Names(Tape, p, b) /\ ~Named(Tape, p + 1, n, b)
    BY <1>2, <1>5, LastNamed
  <2>2. Tape[p].data = finished[logged][b]
    BY <1>3, <2>1 DEF Recovers, LogSays
  <2>3. n \in 0 .. n /\ Boundary(Tape, n, n)
    BY <1>2 DEF Boundary
  <2>4. ~Names(Tape, n, b)
    BY <1>2, <2>3, ChainBoundary
  <2>5. ~Named(Tape, p + 1, n + 1, b)
    <3> SUFFICES ASSUME NEW r \in p + 1 .. (n + 1) - 1, Names(Tape, r, b) PROVE FALSE
      BY DEF Named
    <3>1. r \in p + 1 .. n - 1 \/ r = n
      BY <1>2
    <3> QED
      BY <2>1, <2>4, <3>1 DEF Named
  <2>6. p \in 0 .. (n + 1) - 1
    BY <1>2
  <2>7. Tape[p].data = disk[b]
    BY <1>3, <2>1, <2>5, <2>6 DEF LogSays
  <2> QED
    BY <2>2, <2>7
<1> QED
  BY <1>4, <1>5

LEMMA EmptyRange == Range(<<>>) = {} /\ IsInjective(<<>>)
BY DEF Range, IsInjective

(* A log that holds nothing *)
LEMMA NothingLogged ==
  ASSUME Types, LogStart = LogEnd
  PROVE  /\ Off(LogEnd) = 0 /\ Chain(Tape, 0, Off(LogEnd))
         /\ \A b, v : LogSays(Tape, 0, Off(LogEnd), b, v)
<1>1. Off(LogEnd) = 0
  BY TapeFacts, LogTypes
<1> QED
  BY <1>1 DEF Chain, LogSays

(* The invariant of a volume that has just been mounted                    *)
Fresh ==
  /\ superBlock = superBlockOnDisk
  /\ superBlock.log_start = LogEnd /\ superBlock.log_end = LogEnd /\ LogStart = LogEnd
  /\ fEntries = <<>> /\ pending_notifications = <<>> /\ hook = "none"
  /\ writer = [w \in Writers |-> Idle] /\ sync = "none"
  /\ fUnwrittenTransactions = 0 /\ ~fHasSubtransaction
  /\ cache = [b \in Blocks |-> NewBlock(disk[b])]
  /\ logged = Len(finished) /\ disk = Last(finished)
  /\ pc = "unlocked"

LEMMA FreshInv == Types /\ Fresh => Inv
<1> SUFFICES ASSUME Types, Fresh PROVE Inv
  OBVIOUS
<1>1. pc = "unlocked" /\ pc \notin Logging /\ pc \notin Closing /\ pc # "replay"
      /\ fEntries = <<>> /\ DOMAIN fEntries = {} /\ ~EntryLogged
  BY DEF Fresh, Logging, Closing, EntryLogged
<1>2. \A b \in Blocks : /\ cache[b].current = disk[b] /\ ~cache[b].transaction
                        /\ cache[b].original = NULL /\ cache[b].parent = NULL
                        /\ cache[b].previous = NO_TRANSACTION
                        /\ disk[b] \in Values
  BY DEF Fresh, NewBlock, Types
<1>3. InPrevious(cache) = {} /\ InTransaction(cache) = {}
  BY <1>2 DEF InPrevious, InTransaction
<1>4. Chain(Tape, 0, Off(LogEnd)) /\ \A b, v : LogSays(Tape, 0, Off(LogEnd), b, v)
  BY NothingLogged DEF Fresh
<1>5. ControlInv
  BY <1>1, <1>3 DEF ControlInv, Fresh
<1>6. CacheInv
  BY <1>1, <1>2 DEF CacheInv, Old, Fresh, Last
<1>7. WriterInv
  <2>1. \A w \in Writers : writer[w].busy = {} /\ writer[w].todo = {}
    BY DEF Fresh, Idle
  <2> QED
    BY <1>1, <2>1 DEF WriterInv, Writers
<1>8. EntryIDs = {} /\ Awaited = {} /\ ~Unlogged
      /\ Range(pending_notifications) = {} /\ IsInjective(pending_notifications)
  BY <1>1, <1>3, EmptyRange DEF EntryIDs, Awaited, Unlogged, Fresh
<1>9. SyncInv /\ NotifyInv
  BY <1>1, <1>8 DEF SyncInv, NotifyInv, Fresh
<1>10. PointerInv
  BY <1>1 DEF PointerInv, Fresh
<1>11. EntriesInv /\ EntryInv
  BY <1>1 DEF EntriesInv, EntryInv, Fresh, Tip
<1>12. LogInv
  BY <1>1, <1>3, <1>4 DEF LogInv
<1> QED
  BY <1>1, <1>4, <1>5, <1>6, <1>7, <1>9, <1>10, <1>11, <1>12 DEF Inv, MountedInv

LEMMA ReplayDoneStep ==
  ASSUME Inv, ReplayDone
  PROVE  Inv'
<1>1. /\ pc = "replay" /\ entry.start = LogEnd
      /\ superBlock' = [superBlock EXCEPT !.log_start = LogEnd]
      /\ LogStart' = LogEnd
      /\ superBlockOnDisk' = superBlock'
      /\ entry' = NoEntry
      /\ cache' = [b \in Blocks |-> NewBlock(disk[b])]
      /\ pc' = "unlocked"
      /\ UNCHANGED <<disk, log, LogEnd, fEntries, task, sync, writer,
                     pending_notifications, hook, fUnwrittenTransactions, fTransactionID,
                     fHasSubtransaction, started, crashes, finished, logged>>
  BY DEF ReplayDone, transactionVars, ghostVars
<1>2. Types /\ ReplayInv
  BY <1>1, ReplayFacts
<1>3. /\ superBlock' \in SuperBlocks
      /\ superBlock'.log_start = LogEnd /\ superBlock'.log_end = LogEnd
  <2>1. superBlock \in SuperBlocks /\ LogEnd \in Positions /\ superBlock.log_end = LogEnd
    BY <1>2 DEF Types, ReplayInv
  <2> QED
    BY <1>1, <2>1 DEF SuperBlocks
<1>4. disk = Last(finished)
  <2>1. disk \in [Blocks -> Values] /\ finished[logged] \in [Blocks -> Values]
    BY <1>2, LenProperties DEF Types
  <2>2. \A b \in Blocks : disk[b] = finished[logged][b]
    BY <1>1, AllReplayed
  <2>3. disk = finished[logged]
    BY <2>1, <2>2
  <2> QED
    BY <1>2, <2>3 DEF ReplayInv, Last
<1>5. Types'
  <2>1. cache' \in [Blocks -> CachedBlocks]
    <3>1. disk \in [Blocks -> Buffers]
      BY <1>2 DEF Types, Buffers
    <3> QED
      BY <1>1, <3>1, EmptyCache
  <2>2. entry' \in [id : Values, start : Positions, written : Nat]
    BY <1>1, JournalConstants DEF Positions, Values, NoEntry, NO_TRANSACTION
  <2> QED
    BY <1>1, <1>2, <1>3, <2>1, <2>2 DEF Types, Labels
<1>6. Fresh'
  BY <1>1, <1>2, <1>3, <1>4 DEF Fresh, ReplayInv
<1>7. (Types /\ Fresh => Inv)'
  BY FreshInv, PTL
<1> QED
  BY <1>5, <1>6, <1>7

LEMMA InitInv == Init => Inv
<1> SUFFICES ASSUME Init PROVE Inv
  OBVIOUS
<1>1. 0 \in Positions /\ 0 \in Values /\ NULL \in Buffers /\ Positions = 0 .. LogSize - 1
  BY JournalConstants DEF Positions, Values, Buffers
<1>2. disk \in [Blocks -> Values] /\ disk \in [Blocks -> Buffers]
  BY <1>1 DEF Init, Buffers
<1>3. log \in [Positions -> LogBlocks]
  BY <1>1 DEF Init, Data, LogBlocks
<1>4. superBlockOnDisk \in SuperBlocks
  BY <1>1 DEF Init, SuperBlocks
<1>5. finished \in Seq([Blocks -> Values]) /\ Len(finished) = 1 /\ Last(finished) = disk
      /\ logged \in 1 .. Len(finished) /\ logged = Len(finished)
  BY <1>2 DEF Init, Last
<1>6. cache \in [Blocks -> CachedBlocks] /\ cache = [b \in Blocks |-> NewBlock(disk[b])]
  <2>1. cache = [b \in Blocks |-> NewBlock(disk[b])]
    BY DEF Init
  <2>2. \A b \in Blocks : NewBlock(disk[b]) \in CachedBlocks
    BY <1>1, <1>2 DEF NewBlock, CachedBlocks, NO_TRANSACTION
  <2> QED
    BY <2>1, <2>2
<1>7. Types
  <2>1. fEntries \in Seq(LogEntries) /\ pending_notifications \in Seq(Values)
    BY EmptySeq DEF Init
  <2>2. entry \in [id : Values, start : Positions, written : Nat]
    BY <1>1 DEF Init, NoEntry, NO_TRANSACTION
  <2>3. writer \in [Writers -> [busy : SUBSET Blocks, todo : SUBSET Blocks]]
    BY DEF Init, Idle
  <2>4. fTransactionID \in 0 .. started /\ started \in Values
    BY <1>1 DEF Init
  <2> QED
    BY <1>1, <1>2, <1>3, <1>4, <1>5, <1>6, <2>1, <2>2, <2>3, <2>4 DEF Types, Labels, Init
<1>8. Fresh
  BY <1>5, <1>6 DEF Fresh, Init
<1> QED
  BY <1>7, <1>8, FreshInv

-----------------------------------------------------------------------------
(* The invariant *)

LEMMA StutterStep ==
  ASSUME Inv, UNCHANGED vars
  PROVE  Inv'
<1>1. /\ UNCHANGED <<diskVars, logVars, transactionVars, ghostVars, pc, task, cache, hook>>
      /\ UNCHANGED <<writer, pending_notifications, sync>>
  BY DEF vars, diskVars, logVars, transactionVars, ghostVars
<1>2. Types'
  BY <1>1, InvParts DEF Types, diskVars, logVars, transactionVars, ghostVars
<1>3. CASE pc # "replay"
  <2>1. /\ ControlInv' /\ CacheInv' /\ PointerInv' /\ EntriesInv' /\ EntryInv' /\ LogInv'
        /\ SameLog /\ (\A b : Old(b)' = Old(b)) /\ (Unlogged' <=> Unlogged)
        /\ Awaited' = Awaited /\ EntryIDs' = EntryIDs
    BY <1>1, <1>3, WriterFrame
  <2>2. WriterInv'
    BY <1>1, <1>3, <2>1, InvParts DEF WriterInv, diskVars, BlocksInPreviousTransaction
  <2>3. SyncInv'
    BY <1>1, <1>3, InvParts DEF SyncInv, Busy
  <2>4. NotifyInv'
    BY <1>1, <1>3, <2>1, InvParts, SameNotify DEF logVars, transactionVars
  <2> QED
    BY <1>1, <1>2, <1>3, <2>1, <2>2, <2>3, <2>4, InvParts, InvNext
<1>4. CASE pc = "replay"
  <2>1. /\ disk' = disk /\ log' = log /\ superBlockOnDisk' = superBlockOnDisk
        /\ superBlock' = superBlock /\ LogStart' = LogStart /\ LogEnd' = LogEnd
        /\ fEntries' = fEntries /\ entry' = entry /\ finished' = finished /\ logged' = logged
        /\ fUnwrittenTransactions' = fUnwrittenTransactions
        /\ fHasSubtransaction' = fHasSubtransaction
    BY <1>1 DEF diskVars, logVars, transactionVars, ghostVars
  <2>2. Tape' = Tape /\ Off(LogEnd)' = Off(LogEnd) /\ Off(entry.start)' = Off(entry.start)
        /\ At' = At
    BY <2>1 DEF Tape, Off, At
  <2>3. ReplayInv /\ Chain(Tape, 0, Off(LogEnd))
    BY <1>4 DEF Inv
  <2>4. ReplayInv'
    BY <1>1, <2>1, <2>2, <2>3 DEF ReplayInv
  <2> QED
    BY <1>1, <1>2, <1>4, <2>2, <2>3, <2>4 DEF Inv
<1> QED
  BY <1>3, <1>4

LEMMA InvStep == Inv /\ [Next /\ Ordinary]_vars => Inv'
<1> SUFFICES ASSUME Inv, [Next /\ Ordinary]_vars PROVE Inv'
  OBVIOUS
<1>1. CASE UNCHANGED vars
  BY <1>1, StutterStep
<1>2. CASE Client
  BY <1>2, LockStep, ChangeStep, DoneStep, AbortStep DEF Client
<1>3. CASE Flush
  BY <1>3, FlushLogStep, FlushBlocksOnlyStep DEF Flush
<1>4. CASE Journal /\ Ordinary
  <2>1. CASE SyncStart \/ SyncWritten \/ DoneSynced \/ FlushDone
    BY <2>1, SyncStartStep, SyncWrittenStep, DoneSyncedStep, FlushDoneStep
  <2>2. CASE LogNothing \/ LogBegin \/ LogSynced \/ LogWrite
    BY <1>4, <2>2, LogNothingStep, LogBeginStep, LogSyncedStep, LogWriteStep
  <2>3. CASE LogSetEnd \/ LogWriteSuperBlock \/ LogSetPosition \/ LogAdd
    BY <2>3, LogSetEndStep, LogWriteSuperBlockStep, LogSetPositionStep, LogAddStep
  <2>4. CASE CacheEnd \/ CacheEndWritten
    BY <2>4, CacheEndStep, CacheEndWrittenStep
  <2>5. CASE \E b \in Blocks : WriteBlock("journal", b)
    <3>1. "journal" \in Writers
      BY DEF Writers
    <3> QED
      BY <2>5, <3>1, WriteBlockStep
  <2> QED
    BY <1>4, <2>1, <2>2, <2>3, <2>4, <2>5 DEF Journal
<1>5. CASE Notifier /\ Ordinary
  <2>1. CASE \E b \in Blocks : WriteBlock("notifier", b)
    <3>1. "notifier" \in Writers
      BY DEF Writers
    <3> QED
      BY <2>1, <3>1, WriteBlockStep
  <2>2. CASE TransactionWritten \/ TransactionWrittenSuperBlock
             \/ TransactionWrittenLogStart \/ NotifySync
    BY <1>5, <2>2, TransactionWrittenStep, TransactionWrittenSuperBlockStep,
       TransactionWrittenLogStartStep, NotifySyncStep
  <2> QED
    BY <1>5, <2>1, <2>2 DEF Notifier
<1>6. CASE NotifierWrites
  BY <1>6, NotifierWritesStep
<1>7. CASE Replay
  BY <1>7, ReplayBlockStep, ReplayNextStep, ReplayDoneStep DEF Replay
<1>8. CASE Crash
  BY <1>8, CrashStep
<1>9. CASE LogFails
  BY <1>9, LogFailsStep
<1> QED
  BY <1>1, <1>2, <1>3, <1>4, <1>5, <1>6, <1>7, <1>8, <1>9 DEF Next

(* OrdinarySpec is Spec with the hypothesis that no step begins an entry   *)
(* that fills the log or ends where the log ends (Journal.cpp:884), and    *)
(* that _TransactionWritten() of the only listed entry does not come       *)
(* between `LogEnd() =` and fEntries.Add() (Journal.cpp:888-902); it       *)
(* changes nothing else about the behaviours of the code.                  *)
THEOREM OrdinaryBehaviours == OrdinarySpec <=> Spec /\ [][Ordinary]_vars
<1>1. [Next /\ Ordinary]_vars <=> [Next]_vars /\ [Ordinary]_vars
  OBVIOUS
<1> QED
  BY <1>1, PTL DEF OrdinarySpec, Spec

(* The inductive invariant of the journal, the block cache below it and    *)
(* the replay of the log, for any volume that the log can hold, any number *)
(* of transactions, of failures to write the log and of crashes, as long   *)
(* as no LogBoundary and no HookRace step has occurred.                    *)
THEOREM BFSJournalInvariant ==
  OrdinarySpec => []Inv
<1>1. Inv /\ [Next /\ Ordinary]_vars => Inv'
  BY InvStep
<1> QED
  BY <1>1, InitInv, PTL DEF OrdinarySpec

-----------------------------------------------------------------------------
(* The properties that the runs check on a small volume *)

LEMMA InvTypeOK == Inv => TypeOK
<1> SUFFICES ASSUME Inv PROVE TypeOK
  OBVIOUS
<1>1. Types
  BY DEF Inv
<1>2. \A p \in 0 .. LogSize - 1 : log[p].runs \in Seq(Blocks) /\ log[p].data \in Buffers
  BY <1>1 DEF Types, LogBlocks, Positions
<1>3. Positions \subseteq 0 .. LogSize
  BY JournalConstants DEF Positions
<1>4. \A i \in 1 .. Len(fEntries) :
        fEntries[i] \in [id : 1 .. MaxTransactions, start : 0 .. LogSize]
  <2> TAKE i \in 1 .. Len(fEntries)
  <2>1. fEntries[i] \in LogEntries
    BY <1>1, LenProperties DEF Types
  <2> QED
    BY <1>3, <2>1 DEF LogEntries
<1>5. \A w \in Writers : writer[w].todo \subseteq writer[w].busy
  <2>1. CASE pc = "replay"
    BY <2>1 DEF Inv, ReplayInv, Idle
  <2>2. CASE pc # "replay"
    BY <2>2, InvParts DEF WriterInv
  <2> QED
    BY <2>1, <2>2
<1>6. /\ superBlock \in [log_start : 0 .. LogSize, log_end : 0 .. LogSize]
      /\ superBlockOnDisk \in [log_start : 0 .. LogSize, log_end : 0 .. LogSize]
      /\ LogStart \in 0 .. LogSize /\ LogEnd \in 0 .. LogSize
  BY <1>1, <1>3 DEF Types, SuperBlocks
<1> QED
  BY <1>1, <1>2, <1>4, <1>5, <1>6 DEF TypeOK, Types, CachedBlocks

(* The variables of the journal, the cache and the log stay within their   *)
(* types, for any size of the log and any number of transactions (in       *)
(* OrdinarySpec).                                                          *)
THEOREM BFSJournalTypeOK ==
  OrdinarySpec => []TypeOK
BY BFSJournalInvariant, InvTypeOK, PTL

LEMMA InvCacheCoherent == Inv => CacheCoherent
<1> SUFFICES ASSUME Inv, pc = "unlocked", NEW b \in Blocks
             PROVE  /\ cache[b].current = Last(finished)[b]
                    /\ ~cache[b].transaction /\ cache[b].previous = NO_TRANSACTION
                         => cache[b].current = disk[b]
  BY DEF CacheCoherent
<1>1. pc # "replay" /\ pc # "open"
  OBVIOUS
<1> QED
  BY <1>1, BlockTypes DEF Old

(* Whenever no transaction runs, the cached blocks are what the last       *)
(* finished transaction left, and a block that is in no transaction is on  *)
(* the disk: aborted transactions and sub transactions leave nothing, and  *)
(* the BlockWriters write the contents of closed transactions only (in     *)
(* OrdinarySpec: a replay that went wrong would be seen here).             *)
THEOREM BFSJournalCacheCoherent ==
  OrdinarySpec => []CacheCoherent
BY BFSJournalInvariant, InvCacheCoherent, PTL

LEMMA InvLogSpaceAfterSync == Inv => LogSpaceAfterSync
BY InvParts DEF LogSpaceAfterSync, Types, Labels

(* "no space in log after sync" is never reached: once                     *)
(* cache_sync_transaction() returns, the notifier thread has told the      *)
(* journal about every entry, and the log is empty (in OrdinarySpec).      *)
THEOREM BFSJournalLogSpaceAfterSync ==
  OrdinarySpec => []LogSpaceAfterSync
BY BFSJournalInvariant, InvLogSpaceAfterSync, PTL

LEMMA InvReplayRecoversLogged == Inv => ReplayRecoversLogged
BY InvParts, RecoverNow, RecoveredValue DEF ReplayRecoversLogged

(* As long as neither LogBoundary nor HookRace has occurred - in both of   *)
(* them Spec violates ReplayRecoversLogged - a crash at any step, also     *)
(* during a replay or after a failure to write the log, is followed by a   *)
(* ReplayLog() that makes the volume what the last transaction left whose  *)
(* entry is in the log on the disk.                                        *)
THEOREM BFSJournalReplayRecoversLogged ==
  OrdinarySpec => []ReplayRecoversLogged
BY BFSJournalInvariant, InvReplayRecoversLogged, PTL

-----------------------------------------------------------------------------
(* What a step may do *)

LEMMA OnlyFlushDone ==
  ASSUME Next, pc = "flush", pc' = "unlocked"
  PROVE  FlushDone
<1>1. CASE Client
  BY <1>1 DEF Client, Lock, Change, Done, Abort
<1>2. CASE Flush \/ LogFails
  BY <1>2 DEF Flush, FlushLog, FlushBlocksOnly, LogFails
<1>3. CASE Journal /\ ~FlushDone
  BY <1>3 DEF Journal, SyncStart, SyncWritten, DoneSynced, LogNothing, LogBegin, LogSynced,
     LogWrite, LogSetEnd, LogWriteSuperBlock, LogSetPosition, LogAdd, CacheEnd,
     CacheEndWritten, WriteBlock
<1>4. CASE Notifier \/ NotifierWrites
  BY <1>4 DEF Notifier, NotifierWrites, WriteBlock, TransactionWritten,
     TransactionWrittenSuperBlock, TransactionWrittenLogStart, NotifySync
<1>5. CASE Replay \/ Crash
  BY <1>5 DEF Replay, ReplayBlock, ReplayNext, ReplayDone, Crash
<1> QED
  BY <1>1, <1>2, <1>3, <1>4, <1>5 DEF Next

LEMMA FlushReturns ==
  ASSUME Inv, FlushDone, fUnwrittenTransactions = 0
  PROVE  logged = Len(finished) /\ disk = Last(finished)
<1>1. pc = "flush" /\ sync = "done" /\ pc # "replay" /\ pc # "open"
  BY DEF FlushDone
<1>2. InPrevious(cache) = {} /\ InTransaction(cache) = {} /\ logged = Len(finished)
  BY <1>1, InvParts DEF SyncInv, ControlInv
<1>3. ASSUME NEW b \in Blocks
      PROVE  disk[b] = Last(finished)[b]
  BY <1>1, <1>2, BlockTypes DEF InPrevious, InTransaction, Old
<1>4. disk \in [Blocks -> Values] /\ Last(finished) \in [Blocks -> Values]
  BY InvParts, LenProperties DEF Types, Last
<1> QED
  BY <1>2, <1>3, <1>4

(* When FlushLogAndBlocks() returns, every finished transaction is logged  *)
(* and on the disk, although block_cache_sync() does not wait for blocks   *)
(* that the notifier thread is writing: its notification comes after them. *)
(* In OrdinarySpec, and unless the log could not be written.               *)
THEOREM BFSJournalFlushedToDisk ==
  OrdinarySpec => FlushedToDisk
<1>1. Inv /\ [Next /\ Ordinary]_vars =>
        [pc = "flush" /\ pc' = "unlocked" /\ fUnwrittenTransactions = 0 =>
           logged = Len(finished) /\ disk = Last(finished)]_vars
  BY OnlyFlushDone, FlushReturns
<1> QED
  BY <1>1, BFSJournalInvariant, PTL DEF OrdinarySpec, FlushedToDisk

-----------------------------------------------------------------------------
(* The journal implements AtomicVolume *)

(* What a step does to the finished transactions                           *)
LEMMA GhostSteps ==
  ASSUME [Next]_vars
  PROVE  \/ Done
         \/ finished' = SubSeq(finished, 1, logged) /\ logged' = logged
         \/ finished' = finished /\ logged' \in {logged, Len(finished)}
<1>0. CASE UNCHANGED vars
  BY <1>0 DEF vars
<1>1. CASE Client /\ ~Done
  BY <1>1 DEF Client, Lock, Change, Abort, ghostVars
<1>2. CASE Flush \/ LogFails
  BY <1>2 DEF Flush, FlushLog, FlushBlocksOnly, LogFails, ghostVars
<1>3. CASE Journal
  BY <1>3 DEF Journal, SyncStart, SyncWritten, DoneSynced, FlushDone, LogNothing, LogBegin,
     LogSynced, LogWrite, LogSetEnd, LogWriteSuperBlock, WriteSuperBlock, LogSetPosition,
     LogAdd, CacheEnd, CacheEndWritten, WriteBlock, ghostVars
<1>4. CASE Notifier \/ NotifierWrites
  BY <1>4 DEF Notifier, NotifierWrites, WriteBlock, TransactionWritten, WriteSuperBlock,
     TransactionWrittenSuperBlock, TransactionWrittenLogStart, NotifySync, ghostVars
<1>5. CASE Replay \/ Crash
  BY <1>5 DEF Replay, ReplayBlock, ReplayNext, ReplayDone, Crash, ghostVars
<1> QED
  BY <1>0, <1>1, <1>2, <1>3, <1>4, <1>5 DEF Next, Client

(* Without a LogBoundary and a HookRace step (OrdinarySpec), BFS keeps     *)
(* what AtomicVolume promises, with crashes and failures to write the log  *)
(* at any other time: a finished transaction is all or nothing to the next *)
(* mount, what has been logged is not lost, and a crash or a failure loses *)
(* only the latest transactions.  It does not hold of all of Spec: either  *)
(* step makes a replay lose what was logged.                               *)
THEOREM BFSJournalImplementsAtomicVolume ==
  OrdinarySpec => ImplementsAtomicVolume
<1>1. Init => Volume!Init
  <2> SUFFICES ASSUME Init PROVE Volume!Init
    OBVIOUS
  <2>1. Recovered = finished[logged] /\ Types
    BY InitInv, InvReplayRecoversLogged DEF ReplayRecoversLogged, Inv
  <2>2. finished = <<disk>> /\ logged = 1 /\ disk \in [Blocks -> Values]
    BY <2>1 DEF Init, Types
  <2>3. Recovered = disk
    BY <2>1, <2>2
  <2> QED
    BY <2>2, <2>3 DEF Volume!Init
<1>2. /\ Inv /\ ReplayRecoversLogged /\ ReplayRecoversLogged' /\ [Next /\ Ordinary]_vars
      => [Volume!Next]_Volume!vars
  <2> SUFFICES ASSUME Inv, ReplayRecoversLogged, ReplayRecoversLogged', [Next]_vars
               PROVE  Volume!Next \/ UNCHANGED Volume!vars
    OBVIOUS
  <2>1. Recovered = finished[logged] /\ Recovered' = finished'[logged']
    BY DEF ReplayRecoversLogged
  <2>2. finished \in Seq([Blocks -> Values]) /\ logged \in 1 .. Len(finished)
        /\ Len(finished) \in Nat
    BY InvParts DEF Types
  <2>3. CASE Done
    <3> DEFINE c == [b \in Blocks |-> cache[b].current]
    <3>1. finished' = Append(finished, c) /\ logged' = logged /\ pc = "open"
      BY <2>3 DEF Done
    <3>2. c \in [Blocks -> Values]
      BY <3>1, BlockTypes
    <3> HIDE DEF c
    <3>3. finished'[logged] = finished[logged]
      BY <2>2, <3>1, <3>2, AppendProperties
    <3>4. Volume!Finish
      BY <2>1, <3>1, <3>2, <3>3 DEF Volume!Finish
    <3> QED
      BY <3>4 DEF Volume!Next
  <2>4. CASE finished' = SubSeq(finished, 1, logged) /\ logged' = logged
    <3>1. finished'[logged] = finished[logged]
      BY <2>2, <2>4, LoggedPrefix
    <3>2. Volume!Crash
      BY <2>1, <2>4, <3>1 DEF Volume!Crash
    <3> QED
      BY <3>2 DEF Volume!Next
  <2>5. CASE finished' = finished /\ logged' = logged
    BY <2>1, <2>5 DEF Volume!vars
  <2>6. CASE finished' = finished /\ logged' = Len(finished) /\ logged' # logged
    <3>1. logged' \in logged + 1 .. Len(finished) /\ Recovered' = finished[logged']
      BY <2>1, <2>2, <2>6
    <3>2. Volume!Persist
      BY <2>6, <3>1 DEF Volume!Persist
    <3> QED
      BY <3>2 DEF Volume!Next
  <2> QED
    BY <2>3, <2>4, <2>5, <2>6, GhostSteps
<1> QED
  BY <1>1, <1>2, BFSJournalInvariant, BFSJournalReplayRecoversLogged, PTL
     DEF OrdinarySpec, ImplementsAtomicVolume, Volume!Spec
=============================================================================
