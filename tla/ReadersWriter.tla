--------------------------- MODULE ReadersWriter ---------------------------
(***************************************************************************)
(* What an rw_lock promises its clients, and nothing of how it does so: a  *)
(* lock that threads hold for reading or for writing, several times over.  *)
(* rd[t] and wr[t] count the read and the write locks thread t owns.       *)
(* The writer may also read, and may give up its write locks while it      *)
(* keeps read locks ("degrade").  When the last write lock goes, waiting   *)
(* readers or one waiting writer may be given the lock in the same step.   *)
(***************************************************************************)
EXTENDS Naturals

CONSTANT Threads

VARIABLES rd, wr

absVars == <<rd, wr>>

Writing(t) == wr[t] > 0
Reading(t) == rd[t] > 0

Init ==
  /\ rd = [t \in Threads |-> 0]
  /\ wr = [t \in Threads |-> 0]

(* Each thread of S gets one more read lock. *)
ReadersAfter(S) == [t \in Threads |-> IF t \in S THEN rd[t] + 1 ELSE rd[t]]

(* Readers get the lock together while nobody else is writing. *)
AcquireRead(S) ==
  /\ \A u \in Threads : Writing(u) => S = {u}
  /\ rd' = ReadersAfter(S)
  /\ UNCHANGED wr

ReleaseRead(t) ==
  /\ Reading(t)
  /\ rd' = [rd EXCEPT ![t] = @ - 1]
  /\ UNCHANGED wr

(* A writer needs the lock for itself; nesting is free. *)
AcquireWrite(t) ==
  /\ \A u \in Threads \ {t} : ~Reading(u) /\ ~Writing(u)
  /\ Reading(t) => Writing(t)
  /\ wr' = [wr EXCEPT ![t] = @ + 1]
  /\ UNCHANGED rd

(* Giving up a write lock.  With the last one the lock may go on to a set  *)
(* of readers, or, when the thread keeps no read lock, to one writer.      *)
ReleaseWrite(t) ==
  /\ Writing(t)
  /\ wr' = [wr EXCEPT ![t] = @ - 1]
  /\ UNCHANGED rd

PassToReaders(t, S) ==
  /\ wr[t] = 1
  /\ wr' = [wr EXCEPT ![t] = 0]
  /\ rd' = ReadersAfter(S)

PassToWriter(t, u) ==
  /\ wr[t] = 1
  /\ ~Reading(t)
  /\ u # t
  /\ wr' = [wr EXCEPT ![t] = 0, ![u] = 1]
  /\ UNCHANGED rd

(* The lock ceases to exist, at the hands of a thread that has it for      *)
(* itself or when nobody has it.                                           *)
Destroy(t) ==
  /\ \A u \in Threads \ {t} : ~Reading(u) /\ ~Writing(u)
  /\ rd' = [rd EXCEPT ![t] = 0]
  /\ wr' = [wr EXCEPT ![t] = 0]

Next ==
  \/ \E S \in SUBSET Threads : AcquireRead(S)
  \/ \E t \in Threads : ReleaseRead(t) \/ AcquireWrite(t) \/ ReleaseWrite(t)
  \/ \E t \in Threads, S \in SUBSET Threads : PassToReaders(t, S)
  \/ \E t, u \in Threads : PassToWriter(t, u)
  \/ \E t \in Threads : Destroy(t)

Spec == Init /\ [][Next]_absVars

(* While a thread is writing no other thread reads or writes.              *)
Exclusion ==
  \A t, u \in Threads : Writing(t) /\ u # t => ~Writing(u) /\ ~Reading(u)

=============================================================================
