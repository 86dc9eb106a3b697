---------------------------- MODULE AtomicVolume ----------------------------
(***************************************************************************)
(* What a journaling file system promises: transactions are atomic, and    *)
(* they become durable in the order in which they finished.  history is    *)
(* the contents of the volume after each finished transaction; the first   *)
(* `durable` of them survive a crash, and volume is what a mount would     *)
(* find: always the contents after the last durable transaction, never a   *)
(* mixture.                                                                *)
(***************************************************************************)
EXTENDS Naturals, Sequences

CONSTANT Contents   \* the possible contents of a volume

VARIABLES history, durable, volume

vars == <<history, durable, volume>>

Init ==
  /\ volume \in Contents
  /\ history = <<volume>>
  /\ durable = 1

(* A transaction finishes. *)
Finish ==
  /\ \E contents \in Contents : history' = Append(history, contents)
  /\ UNCHANGED <<durable, volume>>

(* Some of the finished transactions become durable, oldest first. *)
Persist ==
  /\ \E n \in durable + 1 .. Len(history) :
       /\ durable' = n
       /\ volume' = history[n]
  /\ UNCHANGED history

(* A crash, or a failure to make them durable, loses the finished          *)
(* transactions that are not durable.                                      *)
Crash ==
  /\ history' = SubSeq(history, 1, durable)
  /\ UNCHANGED <<durable, volume>>

Next == Finish \/ Persist \/ Crash

Spec == Init /\ [][Next]_vars
=============================================================================
