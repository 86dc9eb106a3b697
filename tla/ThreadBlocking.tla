--------------------------- MODULE ThreadBlocking ---------------------------
(***************************************************************************)
(* The kernel's thread blocking API: thread_prepare_to_block(),            *)
(* thread_block[_with_timeout](), thread_unblock() (headers/private/kernel *)
(* /thread.h and src/system/kernel/thread.cpp).                            *)
(*                                                                         *)
(* Every primitive of the project that lets a thread sleep keeps a         *)
(* function `wait` from threads to the value of thread->wait.status.  The  *)
(* operators below are what the API's functions do to that function; a     *)
(* call that returns a status appears in the primitives as a step guarded  *)
(* by ~thread_is_blocked.                                                  *)
(***************************************************************************)

Blocked      == "1"            \* wait.status = 1: prepared or sleeping
B_OK         == "B_OK"
B_ERROR      == "B_ERROR"
B_TIMED_OUT  == "B_TIMED_OUT"
B_INTERRUPTED == "B_INTERRUPTED"

WaitStatus == {Blocked, B_OK, B_ERROR, B_TIMED_OUT, B_INTERRUPTED}

thread_is_blocked(wait, t) == wait[t] = Blocked

(* The first of the two steps of blocking; it runs under the client lock.  *)
thread_prepare_to_block(wait, t) == [wait EXCEPT ![t] = Blocked]

(* The compare-and-set of thread_unblock_locked(), applied to a set of     *)
(* threads: the first unblocker wins, the later ones have no effect.       *)
thread_unblock(wait, S, status) ==
  [t \in DOMAIN wait |->
     IF t \in S /\ wait[t] = Blocked THEN status ELSE wait[t]]

(* The timer hook of thread_block_with_timeout().  Only the scheduler lock *)
(* is held: it may run at any time between the two steps of the client.    *)
thread_block_timeout(wait, t) == thread_unblock(wait, {t}, B_TIMED_OUT)

=============================================================================
