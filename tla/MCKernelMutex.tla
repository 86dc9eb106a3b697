--------------------------- MODULE MCKernelMutex ---------------------------
(* Instances of KernelMutex: mutex m belongs to an object that is reached  *)
(* through the mutex guard.                                                *)
EXTENDS KernelMutex

CONSTANTS guard, m

GuardedMutex == {<<m, guard>>}

=============================================================================
