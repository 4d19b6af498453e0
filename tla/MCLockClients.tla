--------------------------- MODULE MCLockClients ---------------------------
(* Small instances of LockClients. *)
EXTENDS LockClients, TLC

(* A slice of two clock interrupts. *)
mcPriority == [t \in Thread |-> 1]

(* Threads other than main and idle are interchangeable. *)
mcSymmetry == Permutations(Thread \ {idle_thread, main_thread})
=============================================================================
