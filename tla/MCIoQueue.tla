------------------------------ MODULE MCIoQueue ------------------------------
(* Small instances of IoQueue. *)
EXTENDS IoQueue, TLC

(* Every tick ends a time slice. *)
mcPriority == [t \in Thread |-> 0]

mcSymmetry == Permutations(Reader) \cup Permutations(Char)
=============================================================================
