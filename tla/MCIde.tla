-------------------------------- MODULE MCIde --------------------------------
(* Small instances of Ide. *)
EXTENDS Ide, TLC

(* Every tick ends a time slice. *)
mcPriority == [t \in Thread |-> 0]

mcSymmetry == Permutations(Proc)
=============================================================================
