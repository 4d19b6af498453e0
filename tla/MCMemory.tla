------------------------------ MODULE MCMemory ------------------------------
(* Pages of nine bytes with blocks of three and of four bytes; programs of   *)
(* one segment, behind the first page of a process or on it.                *)
EXTENDS Memory, TLC

mcBlockSize == <<3, 4>>
mcSegment == {<<1, 1>>}
mcFirstPage == {<<0, 1>>}
mcSymmetry == Permutations(Proc)
mcKernel == Cardinality({b \in live : b[1] = KERNEL}) <= 1
=============================================================================
