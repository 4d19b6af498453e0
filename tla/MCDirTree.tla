----------------------------- MODULE MCDirTree ------------------------------
(* Small partitions; paths of up to three names, and paths with "." and "..". *)
EXTENDS DirTree

UpTo(S, n) == UNION {[1 .. k -> S] : k \in 1 .. n}

mcPath1 == UpTo(Name, 1)
mcPath3 == UpTo(Name, 3)
mcPathRoot == {<<>>} \cup UpTo(Name, 1)
mcPathDots == UpTo(Name \cup {".", ".."}, 2)
mcSymmetry == Permutations(Name)
=============================================================================
