------------------------------ MODULE MCShell -------------------------------
(* Arguments of up to two names, "." and ".." among them; programs use the   *)
(* paths /a, /b, /a/a and /b/b.                                             *)
EXTENDS Shell, TLC

mcPath == {<<n>> : n \in Name} \cup {<<n, n>> : n \in Name}

mcAbsolute == {<<>>} \cup {<<n>> : n \in Name} \cup (Name \X (Name \cup {".", ".."}))
mcRelative == {<<n>> : n \in Name \cup {".", ".."}} \cup ({".."} \X Name)
mcTyped == [abs : {TRUE}, names : mcAbsolute] \cup [abs : {FALSE}, names : mcRelative]

(* Once the shell's directory is removed, with at most one other left. *)
mcGone == gone => Cardinality(part.inode_bitmap) <= 2

mcSymmetry == Permutations(Name)
=============================================================================
