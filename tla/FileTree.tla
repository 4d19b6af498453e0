------------------------------ MODULE FileTree ------------------------------
(***************************************************************************)
(* What the directory operations promise: a tree of named files and        *)
(* directories in which an entry is added only to an existing directory,   *)
(* under a name that is free there, and only a leaf is removed that nobody *)
(* has open.                                                               *)
(***************************************************************************)
EXTENDS Sequences, SequencesExt

VARIABLES
  tree,       (* the paths that exist, each with the type of its end        *)
  open        (* the paths of the files that are open                       *)

Init == tree = {<<<<>>, "DIRECTORY">>} /\ open = {}

(* A new file is open, a new directory is not. *)
Enter(x) ==
  /\ x[1] # <<>> /\ \A y \in tree : y[1] # x[1]
  /\ <<Front(x[1]), "DIRECTORY">> \in tree
  /\ open' = IF x[2] = "REGULAR" THEN open \cup {x[1]} ELSE open

Drop(x) ==
  /\ x[1] # <<>> /\ x[1] \notin open
  /\ \A y \in tree : y # x => ~IsPrefix(x[1], y[1])
  /\ open' = open

OpenOrClose ==
  /\ tree' = tree
  /\ \A p \in open' : <<p, "REGULAR">> \in tree

Next ==
  \/ \E x \in tree' \ tree : tree' = tree \cup {x} /\ Enter(x)
  \/ \E x \in tree \ tree' : tree' = tree \ {x} /\ Drop(x)
  \/ OpenOrClose

Spec == Init /\ [][Next]_<<tree, open>>
=============================================================================
