----------------------------- MODULE AppendFile -----------------------------
(***************************************************************************)
(* What a file of the file system promises: file_write() only ever appends *)
(* to the file, in the order of the writes and whatever the position of    *)
(* the descriptor is, and nothing that has been written changes again.     *)
(***************************************************************************)
EXTENDS Naturals, Sequences

CONSTANTS
  File,             (* the files *)
  Byte(_, _),       (* Byte(f, k): the k-th byte that is written to file f *)
  BLOCK_SIZE        (* what one step appends at most *)

VARIABLE contents

Init == contents = [f \in File |-> <<>>]

Append_(f, n) ==
  contents' = [contents EXCEPT ![f] = @ \o [i \in 1 .. n |-> Byte(f, Len(@) + i - 1)]]

Next == \E f \in File, n \in 1 .. BLOCK_SIZE : Append_(f, n)

Spec == Init /\ [][Next]_contents
=============================================================================
