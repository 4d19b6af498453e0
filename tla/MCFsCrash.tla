------------------------------ MODULE MCFsCrash ------------------------------
(* Small partitions: sectors of four bytes, inodes of three.  On the smaller   *)
(* one three blocks are free, enough for a write of one block; on the larger   *)
(* one four, enough for a write that fills two.                               *)
EXTENDS FsCrash, TLC

(* Damaged disks are not followed further, nor the larger partition behind a   *)
(* second crash.                                                              *)
mcLarger == 12
mcFollowed == ~damaged /\ (sec_cnt = mcLarger => crashes < 2)

mcSymmetry == Permutations(Name)
=============================================================================
