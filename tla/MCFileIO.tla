------------------------------ MODULE MCFileIO ------------------------------
(* Descriptors of two files; blocks of two bytes, the first two direct.       *)
EXTENDS FileIO

mcFileOf == [d \in Fd |-> IF d = "w2" THEN "f2" ELSE "f1"]

(* Together the files are followed up to five bytes, and one write further.   *)
mcFollowed == i_size["f1"] + i_size["f2"] <= 5
=============================================================================
