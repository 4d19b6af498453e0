------------------------------ MODULE MCBitmap ------------------------------
(* A map of two four-bit bytes: 256 maps and every way to cut them into runs *)
(* of one, two and three bits, which straddle the byte boundary.            *)
EXTENDS Bitmap
=============================================================================
