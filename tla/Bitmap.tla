------------------------------- MODULE Bitmap -------------------------------
(***************************************************************************)
(* lib/kernel/bitmap.c: the bitmap behind every allocator of the kernel    *)
(* (physical pages, virtual addresses, inodes, data blocks).  bitmap_scan  *)
(* looks for cnt consecutive clear bits; the caller then sets them one by  *)
(* one with bitmap_set.  The memory behind the last byte is part of the    *)
(* model, because bitmap_scan reads it.                                    *)
(***************************************************************************)
EXTENDS Integers, FiniteSets, FiniteSetsExt

CONSTANTS
  BYTE,      (* bits in a byte: 8 in the code                              *)
  btmp_bytes_len,  (* the bytes of the map                                 *)
  Cnt,       (* the run lengths that callers ask for                       *)
  After      (* what the first bit behind the map may be: subset of {0, 1} *)

ASSUME BitmapAssumption ==
  /\ BYTE \in Nat \ {0} /\ btmp_bytes_len \in Nat \ {0}
  /\ Cnt \subseteq Nat \ {0} /\ After \subseteq {0, 1}

VARIABLES
  bits,      (* the bits of the map, and those of the byte behind it       *)
  runs,      (* ghost: the runs <<start, cnt>> handed out and not returned *)
  panic      (* an ASSERT failed                                           *)

vars == <<bits, runs, panic>>

Size == btmp_bytes_len * BYTE
Bit  == 0 .. Size - 1                         (* the bits of the map        *)
Mem  == 0 .. Size + BYTE - 1                  (* and of the byte behind it  *)

Run(start, cnt) == start .. start + cnt - 1

-----------------------------------------------------------------------------
(* The first while loop: the first byte that is not 0xff, or btmp_bytes_len. *)
idx_byte(b) ==
  Min({btmp_bytes_len} \cup
      {i \in 0 .. btmp_bytes_len - 1 : \E k \in Run(i * BYTE, BYTE) : b[k] = 0})

(* The first clear bit of that byte, as an index into the map. *)
first_clear(b) == Min({k \in Run(idx_byte(b) * BYTE, BYTE) : b[k] = 0})

(* Mutant of bitmap_scan: the count is not reset by a set bit. *)
bitmap_scan_no_reset(b, cnt) ==
  LET start == first_clear(b)
      left  == Size - start
      go[n \in start .. start + left] ==
        IF n = start THEN [count |-> 1, found |-> -1]
        ELSE LET prev  == go[n - 1]
                 count == IF b[n] = 0 THEN prev.count + 1 ELSE prev.count
             IN  IF prev.found # -1 THEN prev
                 ELSE [count |-> count, found |-> IF count = cnt THEN n - cnt + 1 ELSE -1]
  IN  IF cnt = 1 THEN start
      ELSE IF left < cnt - 1 THEN -1
      ELSE go[start + left].found

(* bitmap_scan() once a byte with a clear bit is found.  For cnt > 1 the    *)
(* second loop runs bit_left times, from the bit after the first clear one  *)
(* up to and including bit Size, which is the first bit behind the map.     *)
bitmap_scan(b, cnt) ==
  LET start == first_clear(b)
      left  == Size - start
      go[n \in start .. start + left] ==
        IF n = start THEN [count |-> 1, found |-> -1]
        ELSE LET prev  == go[n - 1]
                 count == IF b[n] = 0 THEN prev.count + 1 ELSE 0
             IN  IF prev.found # -1 THEN prev
                 ELSE [count |-> count, found |-> IF count = cnt THEN n - cnt + 1 ELSE -1]
  IN  IF cnt = 1 THEN start
      ELSE IF left < cnt - 1 THEN -1
      ELSE go[start + left].found

(* Mutant of set_run: the last bit of the run is left clear. *)
set_run_short(b, start, cnt, value) ==
  [k \in Mem |-> IF k \in Run(start, cnt - 1) THEN value ELSE b[k]]

(* The callers' loop of bitmap_set() over a run. *)
set_run(b, start, cnt, value) ==
  [k \in Mem |-> IF k \in Run(start, cnt) THEN value ELSE b[k]]

Init ==
  /\ \E after \in After :
       bits = [k \in Mem |-> IF k \in Bit THEN 0 ELSE after]
  /\ runs = {}
  /\ panic = FALSE

(* A caller asks for cnt bits and takes what the scan returns.  ASSERT(      *)
(* idx_byte < btmp_bytes_len) stops the machine when every byte is 0xff.    *)
Alloc(cnt) ==
  /\ ~panic
  /\ IF idx_byte(bits) = btmp_bytes_len
       THEN panic' = TRUE /\ UNCHANGED <<bits, runs>>
       ELSE LET start == bitmap_scan(bits, cnt)
            IN  /\ bits' = IF start = -1 THEN bits ELSE set_run(bits, start, cnt, 1)
                /\ runs' = IF start = -1 THEN runs ELSE runs \cup {<<start, cnt>>}
                /\ UNCHANGED panic

(* The caller returns a run it was given. *)
Free(r) ==
  /\ ~panic
  /\ bits' = set_run(bits, r[1], r[2], 0)
  /\ runs' = runs \ {r}
  /\ UNCHANGED panic

(* The machine has stopped in panic_spin(). *)
Stopped == panic /\ UNCHANGED vars

Next ==
  \/ \E cnt \in Cnt : Alloc(cnt)
  \/ \E r \in runs : Free(r)
  \/ Stopped

Spec == Init /\ [][Next]_vars

-----------------------------------------------------------------------------
TypeOK ==
  /\ bits \in [Mem -> {0, 1}]
  /\ runs \subseteq Mem \X Cnt
  /\ panic \in BOOLEAN

(* The bits that a search for a run of cnt bits looks at: the map and, in the *)
(* second loop, the first bit behind it.                                    *)
Searched(cnt) == IF cnt = 1 THEN Bit ELSE Bit \cup {Size}

(* The reference: the lowest run of cnt clear bits among these, -1 if none. *)
first_run(cnt) ==
  LET starts == {s \in Bit : Run(s, cnt) \subseteq {k \in Searched(cnt) : bits[k] = 0}}
  IN  IF starts = {} THEN -1 ELSE Min(starts)

(* bitmap_scan() finds the lowest run that is long enough, and -1 only when  *)
(* there is none, in every map with a clear bit and whatever is behind it:    *)
(* the bit behind the map is all that a search may take wrongly.            *)
ScanFindsFirstRun ==
  idx_byte(bits) # btmp_bytes_len => \A cnt \in Cnt : bitmap_scan(bits, cnt) = first_run(cnt)

(* No two callers are given the same bit, and of the map exactly the bits    *)
(* handed out are set: an allocator that follows bitmap_scan() with           *)
(* bitmap_set() never gives a page, an inode or a block twice and never loses *)
(* one, even after it has given the bit behind the map and taken it back.   *)
RunsDisjoint ==
  /\ \A r, s \in runs : r # s => Run(r[1], r[2]) \cap Run(s[1], s[2]) = {}
  /\ {k \in Bit : bits[k] = 1} = Bit \cap UNION {Run(r[1], r[2]) : r \in runs}

(* The comment above bitmap_scan(): it answers -1 when it fails.  So asking  *)
(* for bits of a full map does not stop the machine.                       *)
FailureIsReported == ~panic

(* The same comment: what it returns are cnt bits of this map.  Refuted where *)
(* the bit behind the map is clear.                                         *)
RunsInsideMap == \A r \in runs : Run(r[1], r[2]) \subseteq Bit
=============================================================================
