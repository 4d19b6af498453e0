-------------------------- MODULE StandaloneProofs --------------------------
(***************************************************************************)
(* Proofs about the components that use no other one.                       *)
(*  - Bitmap: bitmap_scan() returns the lowest run of clear bits, and the     *)
(*    allocators built on it never give a bit twice, for maps of any size    *)
(*    and whatever is behind them.                                          *)
(*  - Format: nothing partition_format() lays out overlaps, for every size   *)
(*    of partition, sector, inode and inode table.                          *)
(*  - Keyboard: for every choice of keys and every capacity of kbd_buf, as    *)
(*    long as two keys of a kind are not down together.                     *)
(***************************************************************************)
EXTENDS Bitmap, Format, Keyboard, WellFoundedInduction, TLAPS


(* The second loop, as a function of the bit it has looked at last: what it   *)
(* makes of the count and of the answer of the bit before.                  *)
step(b, cnt, n, prev) ==
  LET count == IF b[n] = 0 THEN prev.count + 1 ELSE 0
  IN  IF prev.found # -1 THEN prev
      ELSE [count |-> count, found |-> IF count = cnt THEN n - cnt + 1 ELSE -1]

Loop(b, start, cnt, g) ==
  g = [n \in start .. start + (Size - start) |->
         IF n = start THEN [count |-> 1, found |-> -1] ELSE step(b, cnt, n, g[n - 1])]

LEMMA ScanIs ==
  ASSUME NEW b, NEW cnt
  PROVE  LET start == first_clear(b) IN
         bitmap_scan(b, cnt) =
           IF cnt = 1 THEN start
           ELSE IF Size - start < cnt - 1 THEN -1
           ELSE (CHOOSE g : Loop(b, start, cnt, g))[start + (Size - start)].found
BY DEF bitmap_scan, Loop, step

-----------------------------------------------------------------------------
LEMMA Sizes ==
  /\ BYTE \in Nat \ {0} /\ btmp_bytes_len \in Nat \ {0} /\ Size \in Nat \ {0} /\ Size = btmp_bytes_len * BYTE
  /\ \A cnt \in Cnt : cnt \in Nat \ {0}
  /\ Size \in Mem /\ Size \notin Bit /\ Bit \subseteq Mem
BY BitmapAssumption DEF Size, Mem, Bit

LEMMA MinIn ==
  ASSUME NEW S, S \subseteq Nat, S # {}
  PROVE  Min(S) \in S /\ \A x \in S : Min(S) <= x
<1>1. \E x \in S : \A y \in S : <<y, x>> \notin OpToRel(<, Nat)
  BY NatLessThanWellFounded, WFMin, Zenon
<1>2. PICK x \in S : \A y \in S : <<y, x>> \notin {ss \in Nat \X Nat : ss[1] < ss[2]}
  BY <1>1 DEF OpToRel
<1>3. \A y \in S : x <= y
  <2>. TAKE y \in S
  <2>1. ~(y < x)
    BY <1>2, Zenon
  <2>. QED  BY <2>1
<1>. QED  BY <1>3, Zenon DEF Min

LEMMA MinIs ==
  ASSUME NEW S, S \subseteq Nat, NEW m \in S, \A x \in S : m <= x
  PROVE  Min(S) = m
<1>1. Min(S) \in S /\ Min(S) <= m
  BY MinIn, Zenon
<1>2. PICK x \in S : x = Min(S)
  BY <1>1, Zenon
<1>3. x \in Nat /\ m \in Nat /\ x <= m /\ m <= x
  BY <1>1, <1>2
<1>. QED  BY <1>2, <1>3

(* The byte-wise first loop and the bit-wise second one find the first clear  *)
(* bit of the map.                                                          *)
LEMMA FirstClear ==
  ASSUME NEW b, idx_byte(b) # btmp_bytes_len
  PROVE  /\ first_clear(b) \in Bit /\ b[first_clear(b)] = 0
         /\ \A k \in Bit : b[k] = 0 => first_clear(b) <= k
<1>. DEFINE I == {i \in 0 .. btmp_bytes_len - 1 : \E k \in Run(i * BYTE, BYTE) : b[k] = 0}
<1>1. {btmp_bytes_len} \cup I \subseteq Nat /\ {btmp_bytes_len} \cup I # {}
  BY Sizes
<1>2. PICK x : x = idx_byte(b)
  OBVIOUS
<1>3. x \in I /\ \A i \in I : x <= i
  BY <1>1, <1>2, MinIn DEF idx_byte
<1>4. x \in Nat /\ x < btmp_bytes_len /\ x * BYTE \in Nat
  BY <1>3, Sizes
<1>5. x * BYTE + BYTE <= Size
  <2>1. (btmp_bytes_len - 1) - x \in Nat /\ btmp_bytes_len = x + 1 + ((btmp_bytes_len - 1) - x)
    BY <1>4, Sizes
  <2>2. PICK y \in Nat : btmp_bytes_len = x + 1 + y
    BY <2>1
  <2>3. btmp_bytes_len * BYTE = x * BYTE + BYTE + y * BYTE /\ y * BYTE \in Nat
    BY <1>4, <2>2, Sizes
  <2>. QED  BY <1>4, <2>3, Sizes
<1>. DEFINE F == {k \in Run(x * BYTE, BYTE) : b[k] = 0}
<1>6. F \subseteq Nat /\ F # {}
  BY <1>3, <1>4, Sizes DEF Run
<1>7. PICK f : f = first_clear(b)
  OBVIOUS
<1>8. f \in F /\ \A k \in F : f <= k
  BY <1>2, <1>6, <1>7, MinIn DEF first_clear
<1>9. f \in Nat /\ x * BYTE <= f /\ f < x * BYTE + BYTE /\ b[f] = 0
  BY <1>4, <1>8, Sizes DEF Run
<1>10. f \in Bit
  BY <1>4, <1>5, <1>9, Sizes DEF Bit
<1>11. ASSUME NEW k \in Bit, b[k] = 0
       PROVE  f <= k
  <2>. DEFINE q == k \div BYTE
              r == k % BYTE
  <2>1. k \in Nat /\ k < btmp_bytes_len * BYTE
    BY Sizes DEF Bit
  <2>2. q \in Nat /\ r \in 0 .. BYTE - 1 /\ k = q * BYTE + r
    BY <2>1, Sizes
  <2>. HIDE DEF q, r
  <2>3. q * BYTE \in Nat /\ k \in Run(q * BYTE, BYTE)
    BY <2>2, Sizes DEF Run
  <2>4. q < btmp_bytes_len
    <3>. SUFFICES ASSUME q >= btmp_bytes_len
                  PROVE  FALSE
      BY <2>2, Sizes
    <3>1. PICK y \in Nat : q = btmp_bytes_len + y
      <4>1. q - btmp_bytes_len \in Nat /\ q = btmp_bytes_len + (q - btmp_bytes_len)
        BY <2>2, Sizes
      <4>. QED  BY <4>1
    <3>2. q * BYTE = btmp_bytes_len * BYTE + y * BYTE /\ y * BYTE \in Nat /\ btmp_bytes_len * BYTE \in Nat
      BY <3>1, Sizes
    <3>. QED  BY <2>1, <2>2, <3>2, Sizes
  <2>5. q \in I
    BY <1>11, <2>2, <2>3, <2>4, Sizes
  <2>6. x <= q
    BY <1>3, <2>5
  <2>7. CASE x = q
    BY <1>8, <1>11, <2>3, <2>7
  <2>8. CASE x < q
    <3>1. PICK y \in Nat : q = x + 1 + y
      <4>1. (q - 1) - x \in Nat /\ q = x + 1 + ((q - 1) - x)
        BY <1>4, <2>2, <2>8
      <4>. QED  BY <4>1
    <3>2. q * BYTE = x * BYTE + BYTE + y * BYTE /\ y * BYTE \in Nat
      BY <1>4, <3>1, Sizes
    <3>. QED  BY <1>4, <1>9, <2>2, <3>2, Sizes
  <2>. QED  BY <1>4, <2>2, <2>6, <2>7, <2>8
<1>. QED  BY <1>7, <1>9, <1>10, <1>11

-----------------------------------------------------------------------------
(* c is the number of clear bits up to bit n, back to start at most. *)
IsCount(b, start, n, c) ==
  /\ c \in 0 .. (n - start) + 1
  /\ \A j \in 0 .. c - 1 : b[n - j] = 0
  /\ c = (n - start) + 1 \/ b[n - c] # 0

clears(b, start, n) == Min({j \in 0 .. (n - start) + 1 : j = (n - start) + 1 \/ b[n - j] # 0})

LEMMA CountIs ==
  ASSUME NEW b, NEW start \in Nat, NEW n \in Nat, start <= n
  PROVE  IsCount(b, start, n, clears(b, start, n))
<1>. DEFINE S == {j \in 0 .. (n - start) + 1 : j = (n - start) + 1 \/ b[n - j] # 0}
<1>1. S \subseteq Nat /\ (n - start) + 1 \in S
  OBVIOUS
<1>2. PICK c : c = clears(b, start, n)
  OBVIOUS
<1>3. c \in S /\ \A x \in S : c <= x
  BY <1>1, <1>2, MinIn DEF clears
<1>4. ASSUME NEW j \in 0 .. c - 1
      PROVE  b[n - j] = 0
  <2>1. j \notin S /\ j \in 0 .. (n - start) + 1
    BY <1>1, <1>3
  <2>. QED  BY <2>1
<1>. QED  BY <1>2, <1>3, <1>4 DEF IsCount

LEMMA CountUnique ==
  ASSUME NEW b, NEW start \in Nat, NEW n \in Nat, start <= n, NEW c, NEW d,
         IsCount(b, start, n, c), IsCount(b, start, n, d)
  PROVE  c = d
<1>1. c \in 0 .. (n - start) + 1 /\ d \in 0 .. (n - start) + 1
  BY DEF IsCount
<1>2. CASE c < d
  <2>1. c \in 0 .. d - 1 /\ c # (n - start) + 1
    BY <1>1, <1>2
  <2>. QED  BY <2>1 DEF IsCount
<1>3. CASE d < c
  <2>1. d \in 0 .. c - 1 /\ d # (n - start) + 1
    BY <1>1, <1>3
  <2>. QED  BY <2>1 DEF IsCount
<1>. QED  BY <1>1, <1>2, <1>3

(* One round of the loop counts on, or from 0. *)
LEMMA CountStep ==
  ASSUME NEW b, NEW start \in Nat, NEW n \in Nat, start < n
  PROVE  clears(b, start, n) = IF b[n] = 0 THEN clears(b, start, n - 1) + 1 ELSE 0
<1>. DEFINE c == clears(b, start, n - 1)
<1>1. n - 1 \in Nat /\ start <= n - 1 /\ start <= n
  OBVIOUS
<1>2. IsCount(b, start, n - 1, c) /\ IsCount(b, start, n, clears(b, start, n))
  BY <1>1, CountIs
<1>. HIDE DEF c
<1>3. c \in Nat /\ c <= n - start
  BY <1>2 DEF IsCount
<1>4. CASE b[n] = 0
  <2>1. \A j \in 0 .. c : b[n - j] = 0
    <3>. TAKE j \in 0 .. c
    <3>1. CASE j = 0
      BY <1>4, <3>1
    <3>2. CASE j # 0
      <4>1. j - 1 \in 0 .. c - 1 /\ (n - 1) - (j - 1) = n - j
        BY <1>3, <3>2
      <4>2. b[(n - 1) - (j - 1)] = 0
        BY <1>2, <4>1, Zenon DEF IsCount
      <4>. QED  BY <4>1, <4>2
    <3>. QED  BY <3>1, <3>2
  <2>2. c + 1 = (n - start) + 1 \/ b[n - (c + 1)] # 0
    <3>1. c = ((n - 1) - start) + 1 \/ b[(n - 1) - c] # 0
      BY <1>2 DEF IsCount
    <3>2. (n - 1) - c = n - (c + 1) /\ ((n - 1) - start) + 1 = n - start
      BY <1>3
    <3>. QED  BY <1>3, <3>1, <3>2
  <2>3. IsCount(b, start, n, c + 1)
    <3>1. c + 1 \in 0 .. (n - start) + 1 /\ (c + 1) - 1 = c
      BY <1>3
    <3>. QED  BY <2>1, <2>2, <3>1 DEF IsCount
  <2>. QED  BY <1>1, <1>2, <1>4, <2>3, CountUnique DEF c
<1>5. CASE b[n] # 0
  <2>1. IsCount(b, start, n, 0)
    BY <1>5 DEF IsCount
  <2>. QED  BY <1>1, <1>2, <1>5, <2>1, CountUnique
<1>. QED  BY <1>4, <1>5 DEF c

(* Some bits before the end of a longer run of clear bits, cnt are counted. *)
LEMMA CountBack ==
  ASSUME NEW b, NEW start \in Nat, NEW n \in Nat, start <= n, NEW cnt \in Nat \ {0},
         cnt <= clears(b, start, n)
  PROVE  \E m \in start .. n : clears(b, start, m) = cnt
<1>. DEFINE q == clears(b, start, n)
<1>1. IsCount(b, start, n, q)
  BY CountIs
<1>. HIDE DEF q
<1>2. q \in Nat /\ q <= (n - start) + 1 /\ cnt <= q
  BY <1>1 DEF IsCount, q
<1>3. PICK e \in Nat : q = cnt + e
  <2>1. q - cnt \in Nat /\ q = cnt + (q - cnt)
    BY <1>2
  <2>. QED  BY <2>1
<1>4. PICK m \in start .. n : m = n - e
  <2>1. n - e \in start .. n
    BY <1>2, <1>3
  <2>. QED  BY <2>1
<1>5. m \in Nat /\ start <= m
  BY <1>4
<1>6. \A j \in 0 .. cnt - 1 : b[m - j] = 0
  <2>. TAKE j \in 0 .. cnt - 1
  <2>1. j + e \in 0 .. q - 1 /\ n - (j + e) = m - j
    BY <1>3, <1>4
  <2>2. b[n - (j + e)] = 0
    BY <1>1, <2>1 DEF IsCount
  <2>. QED  BY <2>1, <2>2
<1>7. cnt = (m - start) + 1 \/ b[m - cnt] # 0
  <2>1. q = (n - start) + 1 \/ b[n - q] # 0
    BY <1>1 DEF IsCount
  <2>2. m - cnt = n - q /\ (q = (n - start) + 1 => cnt = (m - start) + 1)
    BY <1>3, <1>4
  <2>. QED  BY <2>1, <2>2
<1>8. cnt \in 0 .. (m - start) + 1
  BY <1>2, <1>3, <1>4
<1>9. IsCount(b, start, m, cnt)
  BY <1>6, <1>7, <1>8 DEF IsCount
<1>10. IsCount(b, start, m, clears(b, start, m))
  BY <1>5, CountIs
<1>. QED  BY <1>5, <1>9, <1>10, CountUnique

(* The bits up to n at which cnt clear ones have been counted. *)
Hits(b, start, cnt, n) == {m \in start .. n : clears(b, start, m) = cnt}

(* What the loop computes, without the loop. *)
Found(b, start, cnt) ==
  [n \in start .. Size |->
     IF Hits(b, start, cnt, n) = {} THEN [count |-> clears(b, start, n), found |-> -1]
     ELSE [count |-> cnt, found |-> Min(Hits(b, start, cnt, n)) - cnt + 1]]

LEMMA HitsIn ==
  ASSUME NEW b, NEW start \in Nat, NEW n \in Nat, NEW cnt \in Nat \ {0, 1}, start <= n,
         Hits(b, start, cnt, n) # {}
  PROVE  LET m == Min(Hits(b, start, cnt, n)) IN
         /\ m \in start .. n /\ clears(b, start, m) = cnt
         /\ \A x \in Hits(b, start, cnt, n) : m <= x
         /\ m - cnt + 1 \in Nat /\ start <= m - cnt + 1
<1>. DEFINE H == Hits(b, start, cnt, n)
<1>1. H \subseteq Nat /\ H \subseteq start .. n
  BY DEF Hits
<1>2. PICK m : m = Min(H)
  OBVIOUS
<1>3. m \in H /\ \A x \in H : m <= x
  BY <1>1, <1>2, MinIn
<1>4. m \in start .. n /\ clears(b, start, m) = cnt
  BY <1>3 DEF Hits
<1>5. cnt <= (m - start) + 1
  <2>1. IsCount(b, start, m, cnt)
    BY <1>4, CountIs
  <2>. QED  BY <2>1 DEF IsCount
<1>. QED  BY <1>2, <1>3, <1>4, <1>5

LEMMA LoopHas ==
  ASSUME NEW b, NEW start \in Nat, start <= Size, NEW cnt \in Nat \ {0, 1}, b[start] = 0
  PROVE  Loop(b, start, cnt, Found(b, start, cnt))
<1>. DEFINE G == Found(b, start, cnt)
            H(n) == Hits(b, start, cnt, n)
            c(n) == clears(b, start, n)
<1>1. start .. start + (Size - start) = start .. Size
  BY Sizes
<1>2. G[start] = [count |-> 1, found |-> -1]
  <2>1. IsCount(b, start, start, c(start)) /\ IsCount(b, start, start, 1)
    <3>1. IsCount(b, start, start, c(start))
      BY CountIs
    <3>2. \A j \in 0 .. 1 - 1 : b[start - j] = 0
      <4>. TAKE j \in 0 .. 1 - 1
      <4>1. j = 0 /\ start - j = start
        OBVIOUS
      <4>. QED  BY <4>1
    <3>3. 1 \in 0 .. (start - start) + 1 /\ 1 = (start - start) + 1
      OBVIOUS
    <3>. QED  BY <3>1, <3>2, <3>3 DEF IsCount
  <2>2. c(start) = 1
    BY <2>1, CountUnique
  <2>3. H(start) = {}
    BY <2>2 DEF Hits
  <2>4. start \in start .. Size
    BY Sizes
  <2>. HIDE DEF H, c
  <2>. QED  BY <2>2, <2>3, <2>4 DEF Found, H, c
<1>3. ASSUME NEW n \in start .. Size, n # start
      PROVE  G[n] = step(b, cnt, n, G[n - 1])
  <2>1. n \in Nat /\ start < n /\ n - 1 \in Nat /\ start <= n - 1 /\ n - 1 \in start .. Size
    BY <1>3, Sizes
  <2>2. c(n) = IF b[n] = 0 THEN c(n - 1) + 1 ELSE 0
    BY <2>1, CountStep
  <2>3. H(n) = H(n - 1) \cup (IF c(n) = cnt THEN {n} ELSE {})
    <3>1. start .. n = (start .. (n - 1)) \cup {n}
      BY <2>1
    <3>. QED  BY <3>1 DEF Hits
  <2>4. CASE H(n - 1) = {}
    <3>1. G[n - 1] = [count |-> c(n - 1), found |-> -1]
      BY <2>1, <2>4 DEF Found
    <3>2. CASE c(n) = cnt
      <4>1. H(n) = {n}
        BY <2>3, <2>4, <3>2
      <4>2. Min(H(n)) = n
        BY <2>1, <4>1, MinIs
      <4>3. G[n] = [count |-> cnt, found |-> n - cnt + 1]
        BY <4>1, <4>2 DEF Found
      <4>. HIDE DEF c, G
      <4>. QED  BY <2>2, <3>1, <3>2, <4>3 DEF step
    <3>3. CASE c(n) # cnt
      <4>1. H(n) = {}
        BY <2>3, <2>4, <3>3
      <4>2. G[n] = [count |-> c(n), found |-> -1]
        BY <4>1 DEF Found
      <4>. HIDE DEF c, G
      <4>. QED  BY <2>2, <3>1, <3>3, <4>2 DEF step
    <3>. QED  BY <3>2, <3>3
  <2>5. CASE H(n - 1) # {}
    <3>1. PICK m : m = Min(H(n - 1))
      OBVIOUS
    <3>2. m \in start .. n - 1 /\ m \in H(n - 1) /\ (\A x \in H(n - 1) : m <= x) /\ m - cnt + 1 \in Nat
      <4>1. PICK k \in Nat : k = n - 1
        BY <2>1
      <4>2. Hits(b, start, cnt, k) # {} /\ start <= k /\ m = Min(Hits(b, start, cnt, k))
        BY <2>1, <2>5, <3>1, <4>1
      <4>3. /\ m \in start .. k /\ clears(b, start, m) = cnt /\ m - cnt + 1 \in Nat
            /\ \A x \in Hits(b, start, cnt, k) : m <= x
        BY <4>2, HitsIn
      <4>4. m \in Hits(b, start, cnt, k)
        BY <4>3 DEF Hits
      <4>. QED  BY <4>1, <4>3, <4>4
    <3>3. G[n - 1] = [count |-> cnt, found |-> m - cnt + 1]
      BY <2>1, <2>5, <3>1 DEF Found
    <3>4. m \in H(n) /\ \A x \in H(n) : m <= x
      BY <2>1, <2>3, <3>2
    <3>5. Min(H(n)) = m
      <4>1. H(n) \subseteq Nat
        BY DEF Hits
      <4>. HIDE DEF H
      <4>. QED  BY <3>4, <4>1, MinIs
    <3>6. G[n] = [count |-> cnt, found |-> m - cnt + 1]
      BY <3>4, <3>5 DEF Found
    <3>. HIDE DEF G
    <3>7. G[n - 1].found # -1
      BY <3>2, <3>3
    <3>. QED  BY <3>3, <3>6, <3>7 DEF step
  <2>. QED  BY <2>4, <2>5
<1>4. G = [n \in start .. Size |-> G[n]]
  BY DEF Found
<1>. HIDE DEF G
<1>5. G = [n \in start .. Size |->
             IF n = start THEN [count |-> 1, found |-> -1] ELSE step(b, cnt, n, G[n - 1])]
  BY <1>2, <1>3, <1>4, SMT, Z3
<1>. QED  BY <1>1, <1>5, Zenon DEF Loop, G

(* The loop computes one thing only: two runs of it agree on every bit. *)
LEMMA LoopUnique ==
  ASSUME NEW b, NEW start \in Nat, start <= Size, NEW cnt,
         NEW g, Loop(b, start, cnt, g), NEW h, Loop(b, start, cnt, h)
  PROVE  \A n \in start .. Size : g[n] = h[n]
<1>. DEFINE D == {n \in start .. Size : g[n] # h[n]}
<1>. SUFFICES ASSUME D # {}
              PROVE  FALSE
  OBVIOUS
<1>1. start .. start + (Size - start) = start .. Size /\ D \subseteq Nat
  BY Sizes
<1>2. PICK m : m = Min(D)
  OBVIOUS
<1>3. m \in D /\ \A x \in D : m <= x
  BY <1>1, <1>2, MinIn, Zenon
<1>4. m \in start .. Size /\ g[m] # h[m]
  BY <1>3
<1>5. CASE m = start
  BY <1>1, <1>4, <1>5, Zenon DEF Loop
<1>6. CASE m # start
  <2>1. m - 1 \in start .. Size /\ ~(m <= m - 1)
    BY <1>4, <1>6, Sizes
  <2>2. g[m - 1] = h[m - 1]
    BY <1>3, <2>1, SMT, Z3
  <2>3. g[m] = step(b, cnt, m, g[m - 1]) /\ h[m] = step(b, cnt, m, h[m - 1])
    BY <1>1, <1>4, <1>6, Zenon DEF Loop
  <2>. QED  BY <1>4, <2>2, <2>3
<1>. QED  BY <1>5, <1>6

-----------------------------------------------------------------------------
(* Where a run of cnt clear bits may start. *)
Starts(b, cnt) == {s \in Bit : Run(s, cnt) \subseteq {k \in Searched(cnt) : b[k] = 0}}

LEMMA ScanFinds ==
  ASSUME NEW b, NEW cnt \in Cnt, idx_byte(b) # btmp_bytes_len
  PROVE  LET r == bitmap_scan(b, cnt) IN
         \/ r = -1 /\ Starts(b, cnt) = {}
         \/ r \in Starts(b, cnt) /\ \A s \in Starts(b, cnt) : r <= s
<1>. DEFINE loop(t) == CHOOSE g : Loop(b, t, cnt, g)
<1>1. PICK start : start = first_clear(b)
  OBVIOUS
<1>2. start \in Bit /\ b[start] = 0 /\ \A k \in Bit : b[k] = 0 => start <= k
  BY <1>1, FirstClear
<1>3. start \in Nat /\ start < Size /\ Size \in Nat /\ cnt \in Nat /\ cnt # 0
  BY <1>2, Sizes DEF Bit
<1>4. ASSUME NEW s \in Starts(b, cnt)
      PROVE  s \in Nat /\ start <= s /\ s + cnt <= Size + 1 /\ \A k \in s .. s + cnt - 1 : b[k] = 0
  <2>1. s \in Nat /\ s \in Bit /\ s \in s .. s + cnt - 1 /\ s + cnt - 1 \in s .. s + cnt - 1
    BY <1>3, <1>4 DEF Starts, Bit
  <2>2. \A k \in s .. s + cnt - 1 : b[k] = 0 /\ k \in Searched(cnt)
    BY <1>4, Zenon DEF Starts, Run
  <2>3. \A k \in Searched(cnt) : k <= Size
    BY <1>3 DEF Searched, Bit
  <2>4. s + cnt - 1 <= Size /\ start <= s
    BY <1>2, <2>1, <2>2, <2>3
  <2>. QED  BY <1>3, <2>1, <2>2, <2>4
<1>5. CASE cnt = 1
  <2>1. bitmap_scan(b, cnt) = start
    BY <1>1, <1>5, ScanIs, SMT, Z3
  <2>2. \A k \in Run(start, cnt) : k = start
    BY <1>3, <1>5 DEF Run
  <2>3. start \in Starts(b, cnt)
    BY <1>2, <1>5, <2>2 DEF Starts, Searched
  <2>. QED  BY <1>4, <2>1, <2>3
<1>6. CASE cnt # 1 /\ Size - start < cnt - 1
  <2>1. bitmap_scan(b, cnt) = -1
    BY <1>1, <1>6, ScanIs
  <2>2. Starts(b, cnt) = {}
    BY <1>3, <1>4, <1>6
  <2>. QED  BY <2>1, <2>2
<1>7. CASE cnt # 1 /\ ~(Size - start < cnt - 1)
  <2>. DEFINE H == Hits(b, start, cnt, Size)
  <2>0. cnt \in Nat \ {0, 1} /\ start + (Size - start) = Size /\ start <= Size
        /\ Size \in start .. Size
    BY <1>3, <1>7
  <2>1. bitmap_scan(b, cnt) = loop(start)[Size].found
    <3>. HIDE DEF loop
    <3>1. bitmap_scan(b, cnt) = loop(start)[start + (Size - start)].found
      BY <1>1, <1>7, ScanIs DEF loop
    <3>. QED  BY <2>0, <3>1
  <2>2. Loop(b, start, cnt, Found(b, start, cnt))
    BY <1>2, <1>3, <2>0, LoopHas
  <2>3. Loop(b, start, cnt, loop(start))
    BY <2>2, Zenon
  <2>. HIDE DEF loop
  <2>4. loop(start)[Size] = Found(b, start, cnt)[Size]
    BY <1>3, <2>0, <2>2, <2>3, LoopUnique
  <2>5. ASSUME NEW s \in Starts(b, cnt)
        PROVE  \E m \in H : m <= s + cnt - 1
    <3>1. s \in Nat /\ start <= s /\ s + cnt <= Size + 1 /\ \A k \in s .. s + cnt - 1 : b[k] = 0
      BY <1>4
    <3>2. PICK n \in Nat : n = s + cnt - 1
      BY <1>3, <3>1
    <3>3. start <= n /\ n <= Size
      BY <1>3, <3>1, <3>2
    <3>4. PICK q : q = clears(b, start, n)
      OBVIOUS
    <3>5. IsCount(b, start, n, q)
      BY <1>3, <3>3, <3>4, CountIs, SMT, Z3
    <3>6. q \in Nat /\ (q = (n - start) + 1 \/ b[n - q] # 0)
      BY <3>5 DEF IsCount
    <3>7. cnt <= q
      <4>. SUFFICES ASSUME q < cnt
                    PROVE  FALSE
        BY <1>3, <3>6
      <4>1. n - q \in s .. s + cnt - 1 /\ q # (n - start) + 1
        BY <1>3, <3>1, <3>2, <3>6, SMT, Z3
      <4>. QED  BY <3>1, <3>6, <4>1
    <3>8. PICK m \in start .. n : clears(b, start, m) = cnt
      BY <1>3, <2>0, <3>3, <3>4, <3>7, CountBack, SMT, Z3
    <3>9. m \in H /\ m <= n
      <4>1. m \in start .. Size /\ m <= n
        BY <1>3, <3>2, <3>3, <3>8, SMT, Z3
      <4>. QED  BY <3>8, <4>1 DEF Hits
    <3>. QED  BY <3>2, <3>9
  <2>6. CASE H = {}
    <3>1. Starts(b, cnt) = {}
      BY <2>5, <2>6, SMT, Z3
    <3>2. Found(b, start, cnt)[Size].found = -1
      BY <2>0, <2>6 DEF Found
    <3>. QED  BY <2>1, <2>4, <3>1, <3>2
  <2>7. CASE H # {}
    <3>1. PICK m : m = Min(H)
      OBVIOUS
    <3>2. /\ m \in start .. Size /\ clears(b, start, m) = cnt /\ (\A x \in H : m <= x)
          /\ m - cnt + 1 \in Nat /\ start <= m - cnt + 1
      BY <1>3, <2>0, <2>7, <3>1, HitsIn
    <3>3. PICK r \in Nat : r = m - cnt + 1
      BY <3>2, SMT, Z3
    <3>4. bitmap_scan(b, cnt) = r
      <4>1. Found(b, start, cnt)[Size].found = m - cnt + 1
        BY <2>0, <2>7, <3>1 DEF Found
      <4>. QED  BY <2>1, <2>4, <3>3, <4>1, SMT, Z3
    <3>5. IsCount(b, start, m, cnt)
      BY <1>3, <3>2, CountIs
    <3>6. m \in Nat /\ m = r + cnt - 1
      BY <1>3, <3>2, <3>3
    <3>7. \A k \in Run(r, cnt) : b[k] = 0
      <4>. TAKE k \in Run(r, cnt)
      <4>1. m - k \in 0 .. cnt - 1 /\ m - (m - k) = k
        BY <1>3, <3>6 DEF Run
      <4>2. b[m - (m - k)] = 0
        BY <3>5, <4>1 DEF IsCount
      <4>. QED  BY <4>1, <4>2
    <3>9. r \in Starts(b, cnt)
      <4>1. r \in Bit /\ \A k \in Run(r, cnt) : k \in Bit \/ k = Size
        BY <1>3, <2>0, <3>2, <3>6 DEF Run, Bit
      <4>2. Searched(cnt) = Bit \cup {Size}
        BY <2>0 DEF Searched
      <4>. QED  BY <3>7, <4>1, <4>2 DEF Starts
    <3>10. ASSUME NEW s \in Starts(b, cnt)
           PROVE  r <= s
      <4>1. PICK x \in H : x <= s + cnt - 1
        BY <2>5
      <4>2. m <= x /\ x \in Nat
        BY <1>3, <3>2 DEF Hits
      <4>. QED  BY <1>3, <1>4, <3>6, <4>1, <4>2, SMT, Z3
    <3>. QED  BY <3>4, <3>9, <3>10
  <2>. QED  BY <2>6, <2>7
<1>. QED  BY <1>5, <1>6, <1>7

-----------------------------------------------------------------------------
(* What is behind the map counts as taken, or every caller asks for one bit, *)
(* as palloc(), inode_bitmap_alloc() and block_bitmap_alloc() do.           *)
Careful == After = {1} \/ Cnt = {1}

IInv ==
  /\ bits \in [Mem -> {0, 1}]
  /\ runs \subseteq Nat \X Cnt
  /\ \A r \in runs : \A k \in Run(r[1], r[2]) : k \in Mem /\ bits[k] = 1
  /\ RunsDisjoint
  /\ Careful => RunsInsideMap /\ (bits[Size] = 1 \/ Cnt = {1})

LEMMA IScan == ScanFindsFirstRun
<1>. SUFFICES ASSUME idx_byte(bits) # btmp_bytes_len, NEW cnt \in Cnt
              PROVE  bitmap_scan(bits, cnt) = first_run(cnt)
  BY DEF ScanFindsFirstRun
<1>1. PICK r : r = bitmap_scan(bits, cnt)
  OBVIOUS
<1>2. \/ r = -1 /\ Starts(bits, cnt) = {}
      \/ r \in Starts(bits, cnt) /\ \A s \in Starts(bits, cnt) : r <= s
  BY <1>1, ScanFinds
<1>3. first_run(cnt) = IF Starts(bits, cnt) = {} THEN -1 ELSE Min(Starts(bits, cnt))
  BY DEF first_run, Starts
<1>4. Starts(bits, cnt) \subseteq Nat
  BY Sizes DEF Starts, Bit
<1>5. r \in Starts(bits, cnt) /\ (\A s \in Starts(bits, cnt) : r <= s) => Min(Starts(bits, cnt)) = r
  BY <1>4, MinIs
<1>. QED  BY <1>1, <1>2, <1>3, <1>5

LEMMA AllocStep ==
  ASSUME IInv, NEW cnt \in Cnt, Alloc(cnt)
  PROVE  IInv'
<1>1. CASE UNCHANGED <<bits, runs>>
  BY <1>1 DEF IInv, RunsInsideMap, RunsDisjoint
<1>2. CASE ~(UNCHANGED <<bits, runs>>)
  <2>1. PICK s : s = bitmap_scan(bits, cnt)
    OBVIOUS
  <2>2. /\ idx_byte(bits) # btmp_bytes_len /\ s # -1
        /\ bits' = set_run(bits, s, cnt, 1) /\ runs' = runs \cup {<<s, cnt>>}
    BY <1>2, <2>1 DEF Alloc
  <2>3. s \in Starts(bits, cnt)
    BY <2>1, <2>2, ScanFinds
  <2>. DEFINE R == Run(s, cnt)
  <2>4. s \in Nat /\ \A k \in R : k \in Searched(cnt) /\ k \in Mem /\ bits[k] = 0
    <3>1. s \in Nat /\ \A k \in R : k \in Searched(cnt) /\ bits[k] = 0
      BY <2>3, Sizes DEF Starts, Bit
    <3>2. Searched(cnt) \subseteq Mem
      BY Sizes DEF Searched
    <3>. QED  BY <3>1, <3>2, Zenon
  <2>. HIDE DEF R
  <2>5. bits' = [k \in Mem |-> IF k \in R THEN 1 ELSE bits[k]]
    BY <2>2 DEF set_run, R
  <2>6. bits' \in [Mem -> {0, 1}] /\ (bits[Size] = 1 => bits'[Size] = 1)
    <3>1. bits \in [Mem -> {0, 1}] /\ Size \in Mem
      BY Sizes DEF IInv
    <3>. QED  BY <2>5, <3>1
  <2>7. runs' \subseteq Nat \X Cnt
    BY <2>2, <2>4 DEF IInv
  <2>8. Careful => RunsInsideMap' /\ (bits'[Size] = 1 \/ Cnt = {1})
    <3>. SUFFICES ASSUME Careful, NEW r \in runs'
                  PROVE  Run(r[1], r[2]) \subseteq Bit
      BY <2>6 DEF IInv, RunsInsideMap, Run, Bit, Size
    <3>1. CASE r \in runs
      BY <3>1 DEF IInv, RunsInsideMap
    <3>2. CASE r = <<s, cnt>>
      <4>1. \A k \in R : k \in Bit
        <5>1. CASE bits[Size] = 1
          BY <2>4, <5>1 DEF Searched
        <5>2. CASE Cnt = {1}
          BY <2>4, <5>2 DEF Searched
        <5>. QED  BY <5>1, <5>2 DEF IInv
      <4>. QED  BY <3>2, <4>1 DEF R
    <3>. QED  BY <2>2, <3>1, <3>2
  <2>9. \A r \in runs : Run(r[1], r[2]) \cap R = {}
    BY <2>4 DEF IInv
  <2>13. \A r \in runs' : \A k \in Run(r[1], r[2]) : k \in Mem /\ bits'[k] = 1
    <3>. SUFFICES ASSUME NEW r \in runs', NEW k \in Run(r[1], r[2])
                  PROVE  k \in Mem /\ bits'[k] = 1
      OBVIOUS
    <3>1. CASE r \in runs
      BY <2>5, <3>1 DEF IInv
    <3>2. CASE r = <<s, cnt>>
      <4>1. k \in R
        BY <3>2 DEF R
      <4>. QED  BY <2>4, <2>5, <4>1
    <3>. QED  BY <2>2, <3>1, <3>2
  <2>10. \A r, t \in runs' : r # t => Run(r[1], r[2]) \cap Run(t[1], t[2]) = {}
    <3>. SUFFICES ASSUME NEW r \in runs', NEW t \in runs', r # t
                  PROVE  Run(r[1], r[2]) \cap Run(t[1], t[2]) = {}
      OBVIOUS
    <3>1. CASE r \in runs /\ t \in runs
      BY <3>1 DEF IInv, RunsDisjoint
    <3>2. CASE r = <<s, cnt>> /\ t \in runs
      BY <2>9, <3>2 DEF R
    <3>3. CASE r \in runs /\ t = <<s, cnt>>
      BY <2>9, <3>3, SMT, Z3 DEF R
    <3>. QED  BY <2>2, <3>1, <3>2, <3>3
  <2>11. {k \in Bit : bits'[k] = 1} = Bit \cap UNION {Run(r[1], r[2]) : r \in runs'}
    <3>1. {k \in Bit : bits[k] = 1} = Bit \cap UNION {Run(r[1], r[2]) : r \in runs}
      BY DEF IInv, RunsDisjoint
    <3>2. UNION {Run(r[1], r[2]) : r \in runs'} = (UNION {Run(r[1], r[2]) : r \in runs}) \cup R
      <4>. DEFINE e == <<s, cnt>>
      <4>1. Run(e[1], e[2]) = R
        BY DEF R
      <4>2. runs' = runs \cup {e}
        BY <2>2
      <4>. HIDE DEF e
      <4>. QED  BY <4>1, <4>2
    <3>3. {k \in Bit : bits'[k] = 1} = {k \in Bit : bits[k] = 1} \cup (Bit \cap R)
      BY <2>5, Sizes, Zenon
    <3>. QED  BY <3>1, <3>2, <3>3
  <2>12. RunsDisjoint'
    BY <2>10, <2>11 DEF RunsDisjoint, Run, Bit, Size
  <2>. QED  BY <2>6, <2>7, <2>8, <2>12, <2>13 DEF IInv, Mem, Run, Size
<1>. QED  BY <1>1, <1>2

LEMMA FreeStep ==
  ASSUME IInv, NEW r \in runs, Free(r)
  PROVE  IInv'
<1>. DEFINE R == Run(r[1], r[2])
<1>1. \A t \in runs : t # r => Run(t[1], t[2]) \cap R = {}
  BY DEF IInv, RunsDisjoint
<1>. HIDE DEF R
<1>2. bits' = [k \in Mem |-> IF k \in R THEN 0 ELSE bits[k]] /\ runs' = runs \ {r}
  BY DEF Free, set_run, R
<1>3. bits' \in [Mem -> {0, 1}]
  BY <1>2 DEF IInv
<1>4. runs' \subseteq Nat \X Cnt
  BY <1>2 DEF IInv
<1>5. Careful => RunsInsideMap' /\ (bits'[Size] = 1 \/ Cnt = {1})
  <2>. SUFFICES ASSUME Careful
                PROVE  RunsInsideMap' /\ (bits'[Size] = 1 \/ Cnt = {1})
    OBVIOUS
  <2>1. \A t \in runs' : Run(t[1], t[2]) \subseteq Bit
    BY <1>2 DEF IInv, RunsInsideMap
  <2>2. Size \in Mem /\ Size \notin R
    BY Sizes DEF IInv, RunsInsideMap, R
  <2>3. bits'[Size] = bits[Size]
    BY <1>2, <2>2
  <2>. QED  BY <2>1, <2>3 DEF IInv, RunsInsideMap, Run, Bit, Size
<1>9. \A t \in runs' : \A k \in Run(t[1], t[2]) : k \in Mem /\ bits'[k] = 1
  <2>. SUFFICES ASSUME NEW t \in runs', NEW k \in Run(t[1], t[2])
                PROVE  k \in Mem /\ bits'[k] = 1
    OBVIOUS
  <2>1. k \in Mem /\ bits[k] = 1 /\ k \notin R
    BY <1>1, <1>2 DEF IInv
  <2>. QED  BY <1>2, <2>1
<1>6. \A t, w \in runs' : t # w => Run(t[1], t[2]) \cap Run(w[1], w[2]) = {}
  BY <1>2, SMT, Z3 DEF IInv, RunsDisjoint
<1>7. {k \in Bit : bits'[k] = 1} = Bit \cap UNION {Run(t[1], t[2]) : t \in runs'}
  <2>1. {k \in Bit : bits[k] = 1} = Bit \cap UNION {Run(t[1], t[2]) : t \in runs}
    BY DEF IInv, RunsDisjoint
  <2>2. {k \in Bit : bits'[k] = 1} = {k \in Bit : bits[k] = 1} \ R
    <3>1. Bit \subseteq Mem
      BY Sizes
    <3>. QED  BY <1>2, <3>1
  <2>3. UNION {Run(t[1], t[2]) : t \in runs} = (UNION {Run(t[1], t[2]) : t \in runs'}) \cup R
    BY <1>2 DEF R
  <2>4. R \cap UNION {Run(t[1], t[2]) : t \in runs'} = {}
    BY <1>1, <1>2
  <2>. QED  BY <2>1, <2>2, <2>3, <2>4
<1>8. RunsDisjoint'
  BY <1>6, <1>7 DEF RunsDisjoint, Run, Bit, Size
<1>. QED  BY <1>3, <1>4, <1>5, <1>8, <1>9 DEF IInv, Mem, Run, Size

LEMMA IInitially == Init => IInv
<1>. SUFFICES ASSUME Init
              PROVE  IInv
  OBVIOUS
<1>1. PICK after \in After : bits = [k \in Mem |-> IF k \in Bit THEN 0 ELSE after]
  BY DEF Init
<1>2. runs = {}
  BY DEF Init
<1>3. bits \in [Mem -> {0, 1}]
  BY <1>1, BitmapAssumption
<1>4. bits[Size] = after /\ \A k \in Bit : bits[k] = 0
  BY <1>1, Sizes
<1>5. Careful => RunsInsideMap /\ (bits[Size] = 1 \/ Cnt = {1})
  BY <1>2, <1>4, SMT, Z3 DEF Careful, RunsInsideMap
<1>6. RunsDisjoint
  BY <1>2, <1>4 DEF RunsDisjoint
<1>. QED  BY <1>2, <1>3, <1>5, <1>6 DEF IInv

LEMMA IStep == IInv /\ [Next]_vars => IInv'
<1>. SUFFICES ASSUME IInv, [Next]_vars
              PROVE  IInv'
  BY SMT, Z3
<1>1. CASE UNCHANGED vars \/ Stopped
  BY <1>1 DEF vars, Stopped, IInv, RunsInsideMap, RunsDisjoint
<1>2. CASE \E cnt \in Cnt : Alloc(cnt)
  BY <1>2, AllocStep
<1>3. CASE \E r \in runs : Free(r)
  BY <1>3, FreeStep
<1>. QED  BY <1>1, <1>2, <1>3 DEF Next

(* The inductive invariant: of the map exactly the bits handed out are set,  *)
(* and so is the bit behind it if it has been handed out.                   *)
THEOREM MapInvariant == Spec => []IInv
<1>1. Init => IInv
  BY IInitially
<1>2. IInv /\ [Next]_vars => IInv'
  BY IStep
<1>. QED  BY <1>1, <1>2, PTL DEF Spec

(* The two loops of bitmap_scan() find the lowest run that is long enough,   *)
(* and answer -1 only when there is none, for every size of byte and map and  *)
(* whatever is behind the map.                                              *)
THEOREM ScanFindsTheFirst == Spec => []ScanFindsFirstRun
<1>1. ScanFindsFirstRun
  BY IScan
<1>. QED  BY <1>1, PTL

(* No bit is given to two callers and none is lost, however they ask for     *)
(* runs and return them.                                                    *)
THEOREM NoBitTwice == Spec => []RunsDisjoint
<1>1. IInv => RunsDisjoint
  BY DEF IInv
<1>. QED  BY <1>1, MapInvariant, PTL

(* bitmap_scan() reads the bit behind the map, but gives it to nobody where   *)
(* it is set or where all callers ask for one bit.                          *)
THEOREM InsideIfCareful == Careful => (Spec => []RunsInsideMap)
<1>. SUFFICES ASSUME Careful
              PROVE  Spec => []RunsInsideMap
  OBVIOUS
<1>1. IInv => RunsInsideMap
  BY DEF IInv
<1>. QED  BY <1>1, MapInvariant, PTL

-----------------------------------------------------------------------------
(* Format. *)
(* Division, as the four lemmas below use it. *)
LEMMA DivFacts ==
  ASSUME NEW x \in Nat, NEW s \in Nat \ {0}
  PROVE  /\ x \div s \in Nat /\ x % s \in 0 .. s - 1
         /\ x = (x \div s) * s + (x % s)
OBVIOUS

LEMMA DivBelow ==
  ASSUME NEW x \in Nat, NEW s \in Nat \ {0}, NEW n \in Nat, x < n * s
  PROVE  x \div s < n
OBVIOUS

LEMMA Cancel ==
  ASSUME NEW m \in Nat, NEW n \in Nat, NEW s \in Nat \ {0}, m * s < n * s
  PROVE  m < n
OBVIOUS

(* DIV_ROUND_UP(x, s) is the least number of units of s that hold x. *)
LEMMA RoundUp ==
  ASSUME NEW x \in Nat, NEW s \in Nat \ {0}
  PROVE  /\ DIV_ROUND_UP(x, s) \in Nat
         /\ x <= DIV_ROUND_UP(x, s) * s
         /\ \A n \in Nat : x <= n * s => DIV_ROUND_UP(x, s) <= n
<1>1. x + s - 1 \in Nat /\ DIV_ROUND_UP(x, s) = (x + s - 1) \div s
  BY DEF DIV_ROUND_UP
<1>2. DIV_ROUND_UP(x, s) \in Nat /\ x <= DIV_ROUND_UP(x, s) * s
  <2>. DEFINE y == x + s - 1
  <2>1. y \in Nat /\ DIV_ROUND_UP(x, s) = y \div s
    BY <1>1
  <2>2. x = y + 1 - s
    OBVIOUS
  <2>. HIDE DEF y
  <2>3. y \div s \in Nat /\ y % s \in 0 .. s - 1 /\ y = (y \div s) * s + (y % s)
    BY <2>1, DivFacts, Zenon
  <2>. QED  BY <2>1, <2>2, <2>3
<1>3. ASSUME NEW n \in Nat, x <= n * s  PROVE DIV_ROUND_UP(x, s) <= n
  <2>1. x + s - 1 < (n + 1) * s
    BY <1>3
  <2>2. (x + s - 1) \div s < n + 1
    BY <1>1, <2>1, DivBelow, SMT, Z3
  <2>. QED  BY <1>1, <1>2, <2>2
<1>. QED  BY <1>2, <1>3

-----------------------------------------------------------------------------
(* The inode bitmap and the inode table are large enough for the inodes. *)
LEMMA PartsAreNumbers ==
  /\ inode_bitmap_sects \in Nat /\ inode_table_sects \in Nat /\ used_sects \in Nat
  /\ used_sects = 2 + inode_bitmap_sects + inode_table_sects
  /\ MAX_FILES_PER_PART <= inode_bitmap_sects * BITS_PER_SECTOR
  /\ inode_size * MAX_FILES_PER_PART <= inode_table_sects * SECTOR_SIZE
<1>1. inode_size * MAX_FILES_PER_PART \in Nat
  BY FormatAssumption
<1>2. inode_bitmap_sects \in Nat /\ MAX_FILES_PER_PART <= inode_bitmap_sects * BITS_PER_SECTOR
  BY FormatAssumption, RoundUp DEF inode_bitmap_sects
<1>3. /\ inode_table_sects \in Nat
      /\ inode_size * MAX_FILES_PER_PART <= inode_table_sects * SECTOR_SIZE
  <2>. DEFINE table == inode_size * MAX_FILES_PER_PART
  <2>1. table \in Nat /\ inode_table_sects = DIV_ROUND_UP(table, SECTOR_SIZE)
    BY <1>1 DEF inode_table_sects
  <2>. HIDE DEF table
  <2>2. inode_table_sects \in Nat /\ table <= inode_table_sects * SECTOR_SIZE
    BY <2>1, RoundUp, FormatAssumption, SMT, Z3
  <2>. QED  BY <2>2 DEF table
<1>. QED  BY <1>2, <1>3 DEF used_sects

(* The blocks and their bitmap fit what the other parts leave free. *)
LEMMA DataFits ==
  ASSUME NEW sec_cnt \in Nat, sec_cnt > used_sects
  PROVE  LET bb == DIV_ROUND_UP(bit_len(sec_cnt), BITS_PER_SECTOR)
         IN  /\ bit_len(sec_cnt) \in Nat /\ bb \in Nat
             /\ bit_len(sec_cnt) <= bb * BITS_PER_SECTOR
             /\ used_sects + bb + bit_len(sec_cnt) <= sec_cnt
             /\ used_sects + bb < sec_cnt
<1>. DEFINE free == sec_cnt - used_sects
            bitmap == DIV_ROUND_UP(free, BITS_PER_SECTOR)
            bb == DIV_ROUND_UP(bit_len(sec_cnt), BITS_PER_SECTOR)
<1>1. free \in Nat /\ free > 0
  BY PartsAreNumbers
<1>2. free <= free * BITS_PER_SECTOR
  BY <1>1, FormatAssumption
<1>3. bitmap \in Nat /\ bitmap <= free /\ bitmap > 0
  <2>. HIDE DEF free
  <2>1. bitmap \in Nat /\ bitmap <= free /\ free <= bitmap * BITS_PER_SECTOR
    BY <1>1, <1>2, RoundUp, FormatAssumption, SMT, Z3
  <2>2. bitmap # 0
    BY <1>1, <2>1, FormatAssumption, SMT, Z3
  <2>. QED  BY <2>1, <2>2
<1>4. bit_len(sec_cnt) = free - bitmap /\ bit_len(sec_cnt) \in Nat
  BY <1>1, <1>3, SMT, Z3 DEF bit_len
<1>5. bit_len(sec_cnt) <= bitmap * BITS_PER_SECTOR
  BY <1>1, <1>3, <1>4, RoundUp, FormatAssumption, SMT, Z3
<1>6. bb \in Nat /\ bb <= bitmap /\ bit_len(sec_cnt) <= bb * BITS_PER_SECTOR
  BY <1>3, <1>4, <1>5, RoundUp, FormatAssumption, SMT, Z3
<1>7. bb <= bit_len(sec_cnt)
  <2>1. bit_len(sec_cnt) <= bit_len(sec_cnt) * BITS_PER_SECTOR
    BY <1>4, FormatAssumption, SMT, Z3
  <2>. QED  BY <1>4, <2>1, RoundUp, FormatAssumption, SMT, Z3
<1>. QED  BY <1>1, <1>3, <1>4, <1>6, <1>7, PartsAreNumbers

(* An inode lies in the inode table, in the sectors inode_locate() finds. *)
LEMMA InodesFit ==
  ASSUME NEW s, s.inode_table_lba \in Nat, NEW i \in 0 .. MAX_FILES_PER_PART - 1
  PROVE  /\ inode_locate(s, i) \subseteq
               s.inode_table_lba .. s.inode_table_lba + inode_table_sects - 1
         /\ \A k \in 0 .. inode_size - 1 :
              s.inode_table_lba + (i * inode_size + k) \div SECTOR_SIZE \in inode_locate(s, i)
<1>. DEFINE off == i * inode_size
            q == off \div SECTOR_SIZE
            r == off % SECTOR_SIZE
<1>1. off \in Nat /\ SECTOR_SIZE \in Nat \ {0} /\ inode_size \in 1 .. SECTOR_SIZE
  BY FormatAssumption
<1>2. q \in Nat /\ r \in 0 .. SECTOR_SIZE - 1 /\ off = q * SECTOR_SIZE + r
  BY <1>1, DivFacts, Zenon
<1>3. off + inode_size <= inode_table_sects * SECTOR_SIZE
  <2>1. off + inode_size <= inode_size * MAX_FILES_PER_PART
    BY <1>1, FormatAssumption
  <2>. QED  BY <1>1, <2>1, PartsAreNumbers, FormatAssumption
<1>4. q < inode_table_sects
  <2>1. off < inode_table_sects * SECTOR_SIZE
    BY <1>1, <1>3, PartsAreNumbers
  <2>. HIDE DEF off
  <2>. QED  BY <1>1, <2>1, DivBelow, PartsAreNumbers, Zenon
<1>5. SECTOR_SIZE - r < inode_size => q + 1 < inode_table_sects
  <2>1. SECTOR_SIZE - r < inode_size => (q + 1) * SECTOR_SIZE < inode_table_sects * SECTOR_SIZE
    BY <1>1, <1>2, <1>3, PartsAreNumbers, SMT, Z3
  <2>. QED  BY <1>1, <1>2, <2>1, Cancel, PartsAreNumbers
<1>6. ASSUME NEW k \in 0 .. inode_size - 1
      PROVE  \/ (off + k) \div SECTOR_SIZE = q
             \/ (off + k) \div SECTOR_SIZE = q + 1 /\ SECTOR_SIZE - r < inode_size
  <2>1. CASE r + k < SECTOR_SIZE
    BY <1>1, <1>2, <2>1, SMT, Z3
  <2>2. CASE r + k >= SECTOR_SIZE
    BY <1>1, <1>2, <2>2, SMT, Z3
  <2>. QED  BY <1>1, <1>2, <2>1, <2>2, SMT, Z3
<1>7. inode_locate(s, i) = IF SECTOR_SIZE - r < inode_size
                           THEN {s.inode_table_lba + q, s.inode_table_lba + q + 1}
                           ELSE {s.inode_table_lba + q}
  BY <1>1, <1>2, SMT, Z3 DEF inode_locate
<1>. HIDE DEF off, q, r
<1>8. inode_locate(s, i) \subseteq s.inode_table_lba .. s.inode_table_lba + inode_table_sects - 1
  BY <1>2, <1>4, <1>5, <1>7, PartsAreNumbers, SMT, Z3
<1>9. ASSUME NEW k \in 0 .. inode_size - 1
      PROVE  s.inode_table_lba + (off + k) \div SECTOR_SIZE \in inode_locate(s, i)
  BY <1>2, <1>6, <1>7, SMT, Z3
<1>. QED  BY <1>8, <1>9 DEF off

(* partition_format() lays out every partition that has room for the fixed   *)
(* parts soundly.                                                           *)
THEOREM LayoutIsSound ==
  ASSUME NEW sec_cnt \in Nat, sec_cnt > used_sects
  PROVE  LayoutSound(sec_cnt)
<1>. DEFINE s == super_block(sec_cnt)
            bb == DIV_ROUND_UP(bit_len(sec_cnt), BITS_PER_SECTOR)
            all_bits == 0 .. (s.block_bitmap_sects * BITS_PER_SECTOR - 1)
<1>1. /\ bb \in Nat /\ bit_len(sec_cnt) \in Nat /\ bit_len(sec_cnt) <= bb * BITS_PER_SECTOR
      /\ used_sects + bb + bit_len(sec_cnt) <= sec_cnt /\ used_sects + bb < sec_cnt
  BY DataFits, SMT, Z3
<1>2. /\ s.block_bitmap_lba = 2 /\ s.block_bitmap_sects = bb
      /\ s.inode_bitmap_lba = 2 + bb /\ s.inode_table_lba = 2 + bb + inode_bitmap_sects
      /\ s.data_start_lba = 2 + bb + inode_bitmap_sects + inode_table_sects
  BY DEF super_block
<1>. HIDE DEF s, bb
<1>3. ASSUME NEW b \in all_bits
      PROVE  s.block_bitmap_lba + b \div BITS_PER_SECTOR \in 2 .. s.inode_bitmap_lba - 1
  <2>1. b \in Nat /\ b < bb * BITS_PER_SECTOR
    BY <1>1, <1>2, FormatAssumption, SMT, Z3
  <2>2. b \div BITS_PER_SECTOR \in Nat /\ b \div BITS_PER_SECTOR < bb
    BY <1>1, <2>1, DivBelow, DivFacts, FormatAssumption, Zenon
  <2>. QED  BY <1>1, <1>2, <2>2, SMT, Z3
<1>4. ASSUME NEW i \in 0 .. MAX_FILES_PER_PART - 1
      PROVE  s.inode_bitmap_lba + i \div BITS_PER_SECTOR
               \in s.inode_bitmap_lba .. s.inode_table_lba - 1
  <2>1. i \in Nat /\ i < inode_bitmap_sects * BITS_PER_SECTOR
    BY PartsAreNumbers, FormatAssumption
  <2>2. i \div BITS_PER_SECTOR \in Nat /\ i \div BITS_PER_SECTOR < inode_bitmap_sects
    BY <2>1, DivBelow, DivFacts, PartsAreNumbers, FormatAssumption
  <2>. QED  BY <1>1, <1>2, <2>2, PartsAreNumbers
<1>5. ASSUME NEW i \in 0 .. MAX_FILES_PER_PART - 1
      PROVE  /\ inode_locate(s, i) \subseteq s.inode_table_lba .. s.data_start_lba - 1
             /\ \A k \in 0 .. inode_size - 1 :
                  s.inode_table_lba + (i * inode_size + k) \div SECTOR_SIZE \in inode_locate(s, i)
  <2>1. s.inode_table_lba \in Nat /\ s.data_start_lba = s.inode_table_lba + inode_table_sects
    BY <1>1, <1>2, PartsAreNumbers
  <2>2. /\ inode_locate(s, i) \subseteq
             s.inode_table_lba .. s.inode_table_lba + inode_table_sects - 1
        /\ \A k \in 0 .. inode_size - 1 :
             s.inode_table_lba + (i * inode_size + k) \div SECTOR_SIZE \in inode_locate(s, i)
    BY <2>1, InodesFit, Zenon
  <2>3. s.inode_table_lba + inode_table_sects - 1 = s.data_start_lba - 1
    BY <2>1, PartsAreNumbers
  <2>. QED  BY <2>2, <2>3, Zenon
<1>6. ASSUME NEW b \in (all_bits \ initial_bitmap(sec_cnt)) \cup {0}
      PROVE  s.data_start_lba + b \in s.data_start_lba .. sec_cnt - 1
  <2>1. b \in Nat /\ (b = 0 \/ b < bit_len(sec_cnt))
    BY <1>1, <1>2, FormatAssumption, SMT, Z3 DEF initial_bitmap, s
  <2>. QED  BY <1>1, <1>2, <2>1, PartsAreNumbers, SMT, Z3
<1>. QED  BY <1>2, <1>3, <1>4, <1>5, <1>6, SMT, Z3 DEF LayoutSound, s

-----------------------------------------------------------------------------
(* What the handler believes is down is h, and caps lock is on iff c. *)
Matches(h, c) ==
  /\ ctrl_status = (h \cap Ctrl # {})
  /\ shift_status = (h \cap Shift # {})
  /\ caps_lock_status = c

OneOfKind(h) ==
  \A kind \in {Shift, Ctrl, Alt} : \A j, k \in h \cap kind : j = k

(* All bytes are handled. *)
Quiet == wire = <<>> /\ ~ext_scancode /\ Matches(held, caps)

(* A key of Hold has just gone down or up, and the handler knows of all keys  *)
(* but this one.                                                            *)
Shifting(key, up) ==
  /\ up = (key \notin held)
  /\ Matches(IF up THEN held \cup {key} ELSE held \ {key}, caps)
  /\ OneOfKind(held \cup {key})
  /\ \/ extended(key) /\ ~ext_scancode /\ wire = <<prefix, scan(key, up, NUL)>>
     \/ (ext_scancode <=> extended(key)) /\ wire = <<scan(key, up, NUL)>>

(* A key of Tap has been struck: its make code is on the way ... *)
Making(key) ==
  LET make == scan(key, FALSE, Printed(key))
      break == scan(key, TRUE, NUL)
  IN
  /\ Matches(held, caps # (key = caps_lock_make))
  /\ \/ extended(key) /\ ~ext_scancode /\ wire = <<prefix, make, prefix, break>>
     \/ extended(key) /\ ext_scancode /\ wire = <<make, prefix, break>>
     \/ ~extended(key) /\ ~ext_scancode /\ wire = <<make, break>>

(* ... or only its break code. *)
Breaking(key) ==
  /\ Matches(held, caps)
  /\ \/ extended(key) /\ ~ext_scancode /\ wire = <<prefix, scan(key, TRUE, NUL)>>
     \/ (ext_scancode <=> extended(key)) /\ wire = <<scan(key, TRUE, NUL)>>

KeysOK ==
  /\ held \subseteq Hold /\ OneOfKind(held)
  /\ caps \in BOOLEAN /\ ext_scancode \in BOOLEAN
  /\ ctrl_status \in BOOLEAN /\ shift_status \in BOOLEAN /\ caps_lock_status \in BOOLEAN

Phase ==
  \/ Quiet
  \/ \E key \in Hold, up \in BOOLEAN : Shifting(key, up)
  \/ \E key \in Tap : Making(key) \/ Breaking(key)

(* The inductive invariant: which bytes of which key are on the way, and what *)
(* the handler has made of those before them.                               *)
Inv == KeysOK /\ KeysDecoded /\ Phase

-----------------------------------------------------------------------------
KeyNumber == (1 .. 88) \cup (EXT + 1 .. EXT + 88)

LEMMA KeysHaveNumbers == Hold \cup Tap \subseteq KeyNumber
BY KeyboardAssumption DEF KeyNumber, Shift, Ctrl, Alt, EXT, shift_l_make, shift_r_make,
   ctrl_l_make, ctrl_r_make, alt_l_make, alt_r_make

LEMMA Tuple2 == \A a, b : Head(<<a, b>>) = a /\ Tail(<<a, b>>) = <<b>>
OBVIOUS

LEMMA Tuple3 == \A a, b, c : Head(<<a, b, c>>) = a /\ Tail(<<a, b, c>>) = <<b, c>>
OBVIOUS

LEMMA Tuple4 == \A a, b, c, d : Head(<<a, b, c, d>>) = a /\ Tail(<<a, b, c, d>>) = <<b, c, d>>
BY SMT, Z3

(* The bytes of a key can be told apart, and the handler puts its number     *)
(* together again.                                                          *)
LEMMA CodesOfKeys ==
  ASSUME NEW key \in KeyNumber
  PROVE  /\ key % 256 \in 1 .. 88
         /\ extended(key) => key = EXT + (key % 256)
         /\ ~extended(key) => key = key % 256
<1>1. CASE key \in 1 .. 88
  BY <1>1 DEF extended
<1>2. CASE key \in EXT + 1 .. EXT + 88
  <2>1. PICK k \in 1 .. 88 : key = 224 * 256 + k
    BY <1>2 DEF EXT
  <2>2. key % 256 = k
    BY <2>1
  <2>. QED  BY <2>1, <2>2 DEF extended, EXT
<1>. QED  BY <1>1, <1>2 DEF KeyNumber

(* The character that the handler finds for a key that is struck is the one  *)
(* on its cap, once its statuses are right.                                 *)
LEMMA CapIsDecoded ==
  ASSUME NEW key \in Tap, KeysOK, known(key), Matches(held, caps), key # caps_lock_make
  PROVE  cur_char(key) = Printed(key) /\ Printed(key) # NUL
<1>. DEFINE shift == held \cap Shift # {}
            upper == IF key \in Letter THEN shift # caps ELSE key \notin Control /\ shift
<1>1. key \in (1 .. 57) \ {29, 42, 54, 56} /\ key % 256 = key
  BY KeyboardAssumption, SMT, Z3 DEF known, EXT, Shift, Ctrl, Alt, shift_l_make, shift_r_make, ctrl_l_make,
     ctrl_r_make, alt_l_make, alt_r_make, caps_lock_make
<1>2. Printed(key) # NUL
  BY <1>1 DEF Printed, NUL, caps_lock_make
<1>3. Printed(key) = IF ~upper /\ ctrl_status /\ key \in {l, u} THEN <<key, 2>>
                     ELSE <<key, IF upper THEN 1 ELSE 0>>
  <2>1. ~(key > caps_lock_make - 1)
    BY <1>1 DEF caps_lock_make
  <2>2. ctrl_status <=> held \cap Ctrl # {}
    BY Zenon DEF Matches
  <2>. QED  BY <2>1, <2>2, Zenon DEF Printed
<1>4. keymap(key, column(key)) = <<key, IF upper THEN 1 ELSE 0>>
  <2>1. CASE key \in Control
    BY <1>1, <2>1 DEF keymap, Letter, Control
  <2>2. CASE key \notin Control
    <3>1. two_chars(key) <=> key \notin Letter
      BY <1>1, <2>2 DEF Letter, Control, two_chars
    <3>2. column(key) <=> upper
      BY <2>2, <3>1, Zenon DEF column, KeysOK, Matches
    <3>. QED  BY <1>1, <2>2, <3>2 DEF keymap, Control
  <2>. QED  BY <2>1, <2>2
<1>5. cur_char(key) = Printed(key)
  BY <1>1, <1>3, <1>4 DEF cur_char, l, u
<1>. QED  BY <1>2, <1>5, SMT, Z3

-----------------------------------------------------------------------------
(* What one interrupt does, by the byte at the head of the wire. *)
LEMMA PrefixStep ==
  ASSUME intr_keyboard_handler, Head(wire) = prefix
  PROVE  /\ wire' = Tail(wire) /\ ext_scancode'
         /\ UNCHANGED <<handVars, statusVars, kbd_buf, meant>>
BY DEF intr_keyboard_handler, prefix, PREFIX

LEMMA MakeStep ==
  ASSUME intr_keyboard_handler, KeysOK, NEW key \in KeyNumber, NEW char,
         ext_scancode <=> extended(key), Head(wire) = scan(key, FALSE, char)
  PROVE  /\ wire' = Tail(wire) /\ ~ext_scancode'
         /\ UNCHANGED handVars
         /\ IF known(key) THEN make_code(key, char)
            ELSE UNCHANGED <<statusVars, kbd_buf, meant>>
<1>. DEFINE byte == Head(wire).byte
            code == IF ext_scancode THEN EXT + byte ELSE byte
<1>1. byte = (key % 256) + 0 /\ Head(wire).char = char
  BY CodesOfKeys DEF scan
<1>2. byte < 128 /\ byte # PREFIX /\ ~(byte >= 128) /\ code = key
  <2>1. CASE extended(key)
    <3>1. PICK k \in 1 .. 88 : k = key % 256 /\ key = EXT + k
      BY <2>1, CodesOfKeys
    <3>. QED  BY <1>1, <2>1, <3>1, SMT, Z3 DEF EXT, PREFIX
  <2>2. CASE ~extended(key)
    BY <1>1, <2>2, CodesOfKeys DEF EXT, PREFIX
  <2>. QED  BY <2>1, <2>2
<1>. QED  BY <1>1, <1>2, Zenon DEF intr_keyboard_handler, merge

LEMMA BreakStep ==
  ASSUME intr_keyboard_handler, KeysOK, NEW key \in KeyNumber, NEW char,
         ext_scancode <=> extended(key), Head(wire) = scan(key, TRUE, char)
  PROVE  /\ wire' = Tail(wire) /\ ~ext_scancode'
         /\ UNCHANGED handVars
         /\ break_code(key)
<1>. DEFINE byte == Head(wire).byte
            code == IF ext_scancode THEN EXT + byte ELSE byte
<1>1. byte = (key % 256) + 128 /\ Head(wire).char = char
  BY CodesOfKeys, SMT, Z3 DEF scan
<1>2. byte >= 128 /\ byte # PREFIX /\ ~(byte < 128) /\ code - 128 = key
  <2>1. CASE extended(key)
    <3>1. PICK k \in 1 .. 88 : k = key % 256 /\ key = EXT + k
      BY <2>1, CodesOfKeys
    <3>. QED  BY <1>1, <2>1, <3>1, SMT, Z3 DEF EXT, PREFIX
  <2>2. CASE ~extended(key)
    BY <1>1, <2>2, CodesOfKeys, SMT, Z3 DEF EXT, PREFIX
  <2>. QED  BY <2>1, <2>2
<1>. QED  BY <1>1, <1>2, Zenon DEF intr_keyboard_handler, merge

-----------------------------------------------------------------------------
(* The last byte of a key of Hold that goes down: the handler records it. *)
LEMMA HoldGoesDown ==
  ASSUME KeysOK, KeysDecoded, NEW key \in Hold, key \in held, OneOfKind(held),
         Matches(held \ {key}, caps), make_code(key, NUL), UNCHANGED handVars
  PROVE  Matches(held, caps)' /\ KeysDecoded' /\ UNCHANGED kbd_buf
<1>1. key \in Shift \cup Ctrl \cup Alt
  BY KeyboardAssumption, SMT, Z3
<1>2. cur_char(key) = NUL
  BY <1>1, SMT, Z3 DEF cur_char, keymap, NUL, Shift, Ctrl, Alt, EXT, shift_l_make, shift_r_make,
     ctrl_l_make, ctrl_r_make, alt_l_make, alt_r_make, l, u
<1>3. /\ ctrl_status' = (ctrl_status \/ key % 256 \in Ctrl)
      /\ shift_status' = (shift_status \/ key % 256 \in Shift)
      /\ caps_lock_status' = (caps_lock_status # (key % 256 = caps_lock_make))
      /\ UNCHANGED <<kbd_buf, meant>>
  BY <1>2 DEF make_code
<1>4. /\ key % 256 \in Ctrl <=> key \in Ctrl
      /\ key % 256 \in Shift <=> key \in Shift
      /\ key % 256 # caps_lock_make
  BY <1>1 DEF Shift, Ctrl, Alt, EXT, shift_l_make, shift_r_make,
     ctrl_l_make, ctrl_r_make, alt_l_make, alt_r_make, caps_lock_make
<1>5. /\ held \cap Ctrl # {} <=> (held \ {key}) \cap Ctrl # {} \/ key \in Ctrl
      /\ held \cap Shift # {} <=> (held \ {key}) \cap Shift # {} \/ key \in Shift
  OBVIOUS
<1>6. /\ ctrl_status' = (held \cap Ctrl # {})
      /\ shift_status' = (held \cap Shift # {})
      /\ caps_lock_status' = caps
  <2>1. /\ ctrl_status = ((held \ {key}) \cap Ctrl # {})
        /\ shift_status = ((held \ {key}) \cap Shift # {})
        /\ caps_lock_status = caps
    BY Zenon DEF Matches
  <2>2. ctrl_status' = (held \cap Ctrl # {})
    BY <1>3, <1>4, <1>5, <2>1, Zenon
  <2>3. shift_status' = (held \cap Shift # {})
    BY <1>3, <1>4, <1>5, <2>1, Zenon
  <2>4. caps_lock_status \in BOOLEAN
    BY DEF KeysOK
  <2>5. caps_lock_status' = caps
    BY <1>3, <1>4, <2>1, <2>4, Zenon
  <2>. QED  BY <2>2, <2>3, <2>5
<1>. QED  BY <1>3, <1>6, SMT, Z3 DEF Matches, KeysDecoded, handVars

(* The last byte of a key of Hold that goes up: no other key of its kind is   *)
(* down, so the status is cleared rightly.                                  *)
LEMMA HoldGoesUp ==
  ASSUME KeysOK, KeysDecoded, NEW key \in Hold, key \notin held, OneOfKind(held \cup {key}),
         Matches(held \cup {key}, caps), break_code(key), UNCHANGED handVars
  PROVE  Matches(held, caps)' /\ KeysDecoded' /\ UNCHANGED kbd_buf
<1>1. /\ held \cap Ctrl # {} <=> (held \cup {key}) \cap Ctrl # {} /\ key \notin Ctrl
      /\ held \cap Shift # {} <=> (held \cup {key}) \cap Shift # {} /\ key \notin Shift
  <2>1. ASSUME NEW kind \in {Shift, Ctrl, Alt}, key \in kind  PROVE held \cap kind = {}
    BY <2>1, SMT, Z3 DEF OneOfKind
  <2>. QED  BY <2>1, SMT, Z3
<1>2. /\ ctrl_status' = (held \cap Ctrl # {})
      /\ shift_status' = (held \cap Shift # {})
      /\ caps_lock_status' = caps
  BY <1>1, Zenon DEF break_code, Matches, KeysOK
<1>. QED  BY <1>2, SMT, Z3 DEF Matches, KeysDecoded, handVars, break_code

(* The make code of a key that is struck: its character is stored, caps lock *)
(* is turned, or nothing happens.                                           *)
LEMMA TapGoesDown ==
  ASSUME KeysOK, KeysDecoded, NEW key \in Tap, Matches(held, caps # (key = caps_lock_make)),
         UNCHANGED handVars,
         IF known(key) THEN make_code(key, Printed(key))
         ELSE UNCHANGED <<statusVars, kbd_buf, meant>>
  PROVE  Matches(held, caps)' /\ KeysDecoded'
<1>1. CASE ~known(key)
  <2>1. key # caps_lock_make
    BY <1>1 DEF known, caps_lock_make
  <2>. QED  BY <1>1, <2>1 DEF Matches, KeysDecoded, handVars, statusVars, KeysOK
<1>2. CASE known(key) /\ key = caps_lock_make
  <2>1. cur_char(key) = NUL /\ key % 256 = caps_lock_make
    BY <1>2 DEF cur_char, keymap, NUL, caps_lock_make, l, u
  <2>2. /\ ctrl_status' = ctrl_status /\ shift_status' = shift_status
        /\ caps_lock_status' = ~caps_lock_status /\ UNCHANGED <<kbd_buf, meant>>
    BY <1>2, <2>1 DEF make_code, KeysOK, Shift, Ctrl, EXT, shift_l_make, shift_r_make,
       ctrl_l_make, ctrl_r_make, caps_lock_make
  <2>. QED  BY <1>2, <2>2, Zenon DEF Matches, KeysDecoded, handVars, KeysOK
<1>3. CASE known(key) /\ key # caps_lock_make
  <2>1. Matches(held, caps)
    BY <1>3 DEF Matches, KeysOK
  <2>2. cur_char(key) = Printed(key) /\ Printed(key) # NUL
    BY <1>3, <2>1, CapIsDecoded, SMT, Z3
  <2>3. UNCHANGED statusVars /\ kbd_buf' = meant'
    BY <1>3, <2>2, SMT, Z3 DEF make_code, KeysDecoded
  <2>. QED  BY <2>1, <2>3 DEF Matches, KeysDecoded, handVars, statusVars
<1>. QED  BY <1>1, <1>2, <1>3

(* The break code of a key that is struck changes nothing. *)
LEMMA TapGoesUp ==
  ASSUME KeysOK, KeysDecoded, NEW key \in Tap, Matches(held, caps), break_code(key),
         UNCHANGED handVars
  PROVE  Matches(held, caps)' /\ KeysDecoded'
<1>1. key \notin Shift \cup Ctrl \cup Alt
  BY KeyboardAssumption
<1>. QED  BY <1>1, Zenon DEF break_code, Matches, KeysDecoded, handVars, KeysOK

-----------------------------------------------------------------------------
(* The interrupts of a key of Hold. *)
LEMMA ShiftingStep ==
  ASSUME Inv, intr_keyboard_handler, NEW key \in Hold, NEW up \in BOOLEAN, Shifting(key, up)
  PROVE  Inv'
<1>. DEFINE h == IF up THEN held \cup {key} ELSE held \ {key}
<1>1. KeysOK /\ KeysDecoded /\ key \in KeyNumber
  BY KeysHaveNumbers DEF Inv
<1>2. CASE extended(key) /\ ~ext_scancode /\ wire = <<prefix, scan(key, up, NUL)>>
  <2>1. Head(wire) = prefix /\ Tail(wire) = <<scan(key, up, NUL)>>
    BY <1>2
  <2>2. /\ wire' = <<scan(key, up, NUL)>> /\ ext_scancode' = TRUE
        /\ UNCHANGED <<handVars, statusVars, kbd_buf, meant>>
    BY <2>1, PrefixStep, Zenon DEF intr_keyboard_handler, prefix
  <2>3. Shifting(key, up)'
    BY <1>2, <2>2 DEF Shifting, Matches, OneOfKind, handVars, statusVars, extended
  <2>4. KeysOK' /\ KeysDecoded'
    BY <1>1, <2>2 DEF KeysOK, KeysDecoded, OneOfKind, handVars, statusVars
  <2>. QED  BY <2>3, <2>4 DEF Inv, Phase
<1>3. CASE (ext_scancode <=> extended(key)) /\ wire = <<scan(key, up, NUL)>>
  <2>1. Head(wire) = scan(key, up, NUL) /\ Tail(wire) = <<>>
    BY <1>3
  <2>2. Matches(held, caps)' /\ KeysDecoded' /\ wire' = <<>> /\ ~ext_scancode' /\ UNCHANGED handVars
    <3>1. CASE up
      <4>1. /\ wire' = <<>> /\ ~ext_scancode' /\ UNCHANGED handVars /\ break_code(key)
        BY <1>1, <1>3, <2>1, <3>1, BreakStep, Zenon
      <4>. QED  BY <1>1, <3>1, <4>1, HoldGoesUp, Zenon DEF Shifting
    <3>2. CASE ~up
      <4>1. known(key)
        BY KeyboardAssumption DEF known, Shift, Ctrl, Alt, shift_l_make, shift_r_make,
           ctrl_l_make, alt_l_make
      <4>2. /\ wire' = <<>> /\ ~ext_scancode' /\ UNCHANGED handVars /\ make_code(key, NUL)
        BY <1>1, <1>3, <2>1, <3>2, <4>1, MakeStep, Zenon
      <4>. QED  BY <1>1, <3>2, <4>2, HoldGoesDown, Zenon DEF Shifting, Inv, KeysOK
    <3>. QED  BY <3>1, <3>2, SMT, Z3
  <2>3. ext_scancode' \in BOOLEAN
    BY <2>2, Zenon DEF intr_keyboard_handler, merge
  <2>4. KeysOK'
    BY <1>1, <2>2, <2>3 DEF KeysOK, Matches, handVars, OneOfKind
  <2>. QED  BY <2>2, <2>4 DEF Inv, Phase, Quiet
<1>. QED  BY <1>2, <1>3 DEF Shifting

(* The interrupts of a key of Tap, before and behind its make code. *)
LEMMA MakingStep ==
  ASSUME Inv, intr_keyboard_handler, NEW key \in Tap, Making(key)
  PROVE  Inv'
<1>. DEFINE make == scan(key, FALSE, Printed(key))
            break == scan(key, TRUE, NUL)
<1>1. KeysOK /\ KeysDecoded /\ key \in KeyNumber
  BY KeysHaveNumbers DEF Inv
<1>2. CASE extended(key) /\ ~ext_scancode /\ wire = <<prefix, make, prefix, break>>
  <2>1. Head(wire) = prefix /\ Tail(wire) = <<make, prefix, break>>
    <3>. HIDE DEF make, break
    <3>1. wire = <<prefix, make, prefix, break>>
      BY <1>2
    <3>. QED  BY <3>1, Tuple4, Zenon
  <2>2. /\ wire' = <<make, prefix, break>> /\ ext_scancode' = TRUE
        /\ UNCHANGED <<handVars, statusVars, kbd_buf, meant>>
    BY <2>1, PrefixStep, Zenon DEF intr_keyboard_handler, prefix
  <2>3. Printed(key)' = Printed(key)
    BY <2>2, SMT, Z3 DEF Printed, handVars
  <2>4. Making(key)'
    BY <1>2, <2>2, <2>3, SMT, Z3 DEF Making, Matches, handVars, statusVars, extended
  <2>5. KeysOK' /\ KeysDecoded'
    BY <1>1, <2>2, SMT, Z3 DEF KeysOK, KeysDecoded, OneOfKind, handVars, statusVars
  <2>. QED  BY <2>4, <2>5 DEF Inv, Phase
<1>3. CASE \/ extended(key) /\ ext_scancode /\ wire = <<make, prefix, break>>
           \/ ~extended(key) /\ ~ext_scancode /\ wire = <<make, break>>
  <2>1. /\ Head(wire) = make
        /\ extended(key) => Tail(wire) = <<prefix, break>>
        /\ ~extended(key) => Tail(wire) = <<break>>
    <3>1. CASE extended(key)
      BY <1>3, <3>1, Tuple3, Zenon
    <3>2. CASE ~extended(key)
      BY <1>3, <3>2, Tuple2, Zenon
    <3>. QED  BY <3>1, <3>2, Zenon
  <2>2. /\ wire' = Tail(wire) /\ ~ext_scancode' /\ UNCHANGED handVars
        /\ IF known(key) THEN make_code(key, Printed(key))
           ELSE UNCHANGED <<statusVars, kbd_buf, meant>>
    BY <1>1, <1>3, <2>1, MakeStep, Zenon
  <2>3. Matches(held, caps)' /\ KeysDecoded'
    BY <1>1, <2>2, TapGoesDown DEF Making
  <2>4. ext_scancode' = FALSE
    BY <1>3, <2>2 DEF intr_keyboard_handler, merge
  <2>5. Breaking(key)'
    <3>1. CASE extended(key)
      <4>1. wire' = <<prefix, break>>
        BY <2>1, <2>2, <3>1, Zenon
      <4>. QED  BY <2>3, <2>4, <3>1, <4>1, Zenon DEF Breaking, extended
    <3>2. CASE ~extended(key)
      <4>1. wire' = <<break>>
        BY <2>1, <2>2, <3>2, Zenon
      <4>2. ext_scancode' <=> extended(key)
        BY <2>4, <3>2 DEF extended
      <4>. QED  BY <2>3, <3>2, <4>1, <4>2, Zenon DEF Breaking, extended
    <3>. QED  BY <3>1, <3>2
  <2>6. KeysOK'
    BY <1>1, <2>2, <2>3, <2>4, Zenon DEF KeysOK, Matches, handVars, OneOfKind
  <2>. QED  BY <2>3, <2>5, <2>6, SMT, Z3 DEF Inv, Phase
<1>. QED  BY <1>2, <1>3, Zenon DEF Making

LEMMA BreakingStep ==
  ASSUME Inv, intr_keyboard_handler, NEW key \in Tap, Breaking(key)
  PROVE  Inv'
<1>. DEFINE break == scan(key, TRUE, NUL)
<1>1. KeysOK /\ KeysDecoded /\ key \in KeyNumber
  BY KeysHaveNumbers DEF Inv
<1>2. CASE extended(key) /\ ~ext_scancode /\ wire = <<prefix, break>>
  <2>1. Head(wire) = prefix /\ Tail(wire) = <<break>>
    BY <1>2, Tuple2, Zenon
  <2>2. /\ wire' = <<break>> /\ ext_scancode' = TRUE
        /\ UNCHANGED <<handVars, statusVars, kbd_buf, meant>>
    BY <2>1, PrefixStep, Zenon DEF intr_keyboard_handler, prefix
  <2>3. Breaking(key)'
    BY <1>2, <2>2, SMT, Z3 DEF Breaking, Matches, handVars, statusVars, extended
  <2>4. KeysOK' /\ KeysDecoded'
    BY <1>1, <2>2, SMT, Z3 DEF KeysOK, KeysDecoded, OneOfKind, handVars, statusVars
  <2>. QED  BY <2>3, <2>4 DEF Inv, Phase
<1>3. CASE (ext_scancode <=> extended(key)) /\ wire = <<break>>
  <2>1. Head(wire) = break /\ Tail(wire) = <<>>
    BY <1>3
  <2>2. wire' = <<>> /\ ~ext_scancode' /\ UNCHANGED handVars /\ break_code(key)
    BY <1>1, <1>3, <2>1, BreakStep, Zenon
  <2>3. Matches(held, caps)' /\ KeysDecoded'
    BY <1>1, <2>2, TapGoesUp DEF Breaking
  <2>4. ext_scancode' \in BOOLEAN
    BY <2>2, Zenon DEF intr_keyboard_handler, merge
  <2>5. KeysOK'
    BY <1>1, <2>2, <2>3, <2>4 DEF KeysOK, Matches, handVars, OneOfKind
  <2>. QED  BY <2>2, <2>3, <2>5 DEF Inv, Phase, Quiet
<1>. QED  BY <1>2, <1>3, Zenon DEF Breaking

-----------------------------------------------------------------------------
(* The keyboard sends only in Quiet. *)
LEMMA SendsWhenQuiet ==
  ASSUME Inv, wire = <<>>
  PROVE  Quiet
BY DEF Inv, Phase, Shifting, Making, Breaking

LEMMA PressStep ==
  ASSUME ~Together, Inv, NEW key \in Hold, Press(key)
  PROVE  Inv'
<1>1. Quiet /\ KeysOK /\ key \notin held /\ held' = held \cup {key}
  BY SendsWhenQuiet DEF Press, Inv
<1>2. OneOfKind(held')
  BY <1>1 DEF Press, KeysOK, OneOfKind
<1>3. held' \ {key} = held /\ held' \cup {key} = held'
  BY <1>1
<1>4. Matches(held \ {key}, caps)'
  BY <1>1, <1>3 DEF Press, Quiet, Matches, statusVars
<1>5. \/ extended(key) /\ ~ext_scancode' /\ wire' = <<prefix, scan(key, FALSE, NUL)>>
      \/ (ext_scancode' <=> extended(key)) /\ wire' = <<scan(key, FALSE, NUL)>>
  <2>1. ext_scancode' = FALSE /\ wire' = bytes(key, FALSE)
    BY <1>1, SMT, Z3 DEF Press, Quiet, KeysOK
  <2>. QED  BY <2>1, Zenon DEF bytes, extended
<1>6. Shifting(key, FALSE)'
  BY <1>1, <1>2, <1>3, <1>4, <1>5, Zenon DEF Shifting, extended
<1>. QED  BY <1>1, <1>2, <1>6, Zenon DEF Press, Inv, Phase, KeysOK, KeysDecoded, statusVars, OneOfKind

LEMMA ReleaseStep ==
  ASSUME Inv, NEW key \in Hold, Release(key)
  PROVE  Inv'
<1>1. Quiet /\ KeysOK /\ key \in held /\ held' = held \ {key}
  BY SendsWhenQuiet DEF Release, Inv
<1>2. OneOfKind(held')
  BY <1>1 DEF KeysOK, OneOfKind
<1>3. held' \cup {key} = held
  BY <1>1, SMT, Z3
<1>4. Matches(held \cup {key}, caps)'
  BY <1>1, <1>3 DEF Release, Quiet, Matches, statusVars
<1>5. \/ extended(key) /\ ~ext_scancode' /\ wire' = <<prefix, scan(key, TRUE, NUL)>>
      \/ (ext_scancode' <=> extended(key)) /\ wire' = <<scan(key, TRUE, NUL)>>
  <2>1. ext_scancode' = FALSE /\ wire' = bytes(key, TRUE)
    BY <1>1, SMT, Z3 DEF Release, Quiet, KeysOK
  <2>. QED  BY <2>1, Zenon DEF bytes, extended
<1>6. Shifting(key, TRUE)'
  BY <1>1, <1>3, <1>4, <1>5, Zenon DEF Shifting, extended, KeysOK, OneOfKind
<1>. QED  BY <1>1, <1>2, <1>6, Zenon DEF Release, Inv, Phase, KeysOK, KeysDecoded, statusVars, OneOfKind

LEMMA StrikeStep ==
  ASSUME Inv, NEW key \in Tap, Strike(key)
  PROVE  Inv'
<1>1. Quiet /\ KeysOK /\ held' = held /\ caps' = (caps # (key = caps_lock_make))
  BY SendsWhenQuiet DEF Strike, Inv
<1>2. Printed(key)' = Printed(key)
  <2>1. CASE key = caps_lock_make
    BY <2>1, SMT, Z3 DEF Printed, caps_lock_make
  <2>2. CASE key # caps_lock_make
    BY <1>1, <2>2, SMT, Z3 DEF Printed, KeysOK
  <2>. QED  BY <2>1, <2>2, SMT, Z3
<1>3. Matches(held, caps # (key = caps_lock_make))'
  BY <1>1, SMT, Z3 DEF Strike, Quiet, Matches, KeysOK, statusVars
<1>4. Making(key)'
  BY <1>1, <1>2, <1>3, Zenon DEF Strike, Quiet, Making, extended
<1>. QED  BY <1>1, <1>4 DEF Strike, Inv, Phase, KeysOK, KeysDecoded, statusVars, OneOfKind

-----------------------------------------------------------------------------
LEMMA InitInv == keyboard_init => Inv
BY Zenon DEF keyboard_init, Inv, KeysOK, OneOfKind, KeysDecoded, Phase, Quiet, Matches

LEMMA NextInv ==
  ASSUME ~Together, Inv, [KeyboardStep \/ getchar]_keyVars
  PROVE  Inv'
<1>1. CASE intr_keyboard_handler
  <2>1. ~Quiet
    BY <1>1, SMT, Z3 DEF intr_keyboard_handler, Quiet
  <2>. QED  BY <1>1, <2>1, ShiftingStep, MakingStep, BreakingStep, SMT, Z3 DEF Inv, Phase
<1>2. CASE \/ getchar \/ UNCHANGED keyVars
  <2>1. UNCHANGED <<handVars, wire, statusVars, ext_scancode>> /\ KeysDecoded'
    BY <1>2, SMT, Z3 DEF getchar, keyVars, Inv, KeysDecoded
  <2>2. \A key : Printed(key)' = Printed(key)
    BY <2>1, SMT, Z3 DEF Printed, handVars
  <2>3. Phase'
    <3>1. Quiet => Quiet'
      BY <2>1, Zenon DEF Quiet, Matches, handVars, statusVars
    <3>2. ASSUME NEW key \in Hold, NEW up \in BOOLEAN, Shifting(key, up)
          PROVE  Shifting(key, up)'
      BY <2>1, <3>2, Zenon DEF Shifting, Matches, OneOfKind, handVars, statusVars
    <3>3. ASSUME NEW key \in Tap, Making(key)
          PROVE  Making(key)'
      BY <2>1, <2>2, <3>3, Zenon DEF Making, Matches, handVars, statusVars
    <3>4. ASSUME NEW key \in Tap, Breaking(key)
          PROVE  Breaking(key)'
      BY <2>1, <3>4, Zenon DEF Breaking, Matches, handVars, statusVars
    <3>. QED  BY <3>1, <3>2, <3>3, <3>4, Zenon DEF Inv, Phase
  <2>4. KeysOK'
    BY <2>1 DEF Inv, KeysOK, OneOfKind, handVars, statusVars
  <2>. QED  BY <2>1, <2>3, <2>4, SMT, Z3 DEF Inv
<1>. QED  BY <1>1, <1>2, PressStep, ReleaseStep, StrikeStep DEF KeyboardStep

(* Whichever keys there are and however they are struck, once the interrupts *)
(* of the bytes sent have been taken, ctrl_status, shift_status and          *)
(* caps_lock_status are what the keys are, if two shifts or two ctrls are     *)
(* never down together.                                                     *)
THEOREM StatusesRight ==
  ASSUME ~Together
  PROVE  KeyboardSpec => []StatusMatchesKeys
<1>1. Inv => StatusMatchesKeys
  BY SendsWhenQuiet DEF StatusMatchesKeys, Quiet, Matches
<1>. QED  BY <1>1, InitInv, NextInv, PTL DEF KeyboardSpec

(* Every character in kbd_buf is the one that the key struck stands for, in   *)
(* the order of the keys, whatever the capacity and whoever reads.           *)
THEOREM KeysRight ==
  ASSUME ~Together
  PROVE  KeyboardSpec => []KeysDecoded
<1>1. Inv => KeysDecoded
  BY DEF Inv
<1>. QED  BY <1>1, InitInv, NextInv, PTL DEF KeyboardSpec
=============================================================================
