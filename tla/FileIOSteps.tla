----------------------------- MODULE FileIOSteps -----------------------------
(***************************************************************************)
(* The inductive invariant of module FileIO and what keeps it: the initial   *)
(* state, the reads, and the data loop of a write. FileIOProofs goes on with  *)
(* the allocation of blocks and states the theorems.                        *)
(***************************************************************************)
EXTENDS FileIO, TLAPS

(* No count takes a position past the end of uint32_t: counts stay below     *)
(* 2^32 - 71680.                                                            *)
Counted ==
  /\ BLOCK_SIZE * MaxBlocks < WORD
  /\ \A n \in WriteCount \cup ReadCount : n \in Nat /\ BLOCK_SIZE * MaxBlocks + n < WORD

Limit == BLOCK_SIZE * MaxBlocks
Addr == {0} \cup Block
Offset == 0 .. BLOCK_SIZE - 1
Index == 0 .. MaxBlocks - 1
Byte == (File \X (0 .. 2)) \cup {ZERO}
Point == {"idle", "w_plan", "w_alloc", "w_first", "w_chunk", "w_next", "r_chunk"}

Typed ==
  /\ i_size \in [File -> 0 .. Limit - 1]
  /\ i_sectors \in [File -> [0 .. Direct -> Addr]]
  /\ fd_pos \in [Fd -> Nat]
  /\ used \subseteq Block
  /\ sector \in [Block -> [Offset -> Byte]]
  /\ table \in [Block -> [Direct .. MaxBlocks - 1 -> Addr]]
  /\ pc \in [Fd -> Point]
  /\ all_blocks \in [Fd -> [Index -> Addr]]
  /\ block_idx \in [Fd -> Nat] /\ will_use \in [Fd -> Nat] /\ left \in [Fd -> Nat]
  /\ io_buf \in [Fd -> [Offset -> Byte]]
  /\ from \in [Fd -> Nat] /\ buf \in [Fd -> Seq(Byte)]

(* The block that the end of a file lies in. *)
last(f) == i_size[f] \div BLOCK_SIZE

(* The file has its first n blocks and no others, and a table if it needs one. *)
HasBlocks(f, n) ==
  /\ \A i \in Index : block_of(f, i) # 0 <=> i < n
  /\ i_sectors[f][Table] # 0 <=> n > Direct

(* Between writes: nothing has been written, or all blocks up to the last. *)
Settled(f) ==
  \/ i_size[f] = 0 /\ \A i \in 0 .. Direct : i_sectors[f][i] = 0
  \/ i_sectors[f][0] # 0 /\ HasBlocks(f, last(f) + 1)

(* A write that has planned how many blocks the file will have. *)
Planned(d) ==
  /\ will_use[d] = (i_size[file_of[d]] + left[d]) \div BLOCK_SIZE + 1
  /\ will_use[d] <= MaxBlocks

(* The new blocks of the table are in all_blocks only, until the table is    *)
(* written; the direct ones are in the inode at once.                       *)
Allocating(d) ==
  LET f == file_of[d] IN
  /\ Planned(d)
  /\ last(f) + 1 <= block_idx[d] /\ block_idx[d] <= will_use[d]
  /\ i_sectors[f][Table] # 0 <=> will_use[d] > Direct
  /\ \A i \in 0 .. Direct - 1 : i_sectors[f][i] # 0 <=> i < block_idx[d]
  /\ \A i \in 0 .. Direct - 1 : last(f) <= i /\ i < block_idx[d] => all_blocks[d][i] = i_sectors[f][i]
  /\ \A i \in Direct .. MaxBlocks - 1 :
       /\ all_blocks[d][i] # 0 <=> i < block_idx[d]
       /\ block_of(f, i) = IF i <= last(f) THEN all_blocks[d][i] ELSE 0

(* All blocks are there, and all_blocks knows those that are written to. *)
Writing(d) ==
  LET f == file_of[d] IN
  /\ Planned(d)
  /\ HasBlocks(f, will_use[d])
  /\ \A i \in last(f) .. will_use[d] - 1 : all_blocks[d][i] = block_of(f, i)

(* The bytes of the last block of f from the offset a up to b. *)
Bytes(f, s, a, b) == \A o \in a .. b - 1 : s[o] = ByteOf(f, last(f) * BLOCK_SIZE + o)

WriterOK(d) ==
  LET f == file_of[d]
      off == i_size[f] % BLOCK_SIZE
      n == chunk_size(i_size[f], left[d])
  IN
  /\ pc[d] = "w_plan" => i_sectors[f][0] # 0 /\ HasBlocks(f, last(f) + 1) /\ i_size[f] + left[d] < WORD
  /\ pc[d] = "w_alloc" => Allocating(d)
  /\ pc[d] \in {"w_first", "w_chunk", "w_next"} => Writing(d)
  /\ pc[d] \in {"w_chunk", "w_next"} => left[d] # 0
  /\ pc[d] = "w_chunk" => Bytes(f, io_buf[d], 0, off)
  /\ pc[d] = "w_next" => Bytes(f, sector[block_of(f, last(f))], off, off + n)

Writers == \A d \in Writer : WriterOK(d)
InWrite == {"w_plan", "w_alloc", "w_first", "w_chunk", "w_next"}
Resting(f) == \A d \in Writer : file_of[d] = f => pc[d] \notin InWrite
Files == \A f \in File : Resting(f) => Settled(f)
OnlyWriters == \A d \in Fd \ Writer : pc[d] \in {"idle", "r_chunk"}

(* Every byte of a file is where the file was when it was written. *)
Data ==
  \A f \in File : \A k \in 0 .. i_size[f] - 1 :
    sector[block_of(f, k \div BLOCK_SIZE)][k % BLOCK_SIZE] = ByteOf(f, k)

(* A read has a way to go, inside the file, and knows the blocks on it. *)
ReaderOK(d) ==
  LET f == file_of[d] IN
  pc[d] = "r_chunk" =>
    /\ left[d] # 0 /\ fd_pos[d] + left[d] <= i_size[f]
    /\ fd_pos[d] = from[d] + Len(buf[d])
    /\ \A k \in fd_pos[d] .. fd_pos[d] + left[d] - 1 :
         all_blocks[d][k \div BLOCK_SIZE] = block_of(f, k \div BLOCK_SIZE)

Readers == \A d \in Fd : ReaderOK(d)
Positions == \A d \in Fd : fd_pos[d] <= i_size[file_of[d]] \/ fd_pos[d] = WORD - 1

(* Where block addresses are kept: in the inode, in the table on disk or in   *)
(* all_blocks while it is filled, and, last, that of the table itself.      *)
writer(f) == CHOOSE d \in Writer : file_of[d] = f
allocates(f) == \E d \in Writer : file_of[d] = f /\ pc[d] = "w_alloc"
place(f, i) ==
  IF i = MaxBlocks THEN i_sectors[f][Table]
  ELSE IF i >= Direct /\ allocates(f) THEN all_blocks[writer(f)][i]
  ELSE block_of(f, i)

(* A block is in one place, and marked in the bitmap if and only if it is in *)
(* one; the others hold no table.                                           *)
Exclusive ==
  /\ \A f, g \in File : \A i, j \in 0 .. MaxBlocks :
       place(f, i) # 0 /\ place(f, i) = place(g, j) => f = g /\ i = j
  /\ \A b \in Block : b \in used <=> \E f \in File, i \in 0 .. MaxBlocks : place(f, i) = b
  /\ \A b \in Block \ used : \A i \in Direct .. MaxBlocks - 1 : table[b][i] = 0

IInv ==
  /\ Typed /\ OnlyWriters /\ Files /\ Writers /\ Readers /\ Positions /\ ReadCorrect
  /\ Data /\ Exclusive

-----------------------------------------------------------------------------
(* What the provers know of sequences, in the form the buffers need it. *)
LEMMA SameSeq ==
  ASSUME NEW S, NEW s \in Seq(S), NEW r \in Seq(S), Len(r) = Len(s), \A i \in 1 .. Len(r) : s[i] = r[i]
  PROVE  s = r
OBVIOUS

LEMMA SeqConcat ==
  ASSUME NEW S, NEW s \in Seq(S), NEW r \in Seq(S)
  PROVE  /\ s \o r \in Seq(S) /\ Len(s \o r) = Len(s) + Len(r)
         /\ \A i \in 1 .. Len(s) + Len(r) : (s \o r)[i] = IF i <= Len(s) THEN s[i] ELSE r[i - Len(s)]
OBVIOUS

(* Quotient and remainder by the size of a block. *)
LEMMA Small ==
  /\ 0 \in Nat /\ \A n \in Nat : n <= n
  /\ \A n \in Nat : \A k \in 0 .. n - 1 : k \in Nat /\ k <= n
  /\ \A n \in Nat : \A k \in 1 .. n : k \in Nat /\ k >= 1 /\ k <= n
  /\ \A m, n \in Nat : n >= 1 /\ n <= m /\ m # n => m - n \in Nat /\ m - n # 0
  /\ \A l, w \in Nat : l < w => w - 1 >= l
  /\ \A m, n \in Nat : \A k \in 0 .. m - 1 : k < n => k \in 0 .. n - 1
  /\ \A n \in Nat : \A k \in 0 .. n - 1 : k < n
  /\ \A a, m, n \in Nat : n <= m => (a + n) + (m - n) = a + m
OBVIOUS

(* The bytes a .. a + n - 1 of a chunk of what is left, m bytes. *)
LEMMA InChunk ==
  ASSUME NEW a \in Nat, NEW m \in Nat, NEW n \in 1 .. m, NEW i \in 1 .. n, NEW z \in Nat, a + m <= z
  PROVE  /\ a + i - 1 \in Nat /\ a + i - 1 \in a .. a + n - 1
         /\ a + i - 1 \in a .. a + m - 1 /\ a + i - 1 \in 0 .. z - 1
OBVIOUS

(* What is left when a chunk has been read. *)
LEMMA AfterChunk ==
  ASSUME NEW a \in Nat, NEW m \in Nat, NEW n \in 1 .. m
  PROVE  /\ n \in Nat /\ (m # n => m - n # 0) /\ (a + n) + (m - n) = a + m
         /\ \A k \in a + n .. (a + n) + (m - n) - 1 : k \in a .. a + m - 1
OBVIOUS

LEMMA LenNat ==
  ASSUME NEW S, NEW s \in Seq(S)
  PROVE  Len(s) \in Nat
OBVIOUS

(* The j-th byte of a chunk that follows the m bytes of s. *)
LEMMA ConcatAt ==
  ASSUME NEW S, NEW s \in Seq(S), NEW r \in Seq(S), NEW j \in 1 .. Len(r)
  PROVE  (s \o r)[Len(s) + j] = r[j]
OBVIOUS

(* Where that byte is in the file, if the m bytes start at a. *)
LEMMA ChunkPlace ==
  ASSUME NEW a \in Nat, NEW m \in Nat, NEW n \in Nat, NEW j \in 1 .. n
  PROVE  (a + m) + j - 1 = a + (m + j) - 1
OBVIOUS

LEMMA ChunkEnd ==
  ASSUME NEW a \in Nat, NEW m \in Nat, NEW n \in 1 .. m, NEW z \in Nat, a + m <= z
  PROVE  a + n \in Nat /\ a + n <= z
OBVIOUS

LEMMA Grown ==
  ASSUME NEW a \in Nat, NEW m \in Nat, NEW n \in Nat, n <= m, NEW z \in Nat, a + m < z
  PROVE  a + n \in 0 .. z - 1 /\ a <= a + n
OBVIOUS

LEMMA Between ==
  ASSUME NEW a \in Nat, NEW b \in Nat, NEW q \in Nat, a <= q, q <= b
  PROVE  q \in a .. b /\ \A m \in Nat : ~(q < m) => b >= m
OBVIOUS

LEMMA OffsetNat == BLOCK_SIZE \in Nat /\ \A o \in Offset : o \in Nat
BY FileIOAssumption DEF Offset

LEMMA Product ==
  ASSUME NEW q \in Nat
  PROVE  BLOCK_SIZE * q \in Nat /\ BLOCK_SIZE * q = q * BLOCK_SIZE
BY FileIOAssumption

LEMMA DivMod ==
  ASSUME NEW k \in Nat
  PROVE  /\ k \div BLOCK_SIZE \in Nat /\ k % BLOCK_SIZE \in Offset
         /\ k = BLOCK_SIZE * (k \div BLOCK_SIZE) + (k % BLOCK_SIZE)
<1>. USE FileIOAssumption
<1>. QED  BY DEF Offset

LEMMA Times ==
  ASSUME NEW p \in Nat, NEW q \in Nat, p < q
  PROVE  BLOCK_SIZE * p + BLOCK_SIZE <= BLOCK_SIZE * q
<1>1. PICK m \in Nat : q = p + 1 + m
  <2>1. q - p - 1 \in Nat /\ q = p + 1 + (q - p - 1)
    OBVIOUS
  <2>. QED  BY <2>1
<1>2. BLOCK_SIZE \in Nat
  BY FileIOAssumption
<1>3. BLOCK_SIZE * q = BLOCK_SIZE * p + BLOCK_SIZE + BLOCK_SIZE * m
  BY <1>1, <1>2
<1>4. BLOCK_SIZE * m \in Nat /\ BLOCK_SIZE * p \in Nat
  BY <1>2
<1>. QED  BY <1>2, <1>3, <1>4

LEMMA DivUnique ==
  ASSUME NEW k \in Nat, NEW q \in Nat, NEW r \in Offset, k = BLOCK_SIZE * q + r
  PROVE  k \div BLOCK_SIZE = q /\ k % BLOCK_SIZE = r
<1>. DEFINE p == k \div BLOCK_SIZE
            s == k % BLOCK_SIZE
<1>1. p \in Nat /\ s \in Offset /\ k = BLOCK_SIZE * p + s
  BY DivMod
<1>. HIDE DEF p, s
<1>2. BLOCK_SIZE \in Nat \ {0} /\ BLOCK_SIZE * p \in Nat /\ BLOCK_SIZE * q \in Nat
  BY <1>1, FileIOAssumption
<1>3. ~(p < q)
  BY <1>1, <1>2, Times DEF Offset
<1>4. ~(q < p)
  BY <1>1, <1>2, Times DEF Offset
<1>5. p = q
  BY <1>1, <1>3, <1>4
<1>6. s = r
  BY <1>1, <1>2, <1>5 DEF Offset
<1>. QED  BY <1>5, <1>6 DEF p, s

LEMMA DivMono ==
  ASSUME NEW j \in Nat, NEW k \in Nat, j <= k
  PROVE  j \div BLOCK_SIZE <= k \div BLOCK_SIZE
<1>. DEFINE p == j \div BLOCK_SIZE
            q == k \div BLOCK_SIZE
            r == j % BLOCK_SIZE
            s == k % BLOCK_SIZE
<1>1. /\ p \in Nat /\ r \in Offset /\ j = BLOCK_SIZE * p + r
      /\ q \in Nat /\ s \in Offset /\ k = BLOCK_SIZE * q + s
  BY DivMod
<1>. HIDE DEF p, q, r, s
<1>2. BLOCK_SIZE \in Nat \ {0} /\ BLOCK_SIZE * p \in Nat /\ BLOCK_SIZE * q \in Nat
  BY <1>1, FileIOAssumption
<1>3. ~(q < p)
  BY <1>1, <1>2, Times DEF Offset
<1>4. p <= q
  BY <1>1, <1>3
<1>. QED  BY <1>4 DEF p, q

LEMMA DivLimit ==
  ASSUME NEW k \in Nat, NEW n \in Nat
  PROVE  k \div BLOCK_SIZE < n <=> k < BLOCK_SIZE * n
<1>. DEFINE q == k \div BLOCK_SIZE
            s == k % BLOCK_SIZE
<1>1. q \in Nat /\ s \in Offset /\ k = BLOCK_SIZE * q + s
  BY DivMod
<1>. HIDE DEF q, s
<1>2. /\ BLOCK_SIZE \in Nat \ {0} /\ BLOCK_SIZE * q \in Nat /\ BLOCK_SIZE * n \in Nat
  BY <1>1, FileIOAssumption
<1>3. ASSUME q < n  PROVE k < BLOCK_SIZE * n
  BY <1>1, <1>2, <1>3, Times DEF Offset
<1>4. ASSUME ~(q < n)  PROVE ~(k < BLOCK_SIZE * n)
  <2>1. CASE q = n
    BY <1>1, <1>2, <2>1 DEF Offset
  <2>2. CASE n < q
    BY <1>1, <1>2, <2>2, Times DEF Offset
  <2>. QED  BY <1>1, <1>4, <2>1, <2>2
<1>. QED  BY <1>3, <1>4 DEF q

(* What one turn of the data loop moves: it ends at the end of a block or     *)
(* with the last byte that is asked for.                                    *)
LEMMA Chunk ==
  ASSUME NEW pos \in Nat, NEW size \in Nat, size # 0
  PROVE  LET n == chunk_size(pos, size)
             off == pos % BLOCK_SIZE
         IN  /\ n \in 1 .. size /\ off + n <= BLOCK_SIZE
             /\ n # size => off + n = BLOCK_SIZE
<1>. DEFINE off == pos % BLOCK_SIZE
            S == {size, BLOCK_SIZE - off}
<1>1. off \in 0 .. BLOCK_SIZE - 1 /\ BLOCK_SIZE \in Nat
  BY DivMod, FileIOAssumption DEF Offset
<1>. HIDE DEF off
<1>2. \E x \in S : \A y \in S : x <= y
  <2>1. CASE size <= BLOCK_SIZE - off
    BY <1>1, <2>1
  <2>2. CASE ~(size <= BLOCK_SIZE - off)
    BY <1>1, <2>2
  <2>. QED  BY <2>1, <2>2
<1>3. Min(S) \in S /\ \A y \in S : Min(S) <= y
  BY <1>2 DEF Min
<1>4. chunk_size(pos, size) = Min(S)
  BY DEF chunk_size, off
<1>. HIDE DEF S
<1>5. \/ Min(S) = size /\ size <= BLOCK_SIZE - off
      \/ Min(S) = BLOCK_SIZE - off /\ BLOCK_SIZE - off <= size
  BY <1>3 DEF S
<1>. QED  BY <1>1, <1>4, <1>5 DEF off

(* The bytes of a chunk are in one block, at offsets that follow each other. *)
LEMMA ChunkBytes ==
  ASSUME NEW pos \in Nat, NEW n \in Nat, (pos % BLOCK_SIZE) + n <= BLOCK_SIZE,
         NEW k \in pos .. pos + n - 1
  PROVE  /\ k \div BLOCK_SIZE = pos \div BLOCK_SIZE
         /\ k % BLOCK_SIZE = (pos % BLOCK_SIZE) + k - pos
<1>. DEFINE q == pos \div BLOCK_SIZE
            off == pos % BLOCK_SIZE
            r == off + k - pos
<1>1. q \in Nat /\ off \in Offset /\ pos = BLOCK_SIZE * q + off /\ BLOCK_SIZE \in Nat \ {0}
  BY DivMod, FileIOAssumption
<1>2. off + n <= BLOCK_SIZE
  OBVIOUS
<1>. HIDE DEF q, off
<1>3. BLOCK_SIZE * q \in Nat
  BY <1>1
<1>4. r \in Offset /\ k = BLOCK_SIZE * q + r /\ k \in Nat
  BY <1>1, <1>2, <1>3 DEF Offset
<1>. HIDE DEF r
<1>5. k \div BLOCK_SIZE = q /\ k % BLOCK_SIZE = r
  BY <1>1, <1>4, DivUnique, Zenon
<1>. QED  BY <1>5 DEF q, off, r

(* A chunk that fills its block is followed by the next one. *)
LEMMA ChunkFull ==
  ASSUME NEW pos \in Nat, NEW n \in Nat, (pos % BLOCK_SIZE) + n = BLOCK_SIZE
  PROVE  /\ (pos + n) \div BLOCK_SIZE = pos \div BLOCK_SIZE + 1
         /\ (pos + n) % BLOCK_SIZE = 0
<1>. DEFINE q == pos \div BLOCK_SIZE
            off == pos % BLOCK_SIZE
            k == pos + n
<1>1. q \in Nat /\ off \in Offset /\ pos = BLOCK_SIZE * q + off /\ BLOCK_SIZE \in Nat \ {0}
  BY DivMod, FileIOAssumption
<1>2. off + n = BLOCK_SIZE
  OBVIOUS
<1>. HIDE DEF q, off
<1>3. BLOCK_SIZE * (q + 1) = BLOCK_SIZE * q + BLOCK_SIZE /\ BLOCK_SIZE * q \in Nat
  BY <1>1
<1>4. k \in Nat /\ q + 1 \in Nat /\ 0 \in Offset /\ k = BLOCK_SIZE * (q + 1) + 0
  BY <1>1, <1>2, <1>3 DEF Offset
<1>. HIDE DEF k
<1>5. k \div BLOCK_SIZE = q + 1 /\ k % BLOCK_SIZE = 0
  BY <1>4, DivUnique
<1>. QED  BY <1>5 DEF q, k

-----------------------------------------------------------------------------
LEMMA Consts ==
  /\ BLOCK_SIZE \in Nat \ {0} /\ Direct \in Nat \ {0} /\ MaxBlocks \in Nat /\ Direct < MaxBlocks
  /\ Limit \in Nat /\ NBlocks \in Nat /\ WORD \in Nat
  /\ Table = Direct /\ Writer \subseteq Fd /\ Reader \subseteq Fd
  /\ \A d \in Fd : file_of[d] \in File
<1>1. MaxBlocks \in Nat /\ BLOCK_SIZE \in Nat
  BY FileIOAssumption DEF MaxBlocks
<1>2. BLOCK_SIZE * MaxBlocks \in Nat
  BY <1>1
<1>. QED  BY <1>1, <1>2, FileIOAssumption DEF MaxBlocks, Table, Limit

LEMMA IndexNat == Direct \in Nat /\ \A i \in Index : i \in Nat
BY Consts DEF Index

LEMMA Addrs ==
  /\ 0 \in Addr /\ \A b \in Addr : b # 0 => b \in Block
  /\ Table \in 0 .. Direct /\ \A i \in Index : i < Direct => i \in 0 .. Direct
  /\ \A i \in Index : i >= Direct => i \in Direct .. MaxBlocks - 1
BY Consts DEF Addr, Index

LEMMA Indices ==
  /\ \A i \in Index : i \in Nat
  /\ \A w, l \in Nat : w <= MaxBlocks => \A i \in l + 1 .. w - 1 : i \in l .. w - 1 /\ i \in Index
BY Consts DEF Index

LEMMA BlockOfType ==
  ASSUME Typed, NEW f \in File, NEW i \in Index
  PROVE  block_of(f, i) \in Addr
<1>1. i_sectors[f] \in [0 .. Direct -> Addr] /\ Direct \in Nat /\ MaxBlocks \in Nat
  BY Consts DEF Typed
<1>2. CASE i < Direct
  BY <1>1, <1>2 DEF block_of, Index
<1>3. CASE ~(i < Direct) /\ i_sectors[f][Table] = 0
  BY <1>3 DEF block_of, Addr
<1>4. CASE ~(i < Direct) /\ i_sectors[f][Table] # 0
  <2>1. i_sectors[f][Table] \in Block
    BY <1>1, <1>4, Consts DEF Addr
  <2>2. table[i_sectors[f][Table]] \in [Direct .. MaxBlocks - 1 -> Addr]
    BY <2>1 DEF Typed
  <2>. QED  BY <1>1, <1>4, <2>2 DEF block_of, Index
<1>. QED  BY <1>2, <1>3, <1>4

(* The end of a file is in one of its blocks. *)
LEMMA LastIn ==
  ASSUME Typed, NEW f \in File
  PROVE  /\ i_size[f] \in Nat /\ i_size[f] < Limit /\ last(f) \in Index
         /\ i_size[f] % BLOCK_SIZE \in Offset
         /\ i_size[f] = BLOCK_SIZE * last(f) + (i_size[f] % BLOCK_SIZE)
<1>1. i_size[f] \in Nat /\ i_size[f] < Limit
  BY Consts DEF Typed
<1>2. PICK k \in Nat : k = i_size[f]
  BY <1>1
<1>3. k \div BLOCK_SIZE \in Nat /\ k % BLOCK_SIZE \in Offset
      /\ k = BLOCK_SIZE * (k \div BLOCK_SIZE) + (k % BLOCK_SIZE)
  BY DivMod
<1>4. k \div BLOCK_SIZE < MaxBlocks
  BY <1>1, <1>2, Consts, DivLimit DEF Limit
<1>5. k \div BLOCK_SIZE = last(f)
  BY <1>2 DEF last
<1>6. last(f) \in Index
  BY <1>3, <1>4, <1>5, Consts DEF Index
<1>. QED  BY <1>1, <1>2, <1>3, <1>5, <1>6, Zenon

(* What a step leaves alone: a file, and all other descriptors. *)
SameFile(g) ==
  /\ i_size'[g] = i_size[g] /\ i_sectors'[g] = i_sectors[g]
  /\ \A i \in Index : block_of(g, i)' = block_of(g, i)
SameCall(e) ==
  /\ pc'[e] = pc[e] /\ fd_pos'[e] = fd_pos[e]
  /\ all_blocks'[e] = all_blocks[e] /\ block_idx'[e] = block_idx[e]
  /\ will_use'[e] = will_use[e] /\ left'[e] = left[e] /\ io_buf'[e] = io_buf[e]
  /\ from'[e] = from[e] /\ buf'[e] = buf[e]
OthersSame(d) == \A e \in Fd \ {d} : SameCall(e)

(* Files only grow, and a block that a file has stays where it is. *)
KeepsBlocks ==
  \A g \in File :
    /\ i_size[g] <= i_size'[g]
    /\ \A i \in Index : block_of(g, i) # 0 => block_of(g, i)' = block_of(g, i)

LEMMA HasBlocksSame ==
  ASSUME NEW g \in File, SameFile(g), NEW n, HasBlocks(g, n)
  PROVE  HasBlocks(g, n)'
BY DEF HasBlocks, SameFile

LEMMA SettledSame ==
  ASSUME NEW g \in File, SameFile(g), Settled(g)
  PROVE  Settled(g)'
<1>1. last(g)' = last(g)
  BY DEF SameFile, last
<1>2. CASE i_size[g] = 0 /\ \A i \in 0 .. Direct : i_sectors[g][i] = 0
  BY <1>2 DEF SameFile, Settled
<1>3. CASE i_sectors[g][0] # 0 /\ HasBlocks(g, last(g) + 1)
  <2>1. HasBlocks(g, last(g) + 1)'
    BY <1>1, <1>3 DEF HasBlocks, SameFile
  <2>. QED  BY <1>3, <2>1 DEF SameFile, Settled
<1>. QED  BY <1>2, <1>3 DEF Settled

(* The block that the end is in is among those planned. *)
LEMMA PlannedLast ==
  ASSUME Typed, NEW e \in Fd, Planned(e)
  PROVE  last(file_of[e]) < will_use[e]
<1>. DEFINE g == file_of[e]
            p == i_size[g]
            q == i_size[g] + left[e]
<1>0. i_size[g] \in Nat /\ left[e] \in Nat
  BY Consts DEF Typed
<1>1. p \in Nat /\ q \in Nat /\ p <= q
  BY <1>0
<1>2. will_use[e] = q \div BLOCK_SIZE + 1 /\ last(g) = p \div BLOCK_SIZE
  BY DEF Planned, last
<1>. HIDE DEF p, q
<1>3. p \div BLOCK_SIZE <= q \div BLOCK_SIZE /\ p \div BLOCK_SIZE \in Nat /\ q \div BLOCK_SIZE \in Nat
  BY <1>1, DivMono, DivMod, Zenon
<1>. QED  BY <1>2, <1>3

(* A step of another call does not disturb a write. *)
LEMMA WriterFrame ==
  ASSUME NEW e \in Writer, SameCall(e), WriterOK(e), Typed,
         SameFile(file_of[e]),
         \A i \in Index : block_of(file_of[e], i) # 0 =>
           sector'[block_of(file_of[e], i)] = sector[block_of(file_of[e], i)]
  PROVE  WriterOK(e)'
<1>. DEFINE g == file_of[e]
<1>1. g \in File /\ e \in Fd
  BY Consts, Zenon
<1>2. /\ pc'[e] = pc[e] /\ all_blocks'[e] = all_blocks[e] /\ block_idx'[e] = block_idx[e]
      /\ will_use'[e] = will_use[e] /\ left'[e] = left[e] /\ io_buf'[e] = io_buf[e]
  BY DEF SameCall
<1>3. /\ i_size'[g] = i_size[g] /\ i_sectors'[g] = i_sectors[g]
      /\ \A i \in Index : block_of(g, i)' = block_of(g, i)
  BY DEF SameFile
<1>4. last(g)' = last(g) /\ last(g) \in Index
  BY <1>1, <1>3, LastIn, Zenon DEF last
<1>5. Planned(e)' <=> Planned(e)
  BY <1>2, <1>3 DEF Planned
<1>6. ASSUME NEW n  PROVE HasBlocks(g, n)' <=> HasBlocks(g, n)
  BY <1>3, Zenon DEF HasBlocks
<1>7. ASSUME pc[e] = "w_plan"
      PROVE  (i_sectors[g][0] # 0 /\ HasBlocks(g, last(g) + 1) /\ i_size[g] + left[e] < WORD)'
  <2>1. HasBlocks(g, last(g) + 1)'
    BY <1>3, <1>4, <1>7 DEF HasBlocks, WriterOK
  <2>. QED  BY <1>2, <1>3, <1>7, <2>1, Zenon DEF WriterOK
<1>8. ASSUME pc[e] = "w_alloc"
      PROVE  Allocating(e)'
  <2>1. Allocating(e)
    BY <1>8, SMT, Z3 DEF WriterOK
  <2>2. \A i \in Direct .. MaxBlocks - 1 : i \in Index
    BY Consts, SMT, Z3 DEF Index
  <2>3. ASSUME NEW i \in Direct .. MaxBlocks - 1
        PROVE  /\ all_blocks'[e][i] # 0 <=> i < block_idx'[e]
               /\ block_of(g, i)' = IF i <= last(g)' THEN all_blocks'[e][i] ELSE 0
    BY <1>2, <1>3, <1>4, <2>1, <2>2 DEF Allocating
  <2>4. \A i \in 0 .. Direct - 1 : i_sectors'[g][i] # 0 <=> i < block_idx'[e]
    BY <1>2, <1>3, <2>1, Zenon DEF Allocating
  <2>5. \A i \in 0 .. Direct - 1 : last(g)' <= i /\ i < block_idx'[e] =>
          all_blocks'[e][i] = i_sectors'[g][i]
    BY <1>2, <1>3, <1>4, <2>1, Zenon DEF Allocating
  <2>6. i_sectors'[g][Table] # 0 <=> will_use'[e] > Direct
    BY <1>2, <1>3, <2>1 DEF Allocating
  <2>7. last(g)' + 1 <= block_idx'[e] /\ block_idx'[e] <= will_use'[e] /\ Planned(e)'
    BY <1>2, <1>4, <1>5, <2>1, Zenon DEF Allocating
  <2>. QED  BY <2>3, <2>4, <2>5, <2>6, <2>7, Zenon DEF Allocating
<1>9. ASSUME pc[e] \in {"w_first", "w_chunk", "w_next"}
      PROVE  Writing(e)'
  <2>1. Writing(e)
    BY <1>9, Zenon DEF WriterOK
  <2>2. HasBlocks(g, will_use[e])'
    BY <1>2, <1>3, <2>1, SMT, Z3 DEF HasBlocks, Writing
  <2>3. \A i \in last(g) .. will_use[e] - 1 : i \in Index
    <3>1. will_use[e] <= MaxBlocks /\ will_use[e] \in Nat
      BY <2>1, Consts, Zenon DEF Writing, Planned, Typed
    <3>. QED  BY <1>4, <3>1, Consts DEF Index
  <2>. QED  BY <1>2, <1>3, <1>4, <1>5, <2>1, <2>2, <2>3, Zenon DEF Writing
<1>10. ASSUME pc[e] = "w_chunk"
       PROVE  Bytes(g, io_buf[e], 0, i_size[g] % BLOCK_SIZE)'
  BY <1>2, <1>3, <1>4, <1>10 DEF WriterOK, Bytes
<1>11. ASSUME pc[e] = "w_next"
       PROVE  Bytes(g, sector[block_of(g, last(g))], i_size[g] % BLOCK_SIZE,
                    (i_size[g] % BLOCK_SIZE) + chunk_size(i_size[g], left[e]))'
  <2>1. block_of(g, last(g))' = block_of(g, last(g))
    <3>1. PICK j \in Index : j = last(g)
      BY <1>4
    <3>2. block_of(g, j)' = block_of(g, j)
      BY <1>3, Zenon
    <3>3. block_of(g, last(g))' = block_of(g, j)'
      BY <1>4, <3>1, SMT, Z3 DEF block_of
    <3>. QED  BY <3>1, <3>2, <3>3, SMT, Z3
  <2>2. block_of(g, last(g)) # 0
    <3>1. Writing(e)
      BY <1>11, Zenon DEF WriterOK
    <3>2. last(g) < will_use[e]
      BY <1>1, <3>1, PlannedLast DEF Writing
    <3>. QED  BY <1>4, <3>1, <3>2 DEF Writing, HasBlocks
  <2>3. sector'[block_of(g, last(g))] = sector[block_of(g, last(g))]
    BY <1>4, <2>2, Zenon
  <2>4. Bytes(g, sector[block_of(g, last(g))], i_size[g] % BLOCK_SIZE,
              (i_size[g] % BLOCK_SIZE) + chunk_size(i_size[g], left[e]))
    BY <1>11 DEF WriterOK
  <2>. QED  BY <1>2, <1>3, <1>4, <2>1, <2>3, <2>4, Zenon DEF Bytes
<1>. QED
  BY <1>2, <1>7, <1>8, <1>9, <1>10, <1>11 DEF WriterOK

(* A file has the blocks of its bytes, whether a write is going on or not. *)
LEMMA HasItsBlocks ==
  ASSUME Typed, Files, Writers, NEW f \in File, i_size[f] # 0
  PROVE  \A i \in 0 .. last(f) : i \in Index /\ block_of(f, i) # 0
<1>1. last(f) \in Index /\ last(f) + 1 > last(f)
  BY LastIn, Consts DEF Index
<1>2. \A i \in 0 .. last(f) : i \in Index /\ i < last(f) + 1
  BY <1>1, Consts DEF Index
<1>3. CASE Resting(f)
  <2>1. HasBlocks(f, last(f) + 1)
    BY <1>3 DEF Files, Settled
  <2>. QED  BY <1>2, <2>1 DEF HasBlocks
<1>4. CASE ~Resting(f)
  <2>1. PICK d \in Writer : file_of[d] = f /\ pc[d] \in InWrite
    BY <1>4 DEF Resting
  <2>2. WriterOK(d) /\ d \in Fd
    BY Consts DEF Writers
  <2>3. CASE pc[d] = "w_plan"
    <3>1. HasBlocks(f, last(f) + 1)
      BY <2>1, <2>2, <2>3 DEF WriterOK
    <3>. QED  BY <1>2, <3>1, SMT, Z3 DEF HasBlocks
  <2>4. CASE pc[d] = "w_alloc"
    <3>1. Allocating(d)
      BY <2>2, <2>4 DEF WriterOK
    <3>. SUFFICES ASSUME NEW i \in 0 .. last(f)
                  PROVE  block_of(f, i) # 0
      BY <1>2, SMT, Z3
    <3>2. i < block_idx[d] /\ i \in Index /\ block_idx[d] \in Nat
      BY <1>1, <1>2, <2>1, <2>2, <3>1 DEF Allocating, Typed, Index
    <3>3. CASE i < Direct
      <4>1. i \in 0 .. Direct - 1
        BY <3>3, Consts, SMT, Z3
      <4>2. i_sectors[f][i] # 0
        BY <2>1, <3>1, <3>2, <4>1, SMT, Z3 DEF Allocating
      <4>. QED  BY <3>3, <4>2, Zenon DEF block_of
    <3>4. CASE ~(i < Direct)
      <4>1. i \in Direct .. MaxBlocks - 1
        BY <3>2, <3>4, Consts DEF Index
      <4>2. i <= last(f)
        BY <1>1 DEF Index
      <4>. QED  BY <2>1, <3>1, <3>2, <4>1, <4>2, SMT, Z3 DEF Allocating
    <3>. QED  BY <3>3, <3>4, SMT, Z3
  <2>5. CASE pc[d] \in {"w_first", "w_chunk", "w_next"}
    <3>1. Writing(d)
      BY <2>2, <2>5 DEF WriterOK
    <3>2. last(f) < will_use[d] /\ will_use[d] \in Nat
      BY <2>1, <2>2, <3>1, PlannedLast, Zenon DEF Writing, Typed
    <3>3. HasBlocks(f, will_use[d])
      BY <2>1, <3>1 DEF Writing
    <3>4. \A i \in 0 .. last(f) : i < will_use[d]
      BY <1>1, <3>2 DEF Index
    <3>. QED  BY <1>2, <3>3, <3>4, Zenon DEF HasBlocks
  <2>. QED  BY <2>1, <2>3, <2>4, <2>5 DEF InWrite
<1>. QED  BY <1>3, <1>4

LEMMA ByteBlock ==
  ASSUME Typed, Files, Writers, NEW f \in File, NEW k \in 0 .. i_size[f] - 1
  PROVE  /\ k \div BLOCK_SIZE \in 0 .. last(f) /\ k \div BLOCK_SIZE \in Index
         /\ block_of(f, k \div BLOCK_SIZE) \in Block
<1>1. i_size[f] \in Nat /\ k \in Nat /\ k <= i_size[f] /\ i_size[f] # 0
  BY LastIn
<1>2. PICK s \in Nat : s = i_size[f]
  BY <1>1
<1>3. k \div BLOCK_SIZE <= s \div BLOCK_SIZE /\ k \div BLOCK_SIZE \in Nat /\ s \div BLOCK_SIZE \in Nat
  BY <1>1, <1>2, DivMono, DivMod
<1>4. PICK q \in Nat : q = k \div BLOCK_SIZE
  BY <1>3
<1>5. q \in 0 .. last(f)
  BY <1>2, <1>3, <1>4 DEF last
<1>6. q \in Index /\ block_of(f, q) # 0
  BY <1>1, <1>5, HasItsBlocks
<1>7. block_of(f, q) \in Block
  BY <1>6, BlockOfType, Zenon DEF Addr
<1>. QED  BY <1>4, <1>5, <1>6, <1>7

LEMMA ReaderFrame ==
  ASSUME Typed, Files, Writers, NEW e \in Fd, SameCall(e), ReaderOK(e),
         KeepsBlocks, Typed'
  PROVE  ReaderOK(e)'
<1>. DEFINE g == file_of[e]
<1>1. g \in File /\ e \in Fd
  BY Consts, Zenon
<1>2. /\ pc'[e] = pc[e] /\ all_blocks'[e] = all_blocks[e] /\ left'[e] = left[e]
      /\ fd_pos'[e] = fd_pos[e] /\ from'[e] = from[e] /\ buf'[e] = buf[e]
  BY Zenon DEF SameCall
<1>. SUFFICES ASSUME pc[e] = "r_chunk"
              PROVE  ReaderOK(e)'
  BY <1>2, Zenon DEF ReaderOK
<1>3. /\ left[e] # 0 /\ fd_pos[e] + left[e] <= i_size[g]
      /\ fd_pos[e] = from[e] + Len(buf[e])
      /\ \A k \in fd_pos[e] .. fd_pos[e] + left[e] - 1 :
           all_blocks[e][k \div BLOCK_SIZE] = block_of(g, k \div BLOCK_SIZE)
  BY SMT, Z3 DEF ReaderOK
<1>4. i_size[g] <= i_size'[g] /\ i_size[g] \in Nat /\ i_size'[g] \in Nat
  <2>1. i_size \in [File -> 0 .. Limit - 1] /\ i_size' \in [File -> 0 .. Limit - 1]
    BY Zenon DEF Typed
  <2>. QED  BY <1>1, <2>1, Consts DEF KeepsBlocks
<1>5. fd_pos[e] \in Nat /\ left[e] \in Nat
  BY SMT, Z3 DEF Typed
<1>6. fd_pos[e] + left[e] <= i_size'[g]
  BY <1>3, <1>4, <1>5, SMT, Z3
<1>7. ASSUME NEW k \in fd_pos[e] .. fd_pos[e] + left[e] - 1
      PROVE  all_blocks[e][k \div BLOCK_SIZE] = block_of(g, k \div BLOCK_SIZE)'
  <2>1. k \in 0 .. i_size[g] - 1
    BY <1>3, <1>4, <1>5, SMT, Z3
  <2>2. k \div BLOCK_SIZE \in Index /\ block_of(g, k \div BLOCK_SIZE) \in Block
    BY <1>1, <2>1, ByteBlock
  <2>3. PICK q \in Index : q = k \div BLOCK_SIZE
    BY <2>2, SMT, Z3
  <2>4. block_of(g, q) # 0
    BY <2>2, <2>3, Consts DEF Block
  <2>5. block_of(g, q)' = block_of(g, q)
    BY <1>1, <2>4, Zenon DEF KeepsBlocks
  <2>6. all_blocks[e][q] = block_of(g, q)
    BY <1>3, <2>3
  <2>. QED  BY <2>3, <2>5, <2>6, SMT, Z3
<1>. QED  BY <1>2, <1>3, <1>6, <1>7 DEF ReaderOK

(* What the step of d has to show, so that all but the bytes and the places  *)
(* are as they should be afterwards.                                        *)
Own(d) ==
  LET f == file_of[d] IN
  /\ OthersSame(d) /\ KeepsBlocks
  /\ \A g \in File : g # f \/ d \notin Writer => SameFile(g)
  /\ \A g \in File : g # f => \A i \in Index : block_of(g, i) # 0 =>
       sector'[block_of(g, i)] = sector[block_of(g, i)]
  /\ d \notin Writer => sector' = sector /\ pc'[d] \in {"idle", "r_chunk"}
  /\ d \in Writer => WriterOK(d)' /\ (pc'[d] \notin InWrite => Settled(f)')
  /\ ReaderOK(d)'
  /\ fd_pos'[d] <= i_size'[f] \/ fd_pos'[d] = WORD - 1
  /\ \A i \in 1 .. Len(buf'[d]) : buf'[d][i] = ByteOf(f, from'[d] + i - 1)

LEMMA StepKeeps ==
  ASSUME IInv, NEW d \in Fd, Own(d), Typed'
  PROVE  OnlyWriters' /\ Files' /\ Writers' /\ Readers' /\ Positions' /\ ReadCorrect'
<1>. DEFINE f == file_of[d]
<1>0. /\ Typed /\ Files /\ Writers /\ Readers /\ OnlyWriters /\ Positions /\ ReadCorrect
      /\ f \in File
  BY Consts, Zenon DEF IInv
<1>1. /\ OthersSame(d) /\ KeepsBlocks
      /\ \A g \in File : g # f \/ d \notin Writer => SameFile(g)
      /\ \A g \in File : g # f => \A i \in Index : block_of(g, i) # 0 =>
           sector'[block_of(g, i)] = sector[block_of(g, i)]
      /\ d \notin Writer => sector' = sector
  BY DEF Own
<1>2. \A e \in Fd \ {d} : pc'[e] = pc[e] /\ fd_pos'[e] = fd_pos[e] /\ from'[e] = from[e] /\ buf'[e] = buf[e]
  BY <1>1, Zenon DEF OthersSame, SameCall
<1>3. OnlyWriters'
  BY <1>0, <1>2 DEF OnlyWriters, Own
<1>4. Files'
  <2>. SUFFICES ASSUME NEW g \in File, Resting(g)'
                PROVE  Settled(g)'
    BY Zenon DEF Files
  <2>1. CASE g = f /\ d \in Writer
    <3>1. pc'[d] \notin InWrite
      BY <2>1 DEF Resting
    <3>. QED  BY <2>1, <3>1 DEF Own
  <2>2. CASE g # f \/ d \notin Writer
    <3>1. Resting(g)
      BY <1>2, <2>2, Consts, SMT, Z3 DEF Resting
    <3>2. Settled(g) /\ SameFile(g)
      BY <1>0, <1>1, <2>2, <3>1 DEF Files
    <3>. QED  BY <3>2, SettledSame, Zenon
  <2>. QED  BY <2>1, <2>2
<1>5. Writers'
  <2>. SUFFICES ASSUME NEW e \in Writer
                PROVE  WriterOK(e)'
    BY Zenon DEF Writers
  <2>1. CASE e = d
    BY <2>1, Zenon DEF Own
  <2>2. CASE e # d
    <3>1. WriterOK(e) /\ e \in Fd /\ file_of[e] \in File
      BY <1>0, Consts DEF Writers
    <3>2. file_of[e] # f \/ d \notin Writer
      BY <2>2, FileIOAssumption, SMT, Z3
    <3>3. SameFile(file_of[e])
      BY <1>1, <3>1, <3>2, SMT, Z3
    <3>4. \A i \in Index : block_of(file_of[e], i) # 0 =>
            sector'[block_of(file_of[e], i)] = sector[block_of(file_of[e], i)]
      BY <1>1, <3>1, <3>2, SMT, Z3
    <3>5. SameCall(e)
      BY <1>1, <2>2, <3>1 DEF OthersSame
    <3>. QED  BY <1>0, <3>1, <3>3, <3>4, <3>5, WriterFrame, SMT, Z3
  <2>. QED  BY <2>1, <2>2
<1>6. Readers'
  <2>. SUFFICES ASSUME NEW e \in Fd
                PROVE  ReaderOK(e)'
    BY Zenon DEF Readers
  <2>1. CASE e = d
    BY <2>1 DEF Own
  <2>2. CASE e # d
    <3>1. SameCall(e)
      BY <1>1, <2>2, SMT, Z3 DEF OthersSame
    <3>. QED  BY <1>0, <1>1, <3>1, ReaderFrame, SMT, Z3 DEF Readers
  <2>. QED  BY <2>1, <2>2
<1>7. Positions'
  <2>. SUFFICES ASSUME NEW e \in Fd
                PROVE  fd_pos'[e] <= i_size'[file_of[e]] \/ fd_pos'[e] = WORD - 1
    BY Zenon DEF Positions
  <2>1. CASE e = d
    BY <2>1, SMT, Z3 DEF Own
  <2>2. CASE e # d
    <3>1. fd_pos'[e] = fd_pos[e] /\ i_size[file_of[e]] <= i_size'[file_of[e]]
      BY <1>1, <1>2, <2>2, Consts DEF KeepsBlocks
    <3>2. fd_pos[e] <= i_size[file_of[e]] \/ fd_pos[e] = WORD - 1
      BY <1>0, Zenon DEF Positions
    <3>3. fd_pos[e] \in Nat
      BY <1>0, SMT, Z3 DEF Typed
    <3>4. i_size[file_of[e]] \in Nat /\ i_size'[file_of[e]] \in Nat
      <4>1. i_size \in [File -> 0 .. Limit - 1] /\ i_size' \in [File -> 0 .. Limit - 1]
        BY <1>0, Zenon DEF Typed
      <4>. QED  BY <4>1, Consts
    <3>. QED  BY <3>1, <3>2, <3>3, <3>4, SMT, Z3
  <2>. QED  BY <2>1, <2>2
<1>8. ReadCorrect'
  <2>. SUFFICES ASSUME NEW e \in Fd
                PROVE  \A i \in 1 .. Len(buf'[e]) : buf'[e][i] = ByteOf(file_of[e], from'[e] + i - 1)
    BY Zenon DEF ReadCorrect
  <2>1. CASE e = d
    BY <2>1, SMT, Z3 DEF Own
  <2>2. CASE e # d
    BY <1>0, <1>2, <2>2 DEF ReadCorrect
  <2>. QED  BY <2>1, <2>2
<1>. QED  BY <1>3, <1>4, <1>5, <1>6, <1>7, <1>8

-----------------------------------------------------------------------------
(* The place of a block. *)
LEMMA WriterOf ==
  ASSUME NEW d \in Writer
  PROVE  writer(file_of[d]) = d
BY FileIOAssumption DEF writer

(* The places of the file that d writes to. *)
own(d, i) ==
  IF i = MaxBlocks THEN i_sectors[file_of[d]][Table]
  ELSE IF i >= Direct /\ pc[d] = "w_alloc" THEN all_blocks[d][i] ELSE block_of(file_of[d], i)

LEMMA PlaceOwn ==
  ASSUME NEW d \in Writer
  PROVE  \A i : place(file_of[d], i) = own(d, i) /\ place(file_of[d], i)' = own(d, i)'
<1>1. allocates(file_of[d]) <=> pc[d] = "w_alloc"
  BY FileIOAssumption DEF allocates
<1>2. allocates(file_of[d])' <=> pc'[d] = "w_alloc"
  BY FileIOAssumption DEF allocates
<1>. TAKE i
<1>3. place(file_of[d], i) = own(d, i)
  BY <1>1, WriterOf, SMT, Z3 DEF place, own
<1>4. place(file_of[d], i)' = own(d, i)'
  BY <1>2, WriterOf DEF place, own
<1>. QED  BY <1>3, <1>4

(* The places of the other files stay as they are. *)
LEMMA PlaceOther ==
  ASSUME NEW d \in Fd, OthersSame(d), NEW g \in File, SameFile(g),
         file_of[d] # g \/ d \notin Writer
  PROVE  \A i \in 0 .. MaxBlocks : place(g, i)' = place(g, i)
<1>1. ASSUME NEW e \in Writer, file_of[e] = g
      PROVE  pc'[e] = pc[e] /\ all_blocks'[e] = all_blocks[e]
  BY <1>1, Consts, SMT, Z3 DEF OthersSame, SameCall
<1>2. allocates(g)' = allocates(g)
  BY <1>1, SMT, Z3 DEF allocates
<1>3. allocates(g) => all_blocks'[writer(g)] = all_blocks[writer(g)]
  <2>1. ASSUME NEW e \in Writer, file_of[e] = g
        PROVE  all_blocks'[writer(g)] = all_blocks[writer(g)]
    BY <1>1, <2>1, WriterOf
  <2>. QED  BY <2>1, SMT, Z3 DEF allocates
<1>. SUFFICES ASSUME NEW i \in 0 .. MaxBlocks
              PROVE  place(g, i)' = place(g, i)
  OBVIOUS
<1>4. i_sectors'[g] = i_sectors[g]
  BY Zenon DEF SameFile
<1>5. CASE i = MaxBlocks
  BY <1>4, <1>5, Zenon DEF place
<1>6. CASE i # MaxBlocks
  <2>1. i \in Index
    BY <1>6, Consts DEF Index
  <2>2. block_of(g, i)' = block_of(g, i)
    BY <2>1, Zenon DEF SameFile
  <2>. QED  BY <1>2, <1>3, <1>4, <1>6, <2>2, SMT, Z3 DEF place
<1>. QED  BY <1>5, <1>6, SMT, Z3

SamePlace(f, i) == place(f, i)' = place(f, i)

LEMMA ExclusiveSame ==
  ASSUME Exclusive, used' = used,
         \A f \in File : \A i \in 0 .. MaxBlocks : SamePlace(f, i),
         \A b \in Block \ used : table'[b] = table[b]
  PROVE  Exclusive'
<1>1. \A f, g \in File : \A i, j \in 0 .. MaxBlocks :
        (place(f, i) # 0 /\ place(f, i) = place(g, j))' => f = g /\ i = j
  BY SMT, Z3 DEF Exclusive, SamePlace
<1>2. \A b \in Block : b \in used' <=> \E f \in File, i \in 0 .. MaxBlocks : place(f, i)' = b
  BY DEF Exclusive, SamePlace
<1>3. \A b \in Block \ used' : \A i \in Direct .. MaxBlocks - 1 : table'[b][i] = 0
  BY Zenon DEF Exclusive
<1>. QED  BY <1>1, <1>2, <1>3, SMT, Z3 DEF Exclusive

(* A block that was free gets a place that was empty. *)
LEMMA ExclusiveFresh ==
  ASSUME Exclusive, NEW b \in Block \ used, NEW f \in File, NEW i \in 0 .. MaxBlocks,
         place(f, i) = 0, place(f, i)' = b, used' = used \cup {b}, table' = table,
         \A g \in File : \A j \in 0 .. MaxBlocks : (g # f \/ j # i) => SamePlace(g, j)
  PROVE  Exclusive'
<1>0. b # 0
  BY Consts DEF Block
<1>1. \A g \in File : \A j \in 0 .. MaxBlocks : place(g, j) # b
  BY Zenon DEF Exclusive
<1>2. \A g \in File : \A j \in 0 .. MaxBlocks :
        place(g, j)' = IF g = f /\ j = i THEN b ELSE place(g, j)
  BY Zenon DEF SamePlace
<1>3. \A g, h \in File : \A j, k \in 0 .. MaxBlocks :
        (place(g, j) # 0 /\ place(g, j) = place(h, k))' => g = h /\ j = k
  BY <1>0, <1>1, <1>2 DEF Exclusive
<1>4. \A c \in Block : c \in used' <=> \E g \in File, j \in 0 .. MaxBlocks : place(g, j)' = c
  <2>. SUFFICES ASSUME NEW c \in Block
                PROVE  c \in used' <=> \E g \in File, j \in 0 .. MaxBlocks : place(g, j)' = c
    OBVIOUS
  <2>1. CASE c = b
    BY <1>2, <2>1, Zenon
  <2>2. CASE c # b
    <3>1. c \in used' <=> c \in used
      BY <2>2, SMT, Z3
    <3>2. (\E g \in File, j \in 0 .. MaxBlocks : place(g, j)' = c)
          <=> \E g \in File, j \in 0 .. MaxBlocks : place(g, j) = c
      <4>1. ASSUME NEW g \in File, NEW j \in 0 .. MaxBlocks
            PROVE  place(g, j)' = c <=> place(g, j) = c
        <5>1. c # 0
          BY Consts, SMT, Z3 DEF Block
        <5>. QED  BY <1>2, <2>2, <5>1, SMT, Z3
      <4>. QED  BY <4>1, SMT, Z3
    <3>. QED  BY <3>1, <3>2, SMT, Z3 DEF Exclusive
  <2>. QED  BY <2>1, <2>2, SMT, Z3
<1>5. \A c \in Block \ used' : \A j \in Direct .. MaxBlocks - 1 : table'[c][j] = 0
  BY DEF Exclusive
<1>. QED  BY <1>3, <1>4, <1>5, SMT, Z3 DEF Exclusive

(* A step of d that leaves the places of its own file alone. *)
LEMMA PlacesSame ==
  ASSUME NEW d \in Fd, OthersSame(d),
         \A g \in File : g # file_of[d] \/ d \notin Writer => SameFile(g),
         d \in Writer => \A i \in 0 .. MaxBlocks : own(d, i)' = own(d, i)
  PROVE  \A g \in File : \A i \in 0 .. MaxBlocks : SamePlace(g, i)
<1>. SUFFICES ASSUME NEW g \in File, NEW i \in 0 .. MaxBlocks
              PROVE  place(g, i)' = place(g, i)
  BY DEF SamePlace
<1>1. CASE g # file_of[d] \/ d \notin Writer
  BY <1>1, PlaceOther, SMT, Z3
<1>2. CASE g = file_of[d] /\ d \in Writer
  BY <1>2, PlaceOwn, SMT, Z3
<1>. QED  BY <1>1, <1>2

(* A block that a file has is in its place. *)
LEMMA InPlace ==
  ASSUME Typed, Writers, NEW f \in File, NEW i \in Index, block_of(f, i) # 0
  PROVE  i \in 0 .. MaxBlocks /\ place(f, i) = block_of(f, i)
<1>1. i \in 0 .. MaxBlocks /\ i # MaxBlocks
  BY Consts DEF Index
<1>2. CASE ~(i >= Direct /\ allocates(f))
  BY <1>1, <1>2, Zenon DEF place
<1>3. CASE i >= Direct /\ allocates(f)
  <2>1. PICK d \in Writer : file_of[d] = f /\ pc[d] = "w_alloc"
    BY <1>3, Zenon DEF allocates
  <2>2. Allocating(d)
    BY <2>1, SMT, Z3 DEF Writers, WriterOK
  <2>3. i \in Direct .. MaxBlocks - 1
    BY <1>3, Consts DEF Index
  <2>4. block_of(f, i) = all_blocks[d][i]
    BY <2>1, <2>2, <2>3, Zenon DEF Allocating
  <2>. QED  BY <1>1, <1>3, <2>1, <2>4, WriterOf, SMT, Z3 DEF place
<1>. QED  BY <1>2, <1>3, SMT, Z3

(* So two files, or two places of a file, never share a block. *)
LEMMA Distinct ==
  ASSUME Typed, Writers, Exclusive, NEW f \in File, NEW g \in File,
         NEW i \in Index, NEW j \in Index, block_of(f, i) # 0, block_of(f, i) = block_of(g, j)
  PROVE  f = g /\ i = j
<1>1. i \in 0 .. MaxBlocks /\ place(f, i) = block_of(f, i)
  BY InPlace
<1>2. j \in 0 .. MaxBlocks /\ place(g, j) = block_of(g, j)
  BY InPlace, Zenon
<1>. QED  BY <1>1, <1>2, SMT, Z3 DEF Exclusive

LEMMA DistinctTable ==
  ASSUME Exclusive, NEW f \in File, NEW g \in File, i_sectors[f][Table] # 0,
         i_sectors[f][Table] = i_sectors[g][Table]
  PROVE  f = g
<1>1. place(f, MaxBlocks) = i_sectors[f][Table] /\ place(g, MaxBlocks) = i_sectors[g][Table]
  BY DEF place
<1>2. MaxBlocks \in 0 .. MaxBlocks
  BY Consts
<1>. QED  BY <1>1, <1>2, SMT, Z3 DEF Exclusive

LEMMA DataSame ==
  ASSUME Typed, Files, Writers, Data, KeepsBlocks, i_size' = i_size, sector' = sector
  PROVE  Data'
<1>. SUFFICES ASSUME NEW f \in File, NEW k \in 0 .. i_size[f] - 1
              PROVE  sector[block_of(f, k \div BLOCK_SIZE)'][k % BLOCK_SIZE] = ByteOf(f, k)
  BY DEF Data
<1>1. k \div BLOCK_SIZE \in Index /\ block_of(f, k \div BLOCK_SIZE) \in Block
  BY ByteBlock
<1>2. PICK q \in Index : q = k \div BLOCK_SIZE
  BY <1>1, SMT, Z3
<1>3. block_of(f, q) # 0
  BY <1>1, <1>2, Consts, SMT, Z3 DEF Block
<1>4. block_of(f, q)' = block_of(f, q)
  BY <1>3, SMT, Z3 DEF KeepsBlocks
<1>5. sector[block_of(f, q)][k % BLOCK_SIZE] = ByteOf(f, k)
  BY <1>2, SMT, Z3 DEF Data
<1>. QED  BY <1>2, <1>4, <1>5, Zenon

LEMMA InodesSame ==
  ASSUME Typed, i_size' = i_size, i_sectors' = i_sectors, table' = table
  PROVE  KeepsBlocks /\ \A g \in File : SameFile(g)
<1>1. \A g \in File : \A i \in Index : block_of(g, i)' = block_of(g, i)
  BY DEF block_of
<1>2. \A g \in File : i_size[g] <= i_size[g]
  BY LastIn
<1>. QED  BY <1>1, <1>2, SMT, Z3 DEF KeepsBlocks, SameFile

LEMMA Unchanged ==
  ASSUME IInv, UNCHANGED <<inodeVars, fd_pos, diskVars, pc, localVars, readVars>>
  PROVE  IInv'
<1>1. /\ i_size' = i_size /\ i_sectors' = i_sectors /\ used' = used /\ fd_pos' = fd_pos
      /\ sector' = sector /\ table' = table /\ pc' = pc /\ all_blocks' = all_blocks
      /\ block_idx' = block_idx /\ will_use' = will_use /\ left' = left /\ io_buf' = io_buf
      /\ from' = from /\ buf' = buf
  BY DEF inodeVars, diskVars, localVars, readVars
<1>0. Typed /\ Files /\ Writers /\ Readers /\ Data /\ Exclusive
  BY DEF IInv
<1>2. KeepsBlocks /\ \A g \in File : SameFile(g)
  BY <1>0, <1>1, InodesSame, Zenon
<1>3. Typed' /\ OnlyWriters' /\ Positions' /\ ReadCorrect'
  BY <1>1 DEF IInv, Typed, OnlyWriters, Positions, ReadCorrect
<1>4. \A e : SameCall(e)
  BY <1>1, Zenon DEF SameCall
<1>5. Files'
  <2>1. \A g \in File : Resting(g)' <=> Resting(g)
    BY <1>1, Zenon DEF Resting
  <2>. QED  BY <1>0, <1>2, <2>1, SettledSame, Zenon DEF Files
<1>6. Writers'
  <2>. SUFFICES ASSUME NEW e \in Writer
                PROVE  WriterOK(e)'
    BY SMT, Z3 DEF Writers
  <2>1. WriterOK(e) /\ file_of[e] \in File
    BY <1>0, Consts, SMT, Z3 DEF Writers
  <2>. QED  BY <1>0, <1>1, <1>2, <1>4, <2>1, WriterFrame, Zenon
<1>7. Readers'
  BY <1>0, <1>2, <1>3, <1>4, ReaderFrame, SMT, Z3 DEF Readers
<1>8. Data'
  BY <1>0, <1>1, <1>2, DataSame, SMT, Z3
<1>9. Exclusive'
  <2>1. \A f \in File : \A i \in 0 .. MaxBlocks : SamePlace(f, i)
    BY <1>1, Zenon DEF SamePlace, place, allocates, block_of
  <2>. QED  BY <1>0, <1>1, <2>1, ExclusiveSame, Zenon
<1>. QED  BY <1>3, <1>5, <1>6, <1>7, <1>8, <1>9, Zenon DEF IInv

-----------------------------------------------------------------------------
(* Arithmetic in uint32_t. *)
LEMMA ModSmall ==
  ASSUME NEW k \in Nat, k < WORD
  PROVE  k % WORD = k
<1>1. WORD \in Nat \ {0}
  BY Consts
<1>. DEFINE q == k \div WORD
            r == k % WORD
<1>2. q \in Int /\ r \in 0 .. WORD - 1 /\ k = WORD * q + r
  BY <1>1
<1>. HIDE DEF q, r
<1>3. q = 0
  <2>1. CASE q >= 1
    <3>1. WORD * q >= WORD
      BY <1>1, <1>2, <2>1, SMT, Z3
    <3>. QED  BY <1>1, <1>2, <3>1, SMT, Z3
  <2>2. CASE q <= -1
    <3>1. WORD * q <= -WORD
      BY <1>1, <1>2, <2>2, SMT, Z3
    <3>. QED  BY <1>1, <1>2, <3>1, SMT, Z3
  <2>. QED  BY <1>2, <2>1, <2>2, SMT, Z3
<1>4. r = k
  BY <1>1, <1>2, <1>3, SMT, Z3
<1>. QED  BY <1>4 DEF r

LEMMA ModWrap ==
  ASSUME NEW k \in Nat, k < WORD
  PROVE  (WORD + k) % WORD = k
<1>1. WORD \in Nat \ {0}
  BY Consts
<1>. DEFINE m == WORD + k
            q == m \div WORD
            r == m % WORD
<1>2. m \in Int /\ m >= WORD /\ m < 2 * WORD
  BY <1>1
<1>. HIDE DEF m
<1>3. q \in Int /\ r \in 0 .. WORD - 1 /\ m = WORD * q + r
  BY <1>1, <1>2
<1>. HIDE DEF q, r
<1>4. q = 1
  <2>1. CASE q >= 2
    <3>1. WORD * q >= 2 * WORD
      BY <1>1, <1>3, <2>1, SMT, Z3
    <3>. QED  BY <1>1, <1>2, <1>3, <3>1, SMT, Z3
  <2>2. CASE q <= 0
    <3>1. WORD * q <= 0
      BY <1>1, <1>3, <2>2
    <3>. QED  BY <1>1, <1>2, <1>3, <3>1, SMT, Z3
  <2>. QED  BY <1>3, <2>1, <2>2
<1>5. m = WORD + r
  BY <1>1, <1>3, <1>4
<1>. QED  BY <1>1, <1>3, <1>5 DEF m, r

LEMMA ModMinusOne ==
  WORD # 0 => (0 - 1) % WORD = WORD - 1
<1>. SUFFICES ASSUME WORD # 0
              PROVE  (0 - 1) % WORD = WORD - 1
  OBVIOUS
<1>1. WORD \in Nat \ {0}
  BY Consts
<1>. DEFINE m == 0 - 1
            q == m \div WORD
            r == m % WORD
<1>2. m = -1 /\ m \in Int
  OBVIOUS
<1>. HIDE DEF m
<1>3. q \in Int /\ r \in 0 .. WORD - 1 /\ m = WORD * q + r
  BY <1>1, <1>2
<1>. HIDE DEF q, r
<1>4. q = -1
  <2>1. CASE q >= 0
    <3>1. WORD * q >= 0
      BY <1>1, <1>3, <2>1
    <3>. QED  BY <1>1, <1>2, <1>3, <3>1, SMT, Z3
  <2>2. CASE q <= -2
    <3>1. WORD * q <= -2 * WORD
      BY <1>1, <1>3, <2>2
    <3>. QED  BY <1>1, <1>2, <1>3, <3>1
  <2>. QED  BY <1>3, <2>1, <2>2, SMT, Z3
<1>5. r = WORD - 1
  BY <1>1, <1>2, <1>3, <1>4
<1>. QED  BY <1>5 DEF m, r

LEMMA IInitially == Counted /\ Init => IInv
<1>. SUFFICES ASSUME Counted, Init
              PROVE  IInv
  OBVIOUS
<1>0. /\ i_size = [f \in File |-> 0] /\ i_sectors = [f \in File |-> [i \in 0 .. Direct |-> 0]]
      /\ fd_pos = [d \in Fd |-> 0] /\ used = {} /\ sector = [b \in Block |-> Blank]
      /\ table = [b \in Block |-> [i \in Direct .. MaxBlocks - 1 |-> 0]]
      /\ pc = [d \in Fd |-> "idle"] /\ all_blocks = [d \in Fd |-> NoBlocks]
      /\ block_idx = [d \in Fd |-> 0] /\ will_use = [d \in Fd |-> 0] /\ left = [d \in Fd |-> 0]
      /\ io_buf = [d \in Fd |-> Blank] /\ from = [d \in Fd |-> 0] /\ buf = [d \in Fd |-> <<>>]
  BY Zenon DEF Init
<1>1. Typed
  <2>1. 0 \in 0 .. Limit - 1
    <3>1. BLOCK_SIZE * MaxBlocks >= 1
      BY Consts
    <3>. QED  BY <3>1, Consts DEF Limit
  <2>2. Blank \in [Offset -> Byte] /\ NoBlocks \in [Index -> Addr]
    BY DEF Blank, NoBlocks, Offset, Byte, Index, Addr
  <2>3. <<>> \in Seq(Byte) /\ 0 \in Addr /\ 0 \in Nat /\ "idle" \in Point
    BY DEF Addr, Point
  <2>4. i_size \in [File -> 0 .. Limit - 1] /\ i_sectors \in [File -> [0 .. Direct -> Addr]]
    BY <1>0, <2>1, <2>3, Zenon
  <2>5. sector \in [Block -> [Offset -> Byte]] /\ io_buf \in [Fd -> [Offset -> Byte]]
        /\ all_blocks \in [Fd -> [Index -> Addr]]
    BY <1>0, <2>2, SMT, Z3
  <2>6. table \in [Block -> [Direct .. MaxBlocks - 1 -> Addr]] /\ used \subseteq Block
    BY <1>0, <2>3
  <2>7. /\ fd_pos \in [Fd -> Nat] /\ pc \in [Fd -> Point] /\ buf \in [Fd -> Seq(Byte)]
        /\ from \in [Fd -> Nat] /\ block_idx \in [Fd -> Nat]
        /\ will_use \in [Fd -> Nat] /\ left \in [Fd -> Nat]
    BY <1>0, <2>3, Zenon
  <2>. QED  BY <2>4, <2>5, <2>6, <2>7, SMT, Z3 DEF Typed
<1>2. OnlyWriters /\ Readers /\ Writers
  BY <1>0, Consts, Zenon DEF OnlyWriters, Readers, ReaderOK, Writers, WriterOK
<1>3. Files
  BY <1>0, Zenon DEF Files, Settled
<1>4. Positions
  BY <1>0, Consts, SMT, Z3 DEF Positions
<1>5. ReadCorrect
  BY <1>0, SMT, Z3 DEF ReadCorrect
<1>6. Data
  BY <1>0 DEF Data
<1>7. Exclusive
  <2>1. \A f \in File : \A i \in Index : block_of(f, i) = 0
    BY <1>0, Consts DEF block_of, Index
  <2>2. \A f \in File : ~allocates(f)
    BY <1>0, Consts, Zenon DEF allocates
  <2>3. \A f \in File : \A i \in 0 .. MaxBlocks : place(f, i) = 0
    <3>. TAKE f \in File
    <3>. TAKE i \in 0 .. MaxBlocks
    <3>1. i = MaxBlocks \/ i \in Index
      BY Consts, SMT, Z3 DEF Index
    <3>2. i_sectors[f][Table] = 0
      BY <1>0, Consts, SMT, Z3
    <3>. QED  BY <2>1, <2>2, <3>1, <3>2, SMT, Z3 DEF place
  <2>4. 0 \notin Block
    BY Consts, SMT, Z3 DEF Block
  <2>. QED  BY <1>0, <2>3, <2>4, Zenon DEF Exclusive
<1>. QED  BY <1>1, <1>2, <1>3, <1>4, <1>5, <1>6, <1>7, SMT, Z3 DEF IInv

(* While its writer is not in a write, a file is settled. *)
LEMMA RestingWriter ==
  ASSUME Files, NEW d \in Writer, pc[d] \notin InWrite
  PROVE  Settled(file_of[d])
<1>1. Resting(file_of[d])
  BY FileIOAssumption DEF Resting
<1>. QED  BY <1>1, Consts, SMT, Z3 DEF Files

LEMMA Finish ==
  ASSUME IInv, NEW d \in Fd, Own(d), Typed', Data', Exclusive'
  PROVE  IInv'
BY StepKeeps, Zenon DEF IInv

(* A step of a read, which changes neither the files nor the disk. *)
LEMMA ReadStep ==
  ASSUME IInv, NEW d \in Fd, OthersSame(d), Typed',
         i_size' = i_size, i_sectors' = i_sectors, used' = used, sector' = sector, table' = table,
         pc[d] \in {"idle", "r_chunk"}, pc'[d] \in {"idle", "r_chunk"}, ReaderOK(d)',
         fd_pos'[d] <= i_size[file_of[d]] \/ fd_pos'[d] = WORD - 1,
         \A i \in 1 .. Len(buf'[d]) : buf'[d][i] = ByteOf(file_of[d], from'[d] + i - 1)
  PROVE  IInv'
<1>0. Typed /\ Files /\ Writers /\ Data /\ Exclusive
  BY DEF IInv
<1>1. KeepsBlocks /\ \A g \in File : SameFile(g)
  BY <1>0, InodesSame, Zenon
<1>2. d \in Writer => WriterOK(d)' /\ Settled(file_of[d])'
  <2>1. d \in Writer => WriterOK(d)'
    BY Zenon DEF WriterOK
  <2>2. ASSUME d \in Writer  PROVE Settled(file_of[d])'
    BY <1>0, <1>1, <2>2, RestingWriter, SettledSame, Consts, Zenon DEF InWrite
  <2>. QED  BY <2>1, <2>2, SMT, Z3
<1>3. Own(d)
  BY <1>1, <1>2 DEF Own
<1>4. Data'
  BY <1>0, <1>1, DataSame, Zenon
<1>5. Exclusive'
  <2>1. ASSUME d \in Writer, NEW i \in 0 .. MaxBlocks  PROVE own(d, i)' = own(d, i)
    BY Zenon DEF own, block_of
  <2>2. \A g \in File : \A i \in 0 .. MaxBlocks : SamePlace(g, i)
    BY <1>1, <2>1, PlacesSame, Zenon
  <2>. QED  BY <1>0, <2>2, ExclusiveSame, Zenon
<1>. QED  BY <1>3, <1>4, <1>5, Finish, Zenon

LEMMA LseekStep ==
  ASSUME IInv, NEW d \in Fd, NEW o \in Int, NEW base, sys_lseek(d, o, base)
  PROVE  IInv'
<1>1. CASE UNCHANGED vars
  BY <1>1, Unchanged, Zenon DEF vars
<1>2. CASE /\ seek_ok(o + base, i_size[file_of[d]])
           /\ fd_pos' = [fd_pos EXCEPT ![d] = o + base]
           /\ UNCHANGED <<inodeVars, diskVars, cpu, pc, localVars, readVars, panic>>
  <2>. DEFINE f == file_of[d]
  <2>0. Typed /\ f \in File
    BY Consts DEF IInv
  <2>1. /\ i_size' = i_size /\ i_sectors' = i_sectors /\ used' = used
        /\ sector' = sector /\ table' = table /\ pc' = pc /\ all_blocks' = all_blocks
        /\ block_idx' = block_idx /\ will_use' = will_use /\ left' = left /\ io_buf' = io_buf
        /\ from' = from /\ buf' = buf
    BY <1>2, Zenon DEF inodeVars, diskVars, localVars, readVars
  <2>2. pc[d] = "idle" /\ fd_pos \in [Fd -> Nat] /\ i_size[f] \in Nat /\ base \in {0, fd_pos[d], i_size[f]}
    BY <2>0, LastIn, Zenon DEF sys_lseek, At, Typed
  <2>3. o + base \in 0 .. i_size[f] - 1
    <3>1. base \in Nat
      <4>1. fd_pos[d] \in Nat
        BY <2>2, Zenon
      <4>2. base = 0 \/ base = fd_pos[d] \/ base = i_size[f]
        BY <2>2, Zenon
      <4>. QED  BY <2>2, <4>1, <4>2, Small, Zenon
    <3>. QED  BY <1>2, <2>2, <3>1, SMT, Z3 DEF seek_ok
  <2>3a. o + base \in Nat /\ o + base <= i_size[f]
    BY <2>2, <2>3, Small, Zenon
  <2>4. fd_pos' \in [Fd -> Nat] /\ fd_pos'[d] = o + base /\ \A e \in Fd \ {d} : fd_pos'[e] = fd_pos[e]
    BY <1>2, <2>2, <2>3a, Zenon
  <2>5. Typed'
    BY <2>0, <2>1, <2>4, Zenon DEF Typed
  <2>6. OthersSame(d)
    BY <2>1, <2>4, Zenon DEF OthersSame, SameCall
  <2>7. ReaderOK(d)'
    BY <2>1, <2>2, Zenon DEF ReaderOK
  <2>8. fd_pos'[d] <= i_size[f]
    BY <2>3a, <2>4, Zenon
  <2>9. \A i \in 1 .. Len(buf'[d]) : buf'[d][i] = ByteOf(f, from'[d] + i - 1)
    BY <2>1, Zenon DEF IInv, ReadCorrect
  <2>. QED  BY <2>1, <2>2, <2>5, <2>6, <2>7, <2>8, <2>9, ReadStep, Zenon
<1>. QED  BY <1>1, <1>2, Zenon DEF sys_lseek

(* What a read that starts in the file will read is in the file; a position  *)
(* of -1 is caught by the ASSERT.                                           *)
LEMMA ReadSize ==
  ASSUME Counted, Typed, Positions, NEW d \in Fd, NEW count \in ReadCount
  PROVE  LET s == read_size(d, count)
             p == fd_pos[d]
         IN  \/ p \div BLOCK_SIZE >= MaxBlocks - 1
             \/ s \in Nat /\ p \in Nat /\ p + s <= i_size[file_of[d]] /\ (p + s) % WORD = p + s
<1>. DEFINE f == file_of[d]
            s == read_size(d, count)
<1>1. f \in File /\ i_size[f] \in Nat /\ i_size[f] < Limit /\ fd_pos[d] \in Nat
  BY Consts, LastIn, Zenon DEF Typed
<1>2. Limit < WORD /\ count \in Nat /\ Limit + count < WORD /\ Limit \in Nat /\ WORD \in Nat
  BY Consts, Zenon DEF Counted, Limit
<1>3. CASE fd_pos[d] = WORD - 1
  <2>1. fd_pos[d] >= BLOCK_SIZE * MaxBlocks
    <3>1. WORD - 1 >= Limit
      BY <1>2, Small, Zenon
    <3>. QED  BY <1>3, <3>1, Zenon DEF Limit
  <2>2. PICK p \in Nat : p = fd_pos[d]
    BY <1>1, SMT, Z3
  <2>3. ~(p \div BLOCK_SIZE < MaxBlocks) /\ p \div BLOCK_SIZE \in Nat
    <3>1. p \div BLOCK_SIZE < MaxBlocks <=> p < BLOCK_SIZE * MaxBlocks
      BY DivLimit, Consts
    <3>2. BLOCK_SIZE * MaxBlocks \in Nat
      BY <1>2, Zenon DEF Limit
    <3>. QED  BY <2>1, <2>2, <3>1, <3>2, DivMod, SMT, Z3
  <2>. QED  BY <2>2, <2>3, Consts
<1>4. CASE fd_pos[d] <= i_size[f]
  <2>1. PICK p \in Nat : p = fd_pos[d]
    BY <1>1
  <2>2. PICK z \in Nat : z = i_size[f]
    BY <1>1, Zenon
  <2>3. p + count \in Nat /\ p + count < WORD /\ z - p \in Nat /\ z - p < WORD
    BY <1>1, <1>2, <1>4, <2>1, <2>2, SMT, Z3
  <2>4. (p + count) % WORD = p + count /\ (z - p) % WORD = z - p
    BY <2>3, ModSmall, Zenon
  <2>5. s = IF p + count > z THEN z - p ELSE count
    BY <2>1, <2>2, <2>4, Zenon DEF read_size
  <2>6. s \in Nat /\ p + s <= z
    BY <1>2, <2>3, <2>5, SMT, Z3
  <2>. HIDE DEF s
  <2>7. p + s \in Nat /\ p + s < WORD
    BY <1>1, <1>2, <2>2, <2>6, SMT, Z3
  <2>8. (p + s) % WORD = p + s
    BY <2>7, ModSmall
  <2>. QED  BY <2>1, <2>2, <2>6, <2>8, Zenon DEF s
<1>. QED  BY <1>3, <1>4, ZenonT(30) DEF Positions

LEMMA SysReadStep ==
  ASSUME Counted, IInv, NEW d \in Fd, NEW count \in ReadCount, sys_read(d, count)
  PROVE  IInv'
<1>. DEFINE f == file_of[d]
            p == fd_pos[d]
            size == read_size(d, count)
            first == p \div BLOCK_SIZE
            end == ((p + size) % WORD) \div BLOCK_SIZE
            blocks == [i \in 0 .. MaxBlocks - 1 |->
                        IF i < Direct /\ i \in first .. end THEN i_sectors[f][i]
                        ELSE IF i >= Direct /\ end >= Direct
                               THEN table[i_sectors[f][Table]][i]
                        ELSE 0]
<1>1. CASE UNCHANGED vars
  BY <1>1, Unchanged DEF vars
<1>2. CASE \E why : fails(why)
  BY <1>2, Unchanged, Zenon DEF fails
<1>3. CASE /\ size # 0
           /\ ~(first >= MaxBlocks - 1 \/ end >= MaxBlocks - 1)
           /\ ~(end >= Direct /\ i_sectors[f][Table] = 0)
           /\ all_blocks' = [all_blocks EXCEPT ![d] = blocks]
           /\ left' = [left EXCEPT ![d] = size]
           /\ from' = [from EXCEPT ![d] = fd_pos[d]]
           /\ buf' = [buf EXCEPT ![d] = <<>>]
           /\ pc' = [pc EXCEPT ![d] = "r_chunk"]
           /\ UNCHANGED <<inodeVars, fd_pos, diskVars, block_idx, will_use, io_buf, panic>>
  <2>0. Typed /\ Positions /\ f \in File /\ Files /\ Writers
    BY Consts DEF IInv
  <2>1. /\ i_size' = i_size /\ i_sectors' = i_sectors /\ used' = used /\ fd_pos' = fd_pos
        /\ sector' = sector /\ table' = table
        /\ block_idx' = block_idx /\ will_use' = will_use /\ io_buf' = io_buf
    BY <1>3, Zenon DEF inodeVars, diskVars
  <2>2. size \in Nat /\ p \in Nat /\ p + size <= i_size[f] /\ (p + size) % WORD = p + size
    BY <1>3, <2>0, ReadSize, Zenon
  <2>3. blocks \in [Index -> Addr]
    <3>. SUFFICES ASSUME NEW i \in Index
                  PROVE  blocks[i] \in Addr
      BY Zenon DEF Index
    <3>1. i_sectors[f] \in [0 .. Direct -> Addr] /\ 0 \in Addr
      BY <2>0, Addrs, Zenon DEF Typed
    <3>2. i < Direct => i_sectors[f][i] \in Addr
      BY <3>1, Addrs, Zenon
    <3>3. ASSUME i >= Direct, end >= Direct
          PROVE  table[i_sectors[f][Table]][i] \in Addr
      <4>1. i_sectors[f][Table] \in Block
        BY <1>3, <3>1, <3>3, Addrs, Zenon
      <4>2. table[i_sectors[f][Table]] \in [Direct .. MaxBlocks - 1 -> Addr]
        BY <2>0, <4>1, Zenon DEF Typed
      <4>. QED  BY <3>3, <4>2, Addrs, Zenon
    <3>. HIDE DEF first, end
    <3>. QED  BY <3>1, <3>2, <3>3, Zenon DEF Index
  <2>. HIDE DEF blocks
  <2>4. /\ pc \in [Fd -> Point] /\ all_blocks \in [Fd -> [Index -> Addr]] /\ left \in [Fd -> Nat]
        /\ from \in [Fd -> Nat] /\ buf \in [Fd -> Seq(Byte)]
    BY <2>0 DEF Typed
  <2>5. /\ pc'[d] = "r_chunk" /\ all_blocks'[d] = blocks /\ left'[d] = size
        /\ from'[d] = p /\ buf'[d] = <<>>
    BY <1>3, <2>4, Zenon
  <2>6. OthersSame(d)
    BY <1>3, <2>1, <2>4, ZenonT(30) DEF OthersSame, SameCall
  <2>7. Typed'
    <3>1. "r_chunk" \in Point /\ <<>> \in Seq(Byte)
      BY DEF Point
    <3>2. /\ pc' \in [Fd -> Point] /\ all_blocks' \in [Fd -> [Index -> Addr]]
          /\ left' \in [Fd -> Nat] /\ from' \in [Fd -> Nat] /\ buf' \in [Fd -> Seq(Byte)]
      BY <1>3, <2>2, <2>3, <2>4, <3>1, Zenon
    <3>. QED  BY <2>0, <2>1, <3>2, Zenon DEF Typed
  <2>8. ASSUME NEW k \in p .. p + size - 1
        PROVE  blocks[k \div BLOCK_SIZE] = block_of(f, k \div BLOCK_SIZE)
    <3>1. k \in 0 .. i_size[f] - 1 /\ k \in Nat
      <4>1. i_size[f] \in Nat
        BY <2>0, LastIn
      <4>. QED  BY <2>2, <4>1, SMT, Z3
    <3>2. k \div BLOCK_SIZE \in Index
      BY <2>0, <3>1, ByteBlock, Zenon
    <3>3. PICK a \in Nat : a = p
      BY <2>2, Zenon
    <3>4. PICK z \in Nat : z = p + size
      BY <2>2, SMT, Z3
    <3>5. a <= k /\ k <= z
      BY <2>2, <3>1, <3>3, <3>4, SMT, Z3
    <3>6. a \div BLOCK_SIZE <= k \div BLOCK_SIZE /\ k \div BLOCK_SIZE <= z \div BLOCK_SIZE
      BY <3>1, <3>5, DivMono, Zenon
    <3>7. first = a \div BLOCK_SIZE /\ end = z \div BLOCK_SIZE
      BY <2>2, <3>3, <3>4, Zenon
    <3>8. PICK q \in Index : q = k \div BLOCK_SIZE
      BY <3>2
    <3>9. first <= q /\ q <= end /\ first \in Nat /\ end \in Nat
      BY <3>6, <3>7, <3>8, DivMod, Zenon
    <3>. HIDE DEF first, end
    <3>10. q \in first .. end /\ q \in Nat /\ (~(q < Direct) => end >= Direct)
      <4>1. q \in Nat /\ Direct \in Nat
        BY IndexNat, Zenon
      <4>. QED  BY <3>9, <4>1, Between, Zenon
    <3>11. blocks[q] = IF q < Direct THEN i_sectors[f][q] ELSE table[i_sectors[f][Table]][q]
      BY <3>10, Consts DEF blocks, Index
    <3>12. blocks[q] = block_of(f, q)
      BY <1>3, <3>10, <3>11, Zenon DEF block_of
    <3>. QED  BY <3>8, <3>12, Zenon
  <2>9. ReaderOK(d)'
    <3>. HIDE DEF size
    <3>1. left'[d] # 0 /\ fd_pos'[d] + left'[d] <= i_size'[f]
      BY <1>3, <2>1, <2>2, <2>5, Zenon
    <3>2. fd_pos'[d] = from'[d] + Len(buf'[d])
      BY <2>1, <2>2, <2>5, SMT, Z3
    <3>3. \A k \in fd_pos'[d] .. fd_pos'[d] + left'[d] - 1 :
            all_blocks'[d][k \div BLOCK_SIZE] = block_of(f, k \div BLOCK_SIZE)'
      BY <2>1, <2>5, <2>8, Zenon DEF block_of
    <3>. QED  BY <3>1, <3>2, <3>3, Zenon DEF ReaderOK
  <2>10. pc[d] = "idle"
    BY Zenon DEF sys_read, At
  <2>11. fd_pos'[d] <= i_size[f] \/ fd_pos'[d] = WORD - 1
    BY <2>0, <2>1, Zenon DEF Positions
  <2>12. \A i \in 1 .. Len(buf'[d]) : buf'[d][i] = ByteOf(f, from'[d] + i - 1)
    BY <2>5, SMT, Z3
  <2>. QED  BY <2>1, <2>5, <2>6, <2>7, <2>9, <2>10, <2>11, <2>12, ReadStep, Zenon
<1>. QED
  <2>. HIDE DEF size, first, end, blocks
  <2>. QED  BY <1>1, <1>2, <1>3, Zenon DEF sys_read, waits, goes_on, size, first, end, blocks

LEMMA ReadChunkStep ==
  ASSUME IInv, NEW d \in Fd, read_chunk(d)
  PROVE  IInv'
<1>. DEFINE f == file_of[d]
            p == fd_pos[d]
            n == chunk_size(p, left[d])
            off == p % BLOCK_SIZE
            s == sector[all_blocks[d][p \div BLOCK_SIZE]]
            new == [i \in 1 .. n |-> s[off + i - 1]]
<1>0. /\ Typed /\ Files /\ Writers /\ Data /\ ReadCorrect /\ ReaderOK(d) /\ f \in File
      /\ pc[d] = "r_chunk"
  BY Consts, Zenon DEF IInv, Readers, read_chunk, At
<1>1. /\ i_size' = i_size /\ i_sectors' = i_sectors /\ used' = used
      /\ sector' = sector /\ table' = table /\ from' = from
  BY Zenon DEF read_chunk, inodeVars, diskVars
<1>2. /\ left[d] # 0 /\ p + left[d] <= i_size[f] /\ p = from[d] + Len(buf[d])
      /\ \A k \in p .. p + left[d] - 1 :
           all_blocks[d][k \div BLOCK_SIZE] = block_of(f, k \div BLOCK_SIZE)
  BY <1>0, ZenonT(30) DEF ReaderOK
<1>2a. left[d] # 0 /\ p + left[d] <= i_size[f] /\ p = from[d] + Len(buf[d])
  BY <1>2, Zenon
<1>3. p \in Nat /\ left[d] \in Nat /\ i_size[f] \in Nat /\ from[d] \in Nat /\ buf[d] \in Seq(Byte)
  BY <1>0, LastIn DEF Typed
<1>. HIDE DEF n
<1>0a. off + n <= BLOCK_SIZE
  BY <1>2, <1>3, Chunk, Zenon DEF n
<1>4. n \in 1 .. left[d]
  BY <1>2, <1>3, Chunk, ZenonT(30) DEF n
<1>5. ASSUME NEW i \in 1 .. n
      PROVE  s[off + i - 1] = ByteOf(f, p + i - 1)
  <2>0. /\ p + i - 1 \in Nat /\ p + i - 1 \in p .. p + n - 1
        /\ p + i - 1 \in p .. p + left[d] - 1 /\ p + i - 1 \in 0 .. i_size[f] - 1
    BY <1>2a, <1>3, <1>4, InChunk, Zenon
  <2>1. PICK k \in Nat : k = p + i - 1
    BY <2>0, Zenon
  <2>2. k \in p .. p + n - 1 /\ k \in p .. p + left[d] - 1 /\ k \in 0 .. i_size[f] - 1
    BY <2>0, <2>1, Zenon
  <2>3. k \div BLOCK_SIZE = p \div BLOCK_SIZE /\ k % BLOCK_SIZE = off + k - p
    <3>1. n \in Nat
      BY <1>3, <1>4, Small, Zenon
    <3>. QED  BY <1>3, <1>0a, <2>2, <3>1, ChunkBytes, Zenon
  <2>4. s = sector[block_of(f, k \div BLOCK_SIZE)]
    BY <1>2, <2>2, <2>3, Zenon
  <2>5. sector[block_of(f, k \div BLOCK_SIZE)][k % BLOCK_SIZE] = ByteOf(f, k)
    BY <1>0, <2>2, Zenon DEF Data
  <2>6. off + k - p = off + i - 1
    <3>0. off \in Offset
      BY <1>3, DivMod, Zenon
    <3>. HIDE DEF off
    <3>1. off \in Nat
      BY <3>0, Consts, SMT, Z3 DEF Offset
    <3>. QED  BY <1>3, <2>1, <3>1, SMT, Z3
  <2>. QED  BY <2>1, <2>3, <2>4, <2>5, <2>6, ZenonT(30)
<1>6. new \in Seq(Byte) /\ Len(new) = n /\ \A i \in 1 .. n : new[i] = ByteOf(f, p + i - 1)
  <2>1. ASSUME NEW i \in 1 .. n  PROVE ByteOf(f, p + i - 1) \in Byte
    <3>1. (p + i - 1) % 3 \in 0 .. 2
      BY <1>3, <1>4, SMT, Z3
    <3>. QED  BY <1>0, <3>1, SMT, Z3 DEF ByteOf, Byte
  <2>2. \A i \in 1 .. n : new[i] = ByteOf(f, p + i - 1)
    BY <1>5, Zenon
  <2>3. n \in Nat /\ new = [i \in 1 .. n |-> new[i]]
    BY <1>4, SMT, Z3
  <2>. HIDE DEF new
  <2>4. new \in [1 .. n -> Byte]
    BY <2>1, <2>2, <2>3, SMT, Z3
  <2>. QED  BY <2>2, <2>3, <2>4, SMT, Z3
<1>. HIDE DEF new
<1>7. buf' = [buf EXCEPT ![d] = @ \o new] /\ fd_pos' = [fd_pos EXCEPT ![d] = @ + n]
  BY Zenon DEF read_chunk, n, new
<1>8. /\ pc \in [Fd -> Point] /\ all_blocks \in [Fd -> [Index -> Addr]] /\ left \in [Fd -> Nat]
      /\ block_idx \in [Fd -> Nat] /\ will_use \in [Fd -> Nat] /\ io_buf \in [Fd -> [Offset -> Byte]]
      /\ fd_pos \in [Fd -> Nat] /\ buf \in [Fd -> Seq(Byte)]
  BY <1>0, SMT, Z3 DEF Typed
<1>9. buf'[d] = buf[d] \o new /\ fd_pos'[d] = p + n
  BY <1>7, <1>8
<1>9a. fd_pos'[d] = p + n
  BY <1>9, Zenon
<1>10. buf'[d] \in Seq(Byte) /\ Len(buf'[d]) = Len(buf[d]) + n
  <2>1. /\ buf[d] \o new \in Seq(Byte)
        /\ Len(buf[d] \o new) = Len(buf[d]) + Len(new)
    BY <1>3, <1>6, SeqConcat, Zenon
  <2>. QED  BY <1>6, <1>9, <2>1, SMT, Z3
<1>11a. p + n \in Nat /\ p + n <= i_size[f]
  BY <1>2a, <1>3, <1>4, ChunkEnd, Zenon
<1>11. buf' \in [Fd -> Seq(Byte)] /\ fd_pos' \in [Fd -> Nat]
  <2>1. buf[d] \o new \in Seq(Byte)
    BY <1>9, <1>10, Zenon
  <2>. QED  BY <1>7, <1>8, <1>11a, <2>1, Zenon
<1>12. fd_pos'[d] <= i_size[f]
  BY <1>9a, <1>11a, Zenon
<1>13. ASSUME NEW i \in 1 .. Len(buf'[d])
       PROVE  buf'[d][i] = ByteOf(f, from'[d] + i - 1)
  <2>1. CASE i <= Len(buf[d])
    <3>1. buf'[d][i] = buf[d][i]
      BY <1>3, <1>6, <1>9, <2>1, SMT, Z3
    <3>2. i \in 1 .. Len(buf[d])
      BY <1>3, <2>1
    <3>. QED  BY <1>0, <1>1, <3>1, <3>2, Zenon DEF ReadCorrect
  <2>2. CASE i > Len(buf[d])
    <3>1. PICK j \in 1 .. n : i = Len(buf[d]) + j
      <4>1. i - Len(buf[d]) \in 1 .. n /\ i = Len(buf[d]) + (i - Len(buf[d]))
        BY <1>3, <1>4, <1>10, <2>2
      <4>. QED  BY <4>1, Zenon
    <3>2. n \in Nat /\ Len(buf[d]) \in Nat
      BY <1>3, <1>4, <1>6, LenNat, Zenon
    <3>3. buf'[d][i] = new[j]
      <4>1. j \in 1 .. Len(new) /\ new \in Seq(Byte)
        BY <1>6, Zenon
      <4>2. (buf[d] \o new)[Len(buf[d]) + j] = new[j]
        BY <1>3, <4>1, ConcatAt, Zenon
      <4>. QED  BY <1>9, <3>1, <4>2, Zenon
    <3>4. p + j - 1 = from'[d] + i - 1
      <4>1. (from[d] + Len(buf[d])) + j - 1 = from[d] + (Len(buf[d]) + j) - 1
        <5>1. from[d] \in Nat /\ Len(buf[d]) \in Nat /\ n \in Nat
          BY <1>3, <3>2, Zenon
        <5>. QED  BY <5>1, ChunkPlace, Zenon
      <4>2. p = from[d] + Len(buf[d]) /\ i = Len(buf[d]) + j /\ from' = from
        BY <1>1, <1>2a, <3>1, Zenon
      <4>. HIDE DEF p
      <4>. QED  BY <4>1, <4>2, Zenon
    <3>. QED  BY <1>6, <3>3, <3>4, Zenon
  <2>. QED  BY <1>3, <1>10, <2>1, <2>2
<1>14. CASE left[d] = n
  <2>1. returns(d)
    BY <1>14, Zenon DEF read_chunk, n
  <2>2. /\ pc' = [pc EXCEPT ![d] = "idle"]
        /\ all_blocks' = [all_blocks EXCEPT ![d] = NoBlocks]
        /\ block_idx' = [block_idx EXCEPT ![d] = 0]
        /\ will_use' = [will_use EXCEPT ![d] = 0]
        /\ left' = [left EXCEPT ![d] = 0]
        /\ io_buf' = [io_buf EXCEPT ![d] = Blank]
    BY <2>1 DEF returns, waits
  <2>3. Blank \in [Offset -> Byte] /\ NoBlocks \in [Index -> Addr] /\ "idle" \in Point
    BY Zenon DEF Blank, NoBlocks, Offset, Byte, Index, Addr, Point
  <2>4. /\ pc' \in [Fd -> Point] /\ all_blocks' \in [Fd -> [Index -> Addr]] /\ left' \in [Fd -> Nat]
        /\ block_idx' \in [Fd -> Nat] /\ will_use' \in [Fd -> Nat]
        /\ io_buf' \in [Fd -> [Offset -> Byte]]
    BY <1>8, <2>2, <2>3, SMT, Z3
  <2>5. Typed'
    BY <1>0, <1>1, <1>11, <2>4, ZenonT(30) DEF Typed
  <2>6. OthersSame(d)
    BY <1>1, <1>7, <1>8, <2>2, Zenon DEF OthersSame, SameCall
  <2>7. pc'[d] = "idle"
    BY <1>8, <2>2, Zenon
  <2>8. ReaderOK(d)'
    BY <2>7 DEF ReaderOK
  <2>. QED  BY <1>0, <1>1, <1>12, <1>13, <2>5, <2>6, <2>7, <2>8, ReadStep, Zenon
<1>15. CASE left[d] # n
  <2>1. /\ left' = [left EXCEPT ![d] = @ - n]
        /\ pc' = [pc EXCEPT ![d] = "r_chunk"]
        /\ all_blocks' = all_blocks /\ block_idx' = block_idx /\ will_use' = will_use
        /\ io_buf' = io_buf
    BY <1>15, Zenon DEF read_chunk, n, waits
  <2>2. left' \in [Fd -> Nat] /\ left'[d] = left[d] - n /\ pc' \in [Fd -> Point] /\ pc'[d] = "r_chunk"
    <3>1. left[d] - n \in Nat
      BY <1>3, <1>4, <1>15, Small, Zenon
    <3>2. "r_chunk" \in Point
      BY Zenon DEF Point
    <3>. QED  BY <1>8, <2>1, <3>1, <3>2, Zenon
  <2>3. Typed'
    BY <1>0, <1>1, <1>11, <2>1, <2>2, Zenon DEF Typed
  <2>4. OthersSame(d)
    BY <1>1, <1>7, <1>8, <2>1, Zenon DEF OthersSame, SameCall
  <2>5. ReaderOK(d)'
    <3>0. /\ n \in Nat /\ left[d] - n # 0 /\ (p + n) + (left[d] - n) = p + left[d]
          /\ \A k \in p + n .. (p + n) + (left[d] - n) - 1 : k \in p .. p + left[d] - 1
      BY <1>3, <1>4, <1>15, AfterChunk, Zenon
    <3>1. left'[d] # 0 /\ fd_pos'[d] + left'[d] = p + left[d]
      BY <1>9a, <2>2, <3>0, Zenon
    <3>2. fd_pos'[d] = from'[d] + Len(buf'[d])
      <4>1. Len(buf[d]) \in Nat
        BY <1>3, SMT, Z3
      <4>2. p + n = from[d] + (Len(buf[d]) + n)
        <5>1. p \in Nat /\ from[d] \in Nat /\ n \in Nat
          BY <1>3, <3>0, Zenon
        <5>2. p = from[d] + Len(buf[d])
          BY <1>2a, Zenon
        <5>. HIDE DEF p
        <5>. QED  BY <4>1, <5>1, <5>2, SMT, Z3
      <4>. QED  BY <1>1, <1>9a, <1>10, <4>2, Zenon
    <3>3. \A k \in fd_pos'[d] .. fd_pos'[d] + left'[d] - 1 : k \in p .. p + left[d] - 1
      BY <1>9a, <2>2, <3>0, Zenon
    <3>4. \A k \in fd_pos'[d] .. fd_pos'[d] + left'[d] - 1 :
            all_blocks'[d][k \div BLOCK_SIZE] = block_of(f, k \div BLOCK_SIZE)'
      BY <1>1, <1>2, <2>1, <3>3, Zenon DEF block_of
    <3>. QED  BY <1>1, <1>2, <3>1, <3>2, <3>4, Zenon DEF ReaderOK
  <2>. QED  BY <1>0, <1>1, <1>12, <1>13, <2>2, <2>3, <2>4, <2>5, ReadStep, Zenon
<1>. QED  BY <1>14, <1>15

-----------------------------------------------------------------------------
(* What a returning write leaves. *)
LEMMA Returned ==
  ASSUME Typed, NEW d \in Fd, returns(d)
  PROVE  /\ pc' \in [Fd -> Point] /\ all_blocks' \in [Fd -> [Index -> Addr]] /\ left' \in [Fd -> Nat]
         /\ block_idx' \in [Fd -> Nat] /\ will_use' \in [Fd -> Nat]
         /\ io_buf' \in [Fd -> [Offset -> Byte]] /\ pc'[d] = "idle"
         /\ \A e \in Fd \ {d} :
              /\ pc'[e] = pc[e] /\ all_blocks'[e] = all_blocks[e] /\ block_idx'[e] = block_idx[e]
              /\ will_use'[e] = will_use[e] /\ left'[e] = left[e] /\ io_buf'[e] = io_buf[e]
<1>1. /\ pc' = [pc EXCEPT ![d] = "idle"]
      /\ all_blocks' = [all_blocks EXCEPT ![d] = NoBlocks]
      /\ block_idx' = [block_idx EXCEPT ![d] = 0]
      /\ will_use' = [will_use EXCEPT ![d] = 0]
      /\ left' = [left EXCEPT ![d] = 0]
      /\ io_buf' = [io_buf EXCEPT ![d] = Blank]
  BY DEF returns, waits
<1>2. Blank \in [Offset -> Byte] /\ NoBlocks \in [Index -> Addr] /\ "idle" \in Point
  BY SMT, Z3 DEF Blank, NoBlocks, Offset, Byte, Index, Addr, Point
<1>3. /\ pc \in [Fd -> Point] /\ all_blocks \in [Fd -> [Index -> Addr]] /\ left \in [Fd -> Nat]
      /\ block_idx \in [Fd -> Nat] /\ will_use \in [Fd -> Nat] /\ io_buf \in [Fd -> [Offset -> Byte]]
  BY DEF Typed
<1>. QED  BY <1>1, <1>2, <1>3, SMT, Z3

(* A file whose write has all blocks and no byte to go is settled. *)
LEMMA WrittenIsSettled ==
  ASSUME Typed, NEW f \in File, HasBlocks(f, last(f) + 1)
  PROVE  Settled(f)
<1>1. 0 \in Index /\ 0 < last(f) + 1 /\ 0 < Direct
  BY LastIn, Consts, SMT, Z3 DEF Index
<1>2. block_of(f, 0) # 0
  BY <1>1 DEF HasBlocks
<1>3. i_sectors[f][0] # 0
  BY <1>1, <1>2, Zenon DEF block_of
<1>. QED  BY <1>3, Zenon DEF Settled

(* A step of a write that changes neither the files nor the disk. *)
LEMMA QuietWriteStep ==
  ASSUME IInv, NEW d \in Writer, OthersSame(d), Typed',
         i_size' = i_size, i_sectors' = i_sectors, used' = used, sector' = sector, table' = table,
         from' = from, buf' = buf,
         pc[d] # "w_alloc", pc'[d] \notin {"w_alloc", "r_chunk"},
         WriterOK(d)', pc'[d] \notin InWrite => Settled(file_of[d]),
         fd_pos'[d] <= i_size[file_of[d]] \/ fd_pos'[d] = WORD - 1
  PROVE  IInv'
<1>0. Typed /\ Files /\ Writers /\ Data /\ Exclusive /\ ReadCorrect /\ d \in Fd
  BY Consts, Zenon DEF IInv
<1>1. KeepsBlocks /\ \A g \in File : SameFile(g)
  BY <1>0, InodesSame, Zenon
<1>2. pc'[d] \notin InWrite => Settled(file_of[d])'
  BY <1>0, <1>1, SettledSame, Consts, Zenon
<1>3. ReaderOK(d)' /\ \A i \in 1 .. Len(buf'[d]) : buf'[d][i] = ByteOf(file_of[d], from'[d] + i - 1)
  BY <1>0, Zenon DEF ReaderOK, ReadCorrect
<1>4. Own(d)
  BY <1>1, <1>2, <1>3, Zenon DEF Own
<1>5. Data'
  BY <1>0, <1>1, DataSame, Zenon
<1>6. Exclusive'
  <2>1. ASSUME NEW i \in 0 .. MaxBlocks  PROVE own(d, i)' = own(d, i)
    BY Zenon DEF own, block_of
  <2>2. \A g \in File : \A i \in 0 .. MaxBlocks : SamePlace(g, i)
    BY <1>0, <1>1, <2>1, PlacesSame, Zenon
  <2>. QED  BY <1>0, <2>2, ExclusiveSame, SMT, Z3
<1>. QED  BY <1>0, <1>4, <1>5, <1>6, Finish, SMT, Z3

LEMMA WriteFirstStep ==
  ASSUME Counted, IInv, NEW d \in Writer, write_first(d)
  PROVE  IInv'
<1>. DEFINE f == file_of[d]
            off == i_size[f] % BLOCK_SIZE
<1>0. /\ Typed /\ Files /\ Writers /\ Data /\ Exclusive /\ ReadCorrect /\ f \in File /\ d \in Fd
      /\ pc[d] = "w_first"
  BY Consts, Zenon DEF IInv, write_first, At
<1>1. /\ i_size' = i_size /\ i_sectors' = i_sectors /\ used' = used
      /\ sector' = sector /\ table' = table /\ from' = from /\ buf' = buf
      /\ fd_pos' = [fd_pos EXCEPT ![d] = (i_size[f] - 1) % WORD]
  BY Zenon DEF write_first, inodeVars, diskVars, readVars
<1>2. Writing(d)
  BY <1>0, Zenon DEF Writers, WriterOK
<1>3. (i_size[f] - 1) % WORD \in Nat /\ ((i_size[f] - 1) % WORD <= i_size[f] \/ (i_size[f] - 1) % WORD = WORD - 1)
  <2>1. PICK z \in Nat : z = i_size[f] /\ z < Limit
    BY <1>0, LastIn, Zenon
  <2>2. Limit < WORD /\ Limit \in Nat /\ WORD \in Nat
    BY Consts, SMT, Z3 DEF Counted, Limit
  <2>3. CASE z = 0
    <3>1. (0 - 1) % WORD = WORD - 1 /\ WORD - 1 \in Nat
      BY <2>2, ModMinusOne
    <3>. QED  BY <2>1, <2>3, <3>1, SMT, Z3
  <2>4. CASE z # 0
    <3>1. PICK y \in Nat : y = z - 1 /\ y < WORD /\ y <= z
      BY <2>1, <2>2, <2>4, SMT, Z3
    <3>2. y % WORD = y
      BY <3>1, ModSmall
    <3>. QED  BY <2>1, <3>1, <3>2, Zenon
  <2>. QED  BY <2>3, <2>4, Zenon
<1>4. /\ fd_pos \in [Fd -> Nat] /\ pc \in [Fd -> Point] /\ io_buf \in [Fd -> [Offset -> Byte]]
  BY <1>0, Zenon DEF Typed
<1>5. /\ fd_pos' \in [Fd -> Nat] /\ \A e \in Fd \ {d} : fd_pos'[e] = fd_pos[e]
      /\ fd_pos'[d] <= i_size[f] \/ fd_pos'[d] = WORD - 1
  <2>1. PICK y \in Nat : y = (i_size[f] - 1) % WORD
    BY <1>3
  <2>2. fd_pos' = [fd_pos EXCEPT ![d] = y]
    BY <1>1, <2>1, Zenon
  <2>3. y <= i_size[f] \/ y = WORD - 1
    BY <1>3, <2>1, Zenon
  <2>. QED  BY <1>0, <1>4, <2>2, <2>3, Zenon
<1>6. CASE left[d] = 0
  <2>1. returns(d)
    BY <1>6, Zenon DEF write_first
  <2>2. /\ pc' \in [Fd -> Point] /\ all_blocks' \in [Fd -> [Index -> Addr]] /\ left' \in [Fd -> Nat]
        /\ block_idx' \in [Fd -> Nat] /\ will_use' \in [Fd -> Nat]
        /\ io_buf' \in [Fd -> [Offset -> Byte]] /\ pc'[d] = "idle"
        /\ \A e \in Fd \ {d} :
             /\ pc'[e] = pc[e] /\ all_blocks'[e] = all_blocks[e] /\ block_idx'[e] = block_idx[e]
             /\ will_use'[e] = will_use[e] /\ left'[e] = left[e] /\ io_buf'[e] = io_buf[e]
    BY <1>0, <2>1, Returned, Zenon
  <2>3. Typed'
    BY <1>0, <1>1, <1>5, <2>2, ZenonT(30) DEF Typed
  <2>4. OthersSame(d)
    BY <1>1, <1>5, <2>2, Zenon DEF OthersSame, SameCall
  <2>5. WriterOK(d)'
    BY <2>2, Zenon DEF WriterOK
  <2>6. Settled(f)
    <3>1. i_size[f] + left[d] = i_size[f]
      BY <1>0, <1>6, LastIn
    <3>2. will_use[d] = last(f) + 1
      BY <1>2, <3>1, Zenon DEF Writing, Planned, last
    <3>3. HasBlocks(f, last(f) + 1)
      BY <1>2, <3>2 DEF Writing
    <3>. QED  BY <1>0, <3>3, WrittenIsSettled, Zenon
  <2>. QED  BY <1>0, <1>1, <1>5, <2>2, <2>3, <2>4, <2>5, <2>6, QuietWriteStep, Zenon
<1>7. CASE left[d] # 0
  <2>. DEFINE s == sector[block_of(f, last(f))]
  <2>0. all_blocks[d][last(f)] = block_of(f, last(f)) /\ block_of(f, last(f)) \in Block
        /\ last(f) \in Index
    <3>1. last(f) < will_use[d] /\ will_use[d] \in Nat /\ last(f) \in Index
      BY <1>0, <1>2, PlannedLast, LastIn, ZenonT(30) DEF Writing, Typed
    <3>2. last(f) \in last(f) .. will_use[d] - 1
      BY <3>1, Consts, SMT, Z3 DEF Index
    <3>3. block_of(f, last(f)) # 0
      BY <1>2, <3>1 DEF Writing, HasBlocks
    <3>. QED  BY <1>0, <1>2, <3>1, <3>2, <3>3, BlockOfType, Zenon DEF Writing, Addr
  <2>1. io_buf' = [io_buf EXCEPT ![d] = s]
    BY <1>7, <2>0, Zenon DEF write_first, last
  <2>2. /\ pc' = [pc EXCEPT ![d] = "w_chunk"] /\ all_blocks' = all_blocks
        /\ block_idx' = block_idx /\ will_use' = will_use /\ left' = left
    BY <1>7, ZenonT(30) DEF write_first, waits
  <2>3. s \in [Offset -> Byte] /\ "w_chunk" \in Point
    BY <1>0, <2>0, SMT, Z3 DEF Typed, Point
  <2>4. io_buf' \in [Fd -> [Offset -> Byte]] /\ io_buf'[d] = s /\ pc' \in [Fd -> Point] /\ pc'[d] = "w_chunk"
    <3>. HIDE DEF s
    <3>. QED  BY <1>0, <1>4, <2>1, <2>2, <2>3, SMT, Z3
  <2>5. Typed'
    BY <1>0, <1>1, <1>5, <2>2, <2>4, Zenon DEF Typed
  <2>6. OthersSame(d)
    BY <1>1, <1>4, <1>5, <2>1, <2>2, Zenon DEF OthersSame, SameCall
  <2>7. Bytes(f, s, 0, off)
    <3>. SUFFICES ASSUME NEW o \in 0 .. off - 1
                  PROVE  s[o] = ByteOf(f, last(f) * BLOCK_SIZE + o)
      BY Zenon DEF Bytes
    <3>1. PICK q \in Nat : q = last(f)
      BY <2>0, Indices, Zenon
    <3>2. PICK z \in Nat : z = i_size[f]
      BY <1>0, LastIn, Zenon
    <3>3. PICK r \in Offset : r = off
      <4>1. off \in Offset
        BY <1>0, LastIn, ZenonT(30)
      <4>. QED  BY <4>1, Zenon
    <3>4. z = BLOCK_SIZE * q + r
      BY <1>0, <3>1, <3>2, <3>3, LastIn, Zenon
    <3>5. BLOCK_SIZE * q \in Nat /\ BLOCK_SIZE * q = q * BLOCK_SIZE /\ BLOCK_SIZE \in Nat
      BY Consts, SMT, Z3
    <3>6. PICK k \in Nat : k = q * BLOCK_SIZE + o /\ k = BLOCK_SIZE * q + o /\ k <= z - 1 /\ o \in Offset
      BY <3>3, <3>4, <3>5, SMT, Z3 DEF Offset
    <3>7. k \div BLOCK_SIZE = q /\ k % BLOCK_SIZE = o
      BY <3>6, DivUnique, Zenon
    <3>8. sector[block_of(f, k \div BLOCK_SIZE)][k % BLOCK_SIZE] = ByteOf(f, k)
      <4>1. k \in 0 .. i_size[f] - 1
        BY <3>2, <3>6
      <4>. QED  BY <1>0, <4>1, Zenon DEF Data
    <3>. QED  BY <3>1, <3>6, <3>7, <3>8, Zenon
  <2>8. WriterOK(d)'
    <3>1. Writing(d)'
      BY <1>1, <1>2, <2>2, Zenon DEF Writing, Planned, HasBlocks, last, block_of
    <3>2. Bytes(f, io_buf[d], 0, off)'
      BY <1>1, <2>4, <2>7, Zenon DEF Bytes, last
    <3>. QED  BY <1>7, <2>2, <2>4, <3>1, <3>2, Zenon DEF WriterOK
  <2>. QED  BY <1>0, <1>1, <1>5, <2>4, <2>5, <2>6, <2>8, QuietWriteStep, Zenon DEF InWrite
<1>. QED  BY <1>6, <1>7, SMT, Z3

(* The block that a write is about to fill. *)
LEMMA LastBlock ==
  ASSUME Typed, NEW d \in Writer, Writing(d)
  PROVE  LET f == file_of[d] IN
         /\ last(f) \in Index /\ all_blocks[d][last(f)] = block_of(f, last(f))
         /\ block_of(f, last(f)) \in Block /\ block_of(f, last(f)) # 0
<1>. DEFINE f == file_of[d]
<1>0. d \in Fd /\ f \in File
  BY Consts
<1>1. last(f) < will_use[d] /\ will_use[d] \in Nat /\ last(f) \in Index
  BY <1>0, PlannedLast, LastIn, Zenon DEF Writing, Typed
<1>2. last(f) \in last(f) .. will_use[d] - 1
  BY <1>1, Consts, SMT, Z3 DEF Index
<1>3. block_of(f, last(f)) # 0
  BY <1>1, Zenon DEF Writing, HasBlocks
<1>4. block_of(f, last(f)) \in Addr
  BY <1>0, <1>1, BlockOfType, Zenon
<1>. QED  BY <1>1, <1>2, <1>3, <1>4, Zenon DEF Writing, Addr

LEMMA WriteChunkStep ==
  ASSUME IInv, NEW d \in Writer, write_chunk(d)
  PROVE  IInv'
<1>. DEFINE f == file_of[d]
            z == i_size[f]
            off == z % BLOCK_SIZE
            n == chunk_size(z, left[d])
            b == block_of(f, last(f))
            new == [o \in 0 .. BLOCK_SIZE - 1 |->
                      IF o \in off .. off + n - 1 THEN ByteOf(f, z + o - off) ELSE io_buf[d][o]]
<1>0. /\ Typed /\ Files /\ Writers /\ Data /\ Exclusive /\ ReadCorrect /\ Positions /\ f \in File /\ d \in Fd
      /\ pc[d] = "w_chunk"
  BY Consts, Zenon DEF IInv, write_chunk, At
<1>1. /\ i_size' = i_size /\ i_sectors' = i_sectors /\ used' = used /\ fd_pos' = fd_pos
      /\ table' = table /\ from' = from /\ buf' = buf /\ all_blocks' = all_blocks
      /\ block_idx' = block_idx /\ will_use' = will_use /\ left' = left /\ io_buf' = io_buf
      /\ pc' = [pc EXCEPT ![d] = "w_next"]
  BY Zenon DEF write_chunk, inodeVars, localVars, readVars, waits
<1>2. Writing(d) /\ left[d] # 0 /\ Bytes(f, io_buf[d], 0, off)
  BY <1>0, Zenon DEF Writers, WriterOK
<1>3. last(f) \in Index /\ all_blocks[d][last(f)] = b /\ b \in Block /\ b # 0
  BY <1>0, <1>2, LastBlock, Zenon
<1>4. sector' = [sector EXCEPT ![b] = new]
  BY <1>3, Zenon DEF write_chunk, last
<1>5. z \in Nat /\ left[d] \in Nat
  BY <1>0, LastIn, Zenon DEF Typed
<1>6. n \in 1 .. left[d]
  BY <1>2, <1>5, Chunk, Zenon
<1>7. off + n <= BLOCK_SIZE
  BY <1>2, <1>5, Chunk, ZenonT(30)
<1>8. off \in Offset
  BY <1>5, DivMod, Zenon
<1>. HIDE DEF n
<1>9. n \in Nat /\ n >= 1
  BY <1>5, <1>6, Small, Zenon
<1>10. PICK q \in Nat : q = last(f)
  BY <1>3, Indices, Zenon
<1>11. z = BLOCK_SIZE * q + off /\ BLOCK_SIZE * q \in Nat /\ BLOCK_SIZE * q = q * BLOCK_SIZE
  <2>1. z = BLOCK_SIZE * last(f) + off
    BY <1>0, LastIn, Zenon
  <2>. QED  BY <1>10, <2>1, Product, Zenon
<1>12. PICK r \in Nat : r = off /\ r \in Offset /\ r + n <= BLOCK_SIZE /\ z = BLOCK_SIZE * q + r
  BY <1>7, <1>8, <1>11, OffsetNat, Zenon
<1>13. new = [o \in Offset |-> IF o \in r .. r + n - 1 THEN ByteOf(f, z + o - r) ELSE io_buf[d][o]]
  BY <1>12, Zenon DEF Offset
<1>. HIDE DEF off, new
<1>14. new \in [Offset -> Byte]
  <2>. SUFFICES ASSUME NEW o \in Offset
                PROVE  new[o] \in Byte
    BY <1>13, Zenon
  <2>1. io_buf[d][o] \in Byte
    BY <1>0, SMT, Z3 DEF Typed
  <2>2. o \in Nat
    BY Consts DEF Offset
  <2>3. o \in r .. r + n - 1 => ByteOf(f, z + o - r) \in Byte
    <3>. HAVE o \in r .. r + n - 1
    <3>1. z + o - r \in Nat
      BY <1>5, <1>9, <2>2, SMT, Z3
    <3>2. (z + o - r) % 3 \in 0 .. 2
      BY <3>1
    <3>. QED  BY <1>0, <3>2, Zenon DEF ByteOf, Byte
  <2>. QED  BY <1>13, <2>1, <2>3, Zenon
<1>15. /\ sector \in [Block -> [Offset -> Byte]] /\ sector' \in [Block -> [Offset -> Byte]]
       /\ sector'[b] = new /\ \A c \in Block : c # b => sector'[c] = sector[c]
  BY <1>0, <1>3, <1>4, <1>14, Zenon DEF Typed
<1>16. pc \in [Fd -> Point] /\ pc' \in [Fd -> Point] /\ pc'[d] = "w_next"
       /\ \A e \in Fd \ {d} : pc'[e] = pc[e]
  BY <1>0, <1>1, ZenonT(30) DEF Typed, Point
<1>17. Typed'
  BY <1>0, <1>1, <1>15, <1>16, Zenon DEF Typed
<1>18. KeepsBlocks /\ \A g \in File : SameFile(g)
  BY <1>0, <1>1, InodesSame, Zenon
<1>19. OthersSame(d)
  BY <1>1, <1>16, Zenon DEF OthersSame, SameCall
<1>20. ASSUME NEW g \in File, NEW i \in Index, block_of(g, i) # 0, g # f \/ i # last(f)
       PROVE  sector'[block_of(g, i)] = sector[block_of(g, i)]
  <2>1. block_of(g, i) \in Block
    BY <1>0, <1>20, BlockOfType, Zenon DEF Addr
  <2>2. PICK j \in Index : j = last(f)
    BY <1>3, Zenon
  <2>3. block_of(g, i) # block_of(f, j)
    BY <1>0, <1>20, <2>2, Distinct, SMT, Z3
  <2>. QED  BY <1>15, <2>1, <2>2, <2>3, Zenon
<1>21. WriterOK(d)'
  <2>1. Writing(d)'
    BY <1>1, <1>2, Zenon DEF Writing, Planned, HasBlocks, last, block_of
  <2>2. ASSUME NEW o \in r .. r + n - 1
        PROVE  new[o] = ByteOf(f, q * BLOCK_SIZE + o)
    <3>1. o \in Offset /\ o \in Nat
      BY <1>9, <1>12, Consts, SMT, Z3 DEF Offset
    <3>2. z + o - r = q * BLOCK_SIZE + o
      BY <1>5, <1>11, <1>12, <3>1, SMT, Z3
    <3>. QED  BY <1>13, <3>1, <3>2, Zenon
  <2>3. Bytes(f, sector[block_of(f, last(f))], i_size[f] % BLOCK_SIZE,
              (i_size[f] % BLOCK_SIZE) + chunk_size(i_size[f], left[d]))'
    <3>1. Bytes(f, new, off, off + n)
      <4>1. \A o \in r .. (r + n) - 1 : new[o] = ByteOf(f, last(f) * BLOCK_SIZE + o)
        <5>1. (r + n) - 1 = r + n - 1
          BY <1>9
        <5>. QED  BY <1>10, <2>2, <5>1, SMT, Z3
      <4>2. Bytes(f, new, r, r + n)
        BY <4>1, Zenon DEF Bytes
      <4>. QED  BY <1>12, <4>2, Zenon
    <3>2. block_of(f, last(f))' = b
      BY <1>1, Zenon DEF block_of, last
    <3>. QED  BY <1>1, <1>15, <3>1, <3>2, Zenon DEF Bytes, off, n, last
  <2>. QED  BY <1>1, <1>2, <1>16, <2>1, <2>3, Zenon DEF WriterOK
<1>22. Own(d)
  <2>1. ReaderOK(d)'
    BY <1>16, Zenon DEF ReaderOK
  <2>2. fd_pos'[d] <= i_size'[f] \/ fd_pos'[d] = WORD - 1
    BY <1>0, <1>1, Zenon DEF Positions
  <2>3. \A i \in 1 .. Len(buf'[d]) : buf'[d][i] = ByteOf(f, from'[d] + i - 1)
    BY <1>0, <1>1 DEF ReadCorrect
  <2>4. pc'[d] \in InWrite
    BY <1>16, Zenon DEF InWrite
  <2>. QED  BY <1>18, <1>19, <1>20, <1>21, <2>1, <2>2, <2>3, <2>4, Zenon DEF Own
<1>23. Data'
  <2>. SUFFICES ASSUME NEW g \in File, NEW k \in 0 .. i_size[g] - 1
                PROVE  sector'[block_of(g, k \div BLOCK_SIZE)][k % BLOCK_SIZE] = ByteOf(g, k)
    BY <1>1, Zenon DEF Data, block_of
  <2>1. k \div BLOCK_SIZE \in Index /\ block_of(g, k \div BLOCK_SIZE) \in Block
    BY <1>0, ByteBlock, Zenon
  <2>2. PICK j \in Index : j = k \div BLOCK_SIZE
    BY <2>1, Zenon
  <2>3. block_of(g, j) # 0 /\ block_of(g, j) \in Block
    BY <2>1, <2>2, Consts, SMT, Z3 DEF Block
  <2>4. sector[block_of(g, j)][k % BLOCK_SIZE] = ByteOf(g, k)
    BY <1>0, <2>2, Zenon DEF Data
  <2>5. CASE g # f \/ j # last(f)
    <3>1. sector'[block_of(g, j)] = sector[block_of(g, j)]
      BY <1>20, <2>3, <2>5, Zenon
    <3>. QED  BY <2>2, <2>4, <3>1, Zenon
  <2>6. CASE g = f /\ j = last(f)
    <3>1. k \in Nat /\ k < z
      BY <1>5, <2>6
    <3>2. PICK o \in Offset : o = k % BLOCK_SIZE /\ k = BLOCK_SIZE * (k \div BLOCK_SIZE) + o
      BY <3>1, DivMod, Zenon
    <3>3. k = BLOCK_SIZE * q + o
      BY <1>10, <2>2, <2>6, <3>2, Zenon
    <3>4. o \in 0 .. r - 1 /\ k = q * BLOCK_SIZE + o /\ o \notin r .. r + n - 1
      <4>1. o \in Nat
        BY Consts, SMT, Z3 DEF Offset
      <4>2. o < r
        BY <1>11, <1>12, <3>1, <3>3, <4>1, SMT, Z3
      <4>. QED  BY <1>11, <3>3, <4>1, <4>2, SMT, Z3
    <3>5. io_buf[d][o] = ByteOf(f, k)
      <4>1. \A u \in 0 .. r - 1 : io_buf[d][u] = ByteOf(f, q * BLOCK_SIZE + u)
        BY <1>2, <1>10, <1>12, Zenon DEF Bytes
      <4>. QED  BY <3>4, <4>1, SMT, Z3
    <3>6. new[o] = io_buf[d][o]
      BY <1>13, <3>4, Zenon
    <3>. QED  BY <1>15, <2>2, <2>6, <3>2, <3>5, <3>6, Zenon
  <2>. QED  BY <2>5, <2>6
<1>24. Exclusive'
  <2>1. ASSUME NEW i \in 0 .. MaxBlocks  PROVE own(d, i)' = own(d, i)
    BY <1>0, <1>1, <1>16, Zenon DEF own, block_of
  <2>2. \A g \in File : \A i \in 0 .. MaxBlocks : SamePlace(g, i)
    BY <1>0, <1>18, <1>19, <2>1, PlacesSame, Zenon
  <2>. QED  BY <1>0, <1>1, <2>2, ExclusiveSame, SMT, Z3
<1>. QED  BY <1>0, <1>17, <1>22, <1>23, <1>24, Finish, Zenon

(* Where the sector that has been written ends, and the position with it. *)
LEMMA NextFacts ==
  ASSUME Counted, Typed, Positions, NEW d \in Writer, Writing(d), left[d] # 0
  PROVE  LET z == i_size[file_of[d]]
             n == chunk_size(z, left[d])
         IN  /\ z + left[d] < Limit
             /\ (fd_pos[d] + n) % WORD \in Nat /\ (fd_pos[d] + n) % WORD <= z + n
<1>. DEFINE z == i_size[file_of[d]]
            n == chunk_size(z, left[d])
<1>1. z \in Nat /\ left[d] \in Nat /\ z < Limit /\ d \in Fd
  BY LastIn, Consts, Zenon DEF Typed
<1>2. n \in 1 .. left[d]
  BY <1>1, Chunk, Zenon
<1>. HIDE DEF n
<1>3. n \in Nat /\ n >= 1 /\ n <= left[d]
  BY <1>1, <1>2, Small, Zenon
<1>4. z + left[d] < Limit
  <2>1. PICK t \in Nat : t = z + left[d]
    BY <1>1
  <2>2. will_use[d] = t \div BLOCK_SIZE + 1 /\ will_use[d] <= MaxBlocks /\ t \div BLOCK_SIZE \in Nat
    BY <2>1, DivMod, Zenon DEF Writing, Planned
  <2>3. t \div BLOCK_SIZE < MaxBlocks
    BY <2>2, Consts
  <2>4. t < BLOCK_SIZE * MaxBlocks
    BY <2>3, DivLimit, Consts, Zenon
  <2>. QED  BY <2>1, <2>4, SMT, Z3 DEF Limit
<1>5. (fd_pos[d] + n) % WORD \in Nat /\ (fd_pos[d] + n) % WORD <= z + n
  <2>1. PICK p \in Nat : p = fd_pos[d]
    BY <1>1, Zenon DEF Typed
  <2>2. Limit < WORD /\ Limit \in Nat /\ WORD \in Nat
    BY Consts, Zenon DEF Counted, Limit
  <2>3. p <= z \/ p = WORD - 1
    BY <1>1, <2>1, Zenon DEF Positions
  <2>4. CASE p <= z
    <3>1. p + n \in Nat /\ p + n < WORD /\ p + n <= z + n
      BY <1>1, <1>3, <1>4, <2>2, <2>4, SMT, Z3
    <3>2. (p + n) % WORD = p + n
      BY <3>1, ModSmall, Zenon
    <3>. QED  BY <2>1, <3>1, <3>2, Zenon
  <2>5. CASE p = WORD - 1
    <3>1. PICK m \in Nat : m = n - 1 /\ m < WORD /\ m <= z + n /\ p + n = WORD + m
      BY <1>1, <1>3, <1>4, <2>2, <2>5, SMT, Z3
    <3>2. (WORD + m) % WORD = m
      BY <3>1, ModWrap, SMT, Z3
    <3>. QED  BY <2>1, <3>1, <3>2, Zenon
  <2>. QED  BY <2>3, <2>4, <2>5, Zenon
<1>. QED  BY <1>4, <1>5, Zenon DEF n

LEMMA WriteNextStep ==
  ASSUME Counted, IInv, NEW d \in Writer, write_next(d)
  PROVE  IInv'
<1>. DEFINE f == file_of[d]
            z == i_size[f]
            off == z % BLOCK_SIZE
            n == chunk_size(z, left[d])
<1>0. /\ Typed /\ Files /\ Writers /\ Data /\ Exclusive /\ ReadCorrect /\ Positions /\ f \in File /\ d \in Fd
      /\ pc[d] = "w_next"
  BY Consts, Zenon DEF IInv, write_next, At
<1>1. /\ i_sectors' = i_sectors /\ used' = used /\ sector' = sector /\ table' = table
      /\ from' = from /\ buf' = buf
      /\ i_size' = [i_size EXCEPT ![f] = @ + n]
      /\ fd_pos' = [fd_pos EXCEPT ![d] = (@ + n) % WORD]
  BY DEF write_next, diskVars, readVars
<1>2. Writing(d) /\ left[d] # 0 /\ Bytes(f, sector[block_of(f, last(f))], off, off + n)
  BY <1>0, Zenon DEF Writers, WriterOK
<1>5. z \in Nat /\ left[d] \in Nat /\ z < Limit
  BY <1>0, LastIn, Zenon DEF Typed
<1>6. n \in 1 .. left[d]
  BY <1>2, <1>5, Chunk, Zenon
<1>7. off + n <= BLOCK_SIZE
  BY <1>2, <1>5, Chunk, Zenon
<1>8. n # left[d] => off + n = BLOCK_SIZE
  BY <1>2, <1>5, Chunk, Zenon
<1>. HIDE DEF n
<1>9. n \in Nat /\ n >= 1 /\ n <= left[d]
  BY <1>5, <1>6, Small, Zenon
<1>10. z + left[d] < Limit
  BY <1>0, <1>2, NextFacts, Zenon
<1>11. z + n \in 0 .. Limit - 1 /\ z <= z + n
  BY <1>5, <1>9, <1>10, Grown, Consts, Zenon
<1>12. i_size \in [File -> 0 .. Limit - 1] /\ fd_pos \in [Fd -> Nat]
  BY <1>0, Zenon DEF Typed
<1>13. /\ i_size' \in [File -> 0 .. Limit - 1] /\ i_size'[f] = z + n
       /\ \A g \in File : g # f => i_size'[g] = i_size[g]
  BY <1>0, <1>1, <1>11, <1>12, SMT, Z3
<1>14. (fd_pos[d] + n) % WORD \in Nat /\ (fd_pos[d] + n) % WORD <= z + n
  BY <1>0, <1>2, NextFacts, Zenon DEF n
<1>15. /\ fd_pos' \in [Fd -> Nat] /\ fd_pos'[d] <= i_size'[f]
       /\ \A e \in Fd \ {d} : fd_pos'[e] = fd_pos[e]
  <2>1. PICK y \in Nat : y = (fd_pos[d] + n) % WORD /\ y <= z + n
    BY <1>14
  <2>2. fd_pos' = [fd_pos EXCEPT ![d] = y]
    BY <1>1, <2>1, Zenon
  <2>. QED  BY <1>0, <1>12, <1>13, <2>1, <2>2, Zenon
<1>16. \A g \in File : \A i \in Index : block_of(g, i)' = block_of(g, i)
  BY <1>1, Zenon DEF block_of
<1>17. KeepsBlocks /\ \A g \in File : g # f => SameFile(g)
  <2>1. \A g \in File : i_size[g] <= i_size'[g]
    <3>. TAKE g \in File
    <3>1. i_size[g] \in Nat
      BY <1>0, LastIn, Zenon
    <3>2. CASE g = f
      BY <1>11, <1>13, <3>2, Zenon
    <3>3. CASE g # f
      BY <1>13, <3>1, <3>3, Small, Zenon
    <3>. QED  BY <3>2, <3>3, Zenon
  <2>. QED  BY <1>1, <1>13, <1>16, <2>1, Zenon DEF KeepsBlocks, SameFile
<1>18. Data'
  <2>. SUFFICES ASSUME NEW g \in File, NEW k \in 0 .. i_size'[g] - 1
                PROVE  sector[block_of(g, k \div BLOCK_SIZE)][k % BLOCK_SIZE] = ByteOf(g, k)
    BY <1>1, Zenon DEF Data, block_of
  <2>1. CASE k < i_size[g]
    <3>1. k \in 0 .. i_size[g] - 1
      <4>1. i_size[g] \in Nat /\ i_size'[g] \in 0 .. Limit - 1
        BY <1>0, <1>13, LastIn, Zenon
      <4>2. i_size'[g] \in Nat
        BY <4>1, Consts, Small, Zenon
      <4>. QED  BY <2>1, <4>1, <4>2, Small, Zenon
    <3>. QED  BY <1>0, <3>1, Zenon DEF Data
  <2>2. CASE ~(k < i_size[g])
    <3>1. g = f
      <4>1. g # f => k \in 0 .. i_size[g] - 1 /\ i_size[g] \in Nat
        BY <1>0, <1>13, LastIn, Zenon
      <4>. QED  BY <2>2, <4>1, Small, Zenon
    <3>2. k \in z .. z + n - 1 /\ k \in Nat
      BY <1>5, <1>9, <1>13, <2>2, <3>1, SMT, Z3
    <3>3. k \div BLOCK_SIZE = z \div BLOCK_SIZE /\ k % BLOCK_SIZE = off + k - z
      BY <1>5, <1>7, <1>9, <3>2, ChunkBytes, Zenon
    <3>4. off \in Offset /\ z = BLOCK_SIZE * last(f) + off /\ last(f) \in Index
      BY <1>0, LastIn, Zenon
    <3>5. PICK r \in Nat : r = off
      BY <3>4, OffsetNat, Zenon
    <3>6. PICK q \in Nat : q = last(f) /\ z = BLOCK_SIZE * q + r
      BY <3>4, <3>5, IndexNat, Zenon
    <3>7. PICK o \in r .. r + n - 1 : o = r + k - z /\ k = q * BLOCK_SIZE + o
      <4>1. BLOCK_SIZE * q \in Nat /\ BLOCK_SIZE * q = q * BLOCK_SIZE
        BY Product, Zenon
      <4>. QED  BY <1>5, <1>9, <3>2, <3>6, <4>1, SMT, Z3
    <3>8. \A u \in r .. r + n - 1 : sector[block_of(f, q)][u] = ByteOf(f, q * BLOCK_SIZE + u)
      <4>1. \A u \in r .. (r + n) - 1 : sector[block_of(f, q)][u] = ByteOf(f, q * BLOCK_SIZE + u)
        BY <1>2, <3>5, <3>6, Zenon DEF Bytes
      <4>2. (r + n) - 1 = r + n - 1
        BY <1>9
      <4>. QED  BY <4>1, <4>2, SMT, Z3
    <3>9. sector[block_of(f, q)][o] = ByteOf(f, k)
      BY <3>7, <3>8, Zenon
    <3>10. k \div BLOCK_SIZE = q /\ k % BLOCK_SIZE = o
      BY <3>3, <3>5, <3>6, <3>7, Zenon DEF last
    <3>. QED  BY <3>1, <3>9, <3>10, Zenon
  <2>. QED  BY <2>1, <2>2, Zenon
<1>19. ASSUME pc'[d] # "w_alloc", OthersSame(d), Typed', WriterOK(d)', pc'[d] # "r_chunk",
              pc'[d] \notin InWrite => Settled(f)'
       PROVE  IInv'
  <2>1. ReaderOK(d)'
    BY <1>19, Zenon DEF ReaderOK
  <2>2. \A i \in 1 .. Len(buf'[d]) : buf'[d][i] = ByteOf(f, from'[d] + i - 1)
    BY <1>0, <1>1, Zenon DEF ReadCorrect
  <2>3. Own(d)
    BY <1>1, <1>15, <1>17, <1>19, <2>1, <2>2, Zenon DEF Own
  <2>4. ASSUME NEW i \in 0 .. MaxBlocks  PROVE own(d, i)' = own(d, i)
    BY <1>0, <1>1, <1>19, Zenon DEF own, block_of
  <2>5. \A g \in File : \A i \in 0 .. MaxBlocks : SamePlace(g, i)
    BY <1>0, <1>17, <1>19, <2>4, PlacesSame, Zenon
  <2>6. Exclusive'
    BY <1>0, <1>1, <2>5, ExclusiveSame, Zenon
  <2>. QED  BY <1>0, <1>18, <1>19, <2>3, <2>6, Finish, Zenon
<1>20. CASE left[d] = n
  <2>1. returns(d)
    BY <1>20 DEF write_next, n
  <2>2. /\ pc' \in [Fd -> Point] /\ all_blocks' \in [Fd -> [Index -> Addr]] /\ left' \in [Fd -> Nat]
        /\ block_idx' \in [Fd -> Nat] /\ will_use' \in [Fd -> Nat]
        /\ io_buf' \in [Fd -> [Offset -> Byte]] /\ pc'[d] = "idle"
        /\ \A e \in Fd \ {d} :
             /\ pc'[e] = pc[e] /\ all_blocks'[e] = all_blocks[e] /\ block_idx'[e] = block_idx[e]
             /\ will_use'[e] = will_use[e] /\ left'[e] = left[e] /\ io_buf'[e] = io_buf[e]
    BY <1>0, <2>1, Returned, Zenon
  <2>3. Typed'
    BY <1>0, <1>1, <1>13, <1>15, <2>2, Zenon DEF Typed
  <2>4. OthersSame(d)
    BY <1>1, <1>15, <2>2, Zenon DEF OthersSame, SameCall
  <2>5. WriterOK(d)'
    BY <2>2, Zenon DEF WriterOK
  <2>6. Settled(f)'
    <3>1. PICK w : w = will_use[d] /\ HasBlocks(f, w)
      BY <1>2, Zenon DEF Writing
    <3>2. w = last(f)' + 1
      BY <1>2, <1>13, <1>20, <3>1, Zenon DEF Writing, Planned, last
    <3>3. HasBlocks(f, w)'
      BY <1>0, <1>1, <1>16, <3>1, Zenon DEF HasBlocks
    <3>4. i_sectors'[f][0] # 0
      <4>1. 0 \in Index /\ 0 < Direct
        BY Consts, SMT, Z3 DEF Index
      <4>2. 0 < w
        <5>1. PICK t \in Nat : t = z + left[d]
          BY <1>5
        <5>2. w = t \div BLOCK_SIZE + 1 /\ t \div BLOCK_SIZE \in Nat
          BY <1>2, <3>1, <5>1, DivMod, Zenon DEF Writing, Planned
        <5>. QED  BY <5>2, SMT, Z3
      <4>3. block_of(f, 0) # 0
        BY <3>1, <4>1, <4>2, Zenon DEF HasBlocks
      <4>. QED  BY <1>1, <4>1, <4>3, Zenon DEF block_of
    <3>5. HasBlocks(f, last(f) + 1)'
      BY <3>2, <3>3 DEF HasBlocks
    <3>. QED  BY <3>4, <3>5, Zenon DEF Settled
  <2>. QED  BY <1>19, <2>2, <2>3, <2>4, <2>5, <2>6, Zenon
<1>21. CASE left[d] # n
  <2>1. /\ left' = [left EXCEPT ![d] = @ - n]
        /\ io_buf' = [io_buf EXCEPT ![d] = Blank]
        /\ pc' = [pc EXCEPT ![d] = "w_chunk"]
        /\ all_blocks' = all_blocks /\ block_idx' = block_idx /\ will_use' = will_use
    BY <1>21 DEF write_next, n, goes_on
  <2>2. Blank \in [Offset -> Byte] /\ "w_chunk" \in Point
    BY Zenon DEF Blank, Offset, Byte, Point
  <2>3. left \in [Fd -> Nat] /\ io_buf \in [Fd -> [Offset -> Byte]] /\ pc \in [Fd -> Point]
    BY <1>0, Zenon DEF Typed
  <2>4. /\ left' \in [Fd -> Nat] /\ left'[d] = left[d] - n /\ left'[d] # 0
        /\ io_buf' \in [Fd -> [Offset -> Byte]] /\ pc' \in [Fd -> Point] /\ pc'[d] = "w_chunk"
    <3>1. left[d] - n \in Nat /\ left[d] - n # 0
      BY <1>5, <1>9, <1>21, Small, Zenon
    <3>. QED  BY <1>0, <2>1, <2>2, <2>3, <3>1, Zenon
  <2>5. Typed'
    BY <1>0, <1>1, <1>13, <1>15, <2>1, <2>4, Zenon DEF Typed
  <2>6. OthersSame(d)
    BY <1>1, <1>15, <2>1, <2>3, Zenon DEF OthersSame, SameCall
  <2>7. last(f)' = last(f) + 1 /\ i_size'[f] % BLOCK_SIZE = 0
    <3>1. (z + n) \div BLOCK_SIZE = z \div BLOCK_SIZE + 1 /\ (z + n) % BLOCK_SIZE = 0
      BY <1>5, <1>8, <1>9, <1>21, ChunkFull, Zenon
    <3>. QED  BY <1>13, <3>1, Zenon DEF last
  <2>8. Writing(d)'
    <3>1. i_size'[f] + left'[d] = z + left[d]
      <4>1. (z + n) + (left[d] - n) = z + left[d]
        BY <1>5, <1>9, Small, Zenon
      <4>. QED  BY <1>13, <2>4, <4>1, Zenon
    <3>2. Planned(d)'
      BY <1>2, <2>1, <3>1, Zenon DEF Writing, Planned
    <3>3. HasBlocks(f, will_use[d])'
      BY <1>0, <1>1, <1>2, <1>16, <2>1, Zenon DEF Writing, HasBlocks
    <3>4. ASSUME NEW i \in last(f)' .. will_use[d] - 1
          PROVE  all_blocks[d][i] = block_of(f, i)'
      <4>1. last(f) \in Nat /\ will_use[d] \in Nat /\ will_use[d] <= MaxBlocks
        <5>1. last(f) \in Index
          BY <1>0, LastIn, Zenon
        <5>2. will_use[d] \in Nat
          BY <1>0, Zenon DEF Typed
        <5>. QED  BY <1>2, <5>1, <5>2, Indices, Zenon DEF Writing, Planned
      <4>2. i \in last(f) .. will_use[d] - 1 /\ i \in Index
        BY <2>7, <4>1, Indices, Zenon
      <4>. QED  BY <1>0, <1>2, <1>16, <4>2, Zenon DEF Writing
    <3>. QED  BY <2>1, <3>2, <3>3, <3>4, Zenon DEF Writing
  <2>9. Bytes(f, io_buf[d], 0, i_size[f] % BLOCK_SIZE)'
    <3>1. 0 .. (i_size'[f] % BLOCK_SIZE) - 1 = {}
      BY <2>7
    <3>. QED  BY <3>1, Zenon DEF Bytes
  <2>10. WriterOK(d)'
    BY <2>4, <2>8, <2>9, Zenon DEF WriterOK
  <2>. QED  BY <1>19, <2>4, <2>5, <2>6, <2>10, Zenon DEF InWrite
<1>. QED  BY <1>20, <1>21, SMT, Z3

=============================================================================
