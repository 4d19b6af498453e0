---------------------------- MODULE FileIOProofs ----------------------------
(***************************************************************************)
(* Proofs about module FileIO, for any number of files, descriptors and     *)
(* blocks and any size of a block, as long as positions and counts stay     *)
(* below the range of uint32_t.                                             *)
(***************************************************************************)
EXTENDS FileIOSteps, FiniteSetTheorems, TLAPS

(* Where bitmap_scan() finds a clear bit. *)
LEMMA MinIn ==
  ASSUME NEW S, S \subseteq Nat, S # {}
  PROVE  Min(S) \in S /\ \A x \in S : Min(S) <= x
<1>1. \E x \in S : \A y \in S : <<y, x>> \notin OpToRel(<, Nat)
  BY NatLessThanWellFounded, WFMin, Zenon
<1>2. PICK x \in S : \A y \in S : <<y, x>> \notin {ss \in Nat \X Nat : ss[1] < ss[2]}
  BY <1>1 DEF OpToRel
<1>3. \A y \in S : x <= y
  <2>. TAKE y \in S
  <2>1. ~(y < x)
    BY <1>2, Zenon
  <2>. QED  BY <2>1
<1>. QED  BY <1>3, Zenon DEF Min

LEMMA FreeBlock ==
  ASSUME used \subseteq Block, ~no_block
  PROVE  free_block \in Block \ used
<1>1. Block \ used \in SUBSET Nat
  BY Consts DEF Block
<1>2. Block \ used # {}
  BY DEF no_block
<1>. QED  BY <1>1, <1>2, MinIn, SMT, Z3 DEF free_block

-----------------------------------------------------------------------------
(* A step of a write that allocates: what is left to show once the file and  *)
(* the places are known.                                                    *)
LEMMA AllocStep ==
  ASSUME IInv, NEW d \in Writer, OthersSame(d), Typed', Exclusive', KeepsBlocks,
         i_size' = i_size, sector' = sector, fd_pos' = fd_pos, from' = from, buf' = buf,
         \A g \in File : g # file_of[d] => SameFile(g),
         pc'[d] \in InWrite, WriterOK(d)'
  PROVE  IInv'
<1>0. /\ Typed /\ Files /\ Writers /\ Data /\ ReadCorrect /\ Positions /\ d \in Fd
  BY Consts, Zenon DEF IInv
<1>1. Data'
  BY <1>0, DataSame, Zenon
<1>2. ReaderOK(d)'
  BY DEF ReaderOK, InWrite
<1>3. fd_pos'[d] <= i_size'[file_of[d]] \/ fd_pos'[d] = WORD - 1
  BY <1>0, Zenon DEF Positions
<1>4. \A i \in 1 .. Len(buf'[d]) : buf'[d][i] = ByteOf(file_of[d], from'[d] + i - 1)
  BY <1>0, Zenon DEF ReadCorrect
<1>5. Own(d)
  BY <1>2, <1>3, <1>4, Zenon DEF Own
<1>. QED  BY <1>0, <1>1, <1>5, Finish, Zenon

LEMMA SysWriteStep ==
  ASSUME Counted, IInv, NEW d \in Fd, NEW count \in WriteCount, sys_write(d, count)
  PROVE  IInv'
<1>. DEFINE f == file_of[d]
<1>1. CASE UNCHANGED vars
  BY <1>1, Unchanged DEF vars
<1>2. CASE fails("full")
  BY <1>2, Unchanged, SMT, Z3 DEF fails
<1>3. CASE /\ d \in Writer /\ ~(i_sectors[f][0] = 0 /\ no_block)
           /\ IF i_sectors[f][0] = 0
                THEN /\ i_sectors' = [i_sectors EXCEPT ![f][0] = free_block]
                     /\ used' = used \cup {free_block}
                ELSE UNCHANGED <<i_sectors, used>>
           /\ pc' = [pc EXCEPT ![d] = "w_plan"]
           /\ all_blocks' = [all_blocks EXCEPT ![d] = NoBlocks]
           /\ left' = [left EXCEPT ![d] = count]
           /\ UNCHANGED <<i_size, fd_pos, diskVars, block_idx, will_use, io_buf,
                          readVars, panic>>
  <2>0. /\ Typed /\ Files /\ Writers /\ Exclusive /\ f \in File /\ pc[d] = "idle"
    BY Consts DEF IInv, sys_write, At
  <2>1. /\ i_size' = i_size /\ fd_pos' = fd_pos /\ sector' = sector /\ table' = table
        /\ block_idx' = block_idx /\ will_use' = will_use /\ io_buf' = io_buf
        /\ from' = from /\ buf' = buf
    BY <1>3, SMT, Z3 DEF diskVars, readVars
  <2>2. Settled(f)
    BY <1>3, <2>0, RestingWriter, SMT, Z3 DEF InWrite
  <2>3. count \in Nat /\ i_size[f] + count < WORD
    <3>1. count \in Nat /\ Limit + count < WORD /\ Limit \in Nat /\ WORD \in Nat
      BY Consts DEF Counted, Limit
    <3>2. i_size[f] \in Nat /\ i_size[f] < Limit
      BY <2>0, LastIn, SMT, Z3
    <3>. QED  BY <3>1, <3>2, SMT, Z3
  <2>4. /\ pc \in [Fd -> Point] /\ all_blocks \in [Fd -> [Index -> Addr]] /\ left \in [Fd -> Nat]
        /\ i_sectors \in [File -> [0 .. Direct -> Addr]] /\ used \subseteq Block
    BY <2>0 DEF Typed
  <2>5. NoBlocks \in [Index -> Addr] /\ "w_plan" \in Point
    BY DEF NoBlocks, Index, Addr, Point
  <2>6. /\ pc' \in [Fd -> Point] /\ all_blocks' \in [Fd -> [Index -> Addr]] /\ left' \in [Fd -> Nat]
        /\ pc'[d] = "w_plan" /\ left'[d] = count
    BY <1>3, <2>3, <2>4, <2>5, Zenon
  <2>7. OthersSame(d)
    BY <1>3, <2>1, <2>4, Zenon DEF OthersSame, SameCall
  <2>8. 0 \in Index /\ 0 \in 0 .. Direct /\ 0 \in 0 .. MaxBlocks /\ 0 < Direct /\ Direct \in 0 .. Direct
        /\ Table = Direct /\ Table # 0 /\ MaxBlocks # 0
    BY Consts DEF Index
  <2>9. last(f)' = last(f)
    BY <2>1 DEF last
  <2>10. CASE i_sectors[f][0] # 0
    <3>1. i_sectors' = i_sectors /\ used' = used
      BY <1>3, <2>10, SMT, Z3
    <3>2. Typed'
      BY <2>0, <2>1, <2>6, <3>1, Zenon DEF Typed
    <3>3. KeepsBlocks /\ \A g \in File : SameFile(g)
      BY <2>0, <2>1, <3>1, InodesSame, SMT, Z3
    <3>4. HasBlocks(f, last(f) + 1)
      BY <2>2, <2>8, <2>10, Zenon DEF Settled
    <3>5. HasBlocks(f, last(f) + 1)'
      BY <2>0, <2>9, <3>3, <3>4, Zenon DEF HasBlocks, SameFile
    <3>6. WriterOK(d)'
      BY <2>1, <2>3, <2>6, <2>10, <3>1, <3>5, Zenon DEF WriterOK
    <3>7. Exclusive'
      <4>1. ASSUME NEW i \in 0 .. MaxBlocks  PROVE own(d, i)' = own(d, i)
        BY <2>0, <2>1, <2>6, <3>1, Zenon DEF own, block_of
      <4>2. \A g \in File : \A i \in 0 .. MaxBlocks : SamePlace(g, i)
        BY <2>7, <3>3, <4>1, PlacesSame, SMT, Z3
      <4>. QED  BY <2>0, <2>1, <3>1, <4>2, ExclusiveSame, Zenon
    <3>8. pc'[d] \in InWrite
      BY <2>6 DEF InWrite
    <3>. QED  BY <1>3, <2>1, <2>7, <3>2, <3>3, <3>6, <3>7, <3>8, AllocStep, Zenon
  <2>11. CASE i_sectors[f][0] = 0
    <3>1. PICK b \in Block \ used : b = free_block
      BY <1>3, <2>4, <2>11, FreeBlock, SMT, Z3
    <3>2. i_sectors' = [i_sectors EXCEPT ![f][0] = b] /\ used' = used \cup {b}
      BY <1>3, <2>11, <3>1, SMT, Z3
    <3>3. b # 0 /\ b \in Addr
      BY Consts DEF Block, Addr
    <3>4. /\ i_sectors' \in [File -> [0 .. Direct -> Addr]] /\ used' \subseteq Block
          /\ i_sectors'[f][0] = b /\ \A i \in 0 .. Direct : i # 0 => i_sectors'[f][i] = i_sectors[f][i]
          /\ \A g \in File : g # f => i_sectors'[g] = i_sectors[g]
      BY <2>0, <2>4, <2>8, <3>2, <3>3, Zenon
    <3>5. Typed'
      BY <2>0, <2>1, <2>6, <3>4, Zenon DEF Typed
    <3>6. i_size[f] = 0 /\ \A i \in 0 .. Direct : i_sectors[f][i] = 0
      BY <2>2, <2>11, Zenon DEF Settled
    <3>7. \A g \in File : g # f => \A i \in Index : block_of(g, i)' = block_of(g, i)
      BY <2>1, <3>4, Zenon DEF block_of
    <3>8. \A g \in File : g # f => SameFile(g)
      BY <2>1, <3>4, <3>7, Zenon DEF SameFile
    <3>9. ASSUME NEW i \in Index
          PROVE  block_of(f, i) = 0 /\ block_of(f, i)' = IF i = 0 THEN b ELSE 0
      <4>1. i_sectors[f][Table] = 0 /\ i_sectors'[f][Table] = 0
        BY <2>8, <3>4, <3>6, Zenon
      <4>2. i < Direct => i \in 0 .. Direct
        BY Consts DEF Index
      <4>. QED  BY <2>8, <3>4, <3>6, <4>1, <4>2, Zenon DEF block_of
    <3>10. KeepsBlocks
      <4>1. \A g \in File : i_size[g] <= i_size'[g]
        BY <2>0, <2>1, LastIn, SMT, Z3
      <4>. QED  BY <3>7, <3>9, <4>1, Zenon DEF KeepsBlocks
    <3>11. WriterOK(d)'
      <4>1. last(f) = 0
        <5>1. 0 = BLOCK_SIZE * 0 + 0 /\ 0 \in Offset /\ 0 \in Nat
          BY Consts DEF Offset
        <5>2. 0 \div BLOCK_SIZE = 0
          BY <5>1, DivUnique, SMT, Z3
        <5>. QED  BY <3>6, <5>2, Zenon DEF last
      <4>2. HasBlocks(f, last(f) + 1)'
        <5>1. \A i \in Index : block_of(f, i)' # 0 <=> i < 1
          <6>. TAKE i \in Index
          <6>1. i \in Nat
            BY Consts DEF Index
          <6>. QED  BY <3>3, <3>9, <6>1, SMT, Z3
        <5>2. i_sectors'[f][Table] = 0 /\ ~(1 > Direct)
          BY <2>8, <3>4, <3>6, Consts, SMT, Z3
        <5>3. last(f)' + 1 = 1
          BY <2>9, <4>1, SMT, Z3
        <5>. QED  BY <5>1, <5>2, <5>3, ZenonT(30) DEF HasBlocks
      <4>. QED  BY <2>1, <2>3, <2>6, <3>3, <3>4, <4>2, Zenon DEF WriterOK
    <3>12. Exclusive'
      <4>1. place(f, 0) = 0
        BY <1>3, <2>0, <2>8, <3>9, PlaceOwn, Zenon DEF own
      <4>2. place(f, 0)' = b
        BY <1>3, <2>6, <2>8, <3>9, PlaceOwn, Zenon DEF own
      <4>3. ASSUME NEW j \in 0 .. MaxBlocks, j # 0  PROVE own(d, j)' = own(d, j)
        <5>1. CASE j = MaxBlocks
          BY <2>8, <3>4, <5>1, Zenon DEF own
        <5>2. CASE j # MaxBlocks
          <6>1. j \in Index
            BY <5>2, Consts, SMT, Z3 DEF Index
          <6>. QED  BY <2>0, <2>6, <3>9, <4>3, <5>2, <6>1, Zenon DEF own
        <5>. QED  BY <5>1, <5>2, SMT, Z3
      <4>4. ASSUME NEW g \in File, NEW j \in 0 .. MaxBlocks, g # f \/ j # 0
            PROVE  SamePlace(g, j)
        <5>1. CASE g # f
          BY <2>7, <3>8, <5>1, PlaceOther, Zenon DEF SamePlace
        <5>2. CASE g = f
          BY <1>3, <4>3, <4>4, <5>2, PlaceOwn, Zenon DEF SamePlace
        <5>. QED  BY <5>1, <5>2, SMT, Z3
      <4>. QED  BY <2>0, <2>1, <2>8, <3>2, <4>1, <4>2, <4>4, ExclusiveFresh, SMT, Z3
    <3>13. pc'[d] \in InWrite
      BY <2>6 DEF InWrite
    <3>. QED  BY <1>3, <2>1, <2>7, <3>5, <3>8, <3>10, <3>11, <3>12, <3>13, AllocStep, Zenon
  <2>. QED  BY <2>10, <2>11, SMT, Z3
<1>. QED  BY <1>1, <1>2, <1>3, Zenon DEF sys_write, waits, goes_on

(* What plan() collects of the table is what the table holds. *)
LEMMA Collected ==
  ASSUME Typed, NEW d \in Writer, HasBlocks(file_of[d], last(file_of[d]) + 1)
  PROVE  LET f == file_of[d] IN
         /\ collected(d) \in [Index -> Addr]
         /\ \A i \in Direct .. MaxBlocks - 1 : i \in Index /\ collected(d)[i] = block_of(f, i)
         /\ last(f) < Direct => collected(d)[last(f)] = i_sectors[f][last(f)]
<1>. DEFINE f == file_of[d]
            c == collected(d)
<1>0. f \in File /\ last(f) \in Index /\ last(f) \in Nat /\ has_used_blocks(f) = last(f) + 1
  BY Consts, LastIn DEF has_used_blocks, last, Index
<1>1. c = [i \in Index |->
             IF last(f) + 1 <= Direct
               THEN IF i = last(f) THEN i_sectors[f][i] ELSE 0
               ELSE IF i >= Direct THEN table[i_sectors[f][Table]][i] ELSE 0]
  <2>1. (last(f) + 1) - 1 = last(f)
    BY <1>0
  <2>. QED  BY <1>0, <2>1, Zenon DEF collected, Index
<1>. HIDE DEF c
<1>2. i_sectors[f] \in [0 .. Direct -> Addr] /\ 0 \in Addr /\ Direct \in Nat /\ MaxBlocks \in Nat
  BY <1>0, Consts, Zenon DEF Typed, Addr
<1>3. i_sectors[f][Table] # 0 <=> last(f) + 1 > Direct
  BY DEF HasBlocks
<1>4. CASE last(f) + 1 <= Direct
  <2>1. i_sectors[f][Table] = 0 /\ last(f) < Direct /\ last(f) \in 0 .. Direct
    BY <1>0, <1>2, <1>3, <1>4, SMT, Z3
  <2>2. c = [i \in Index |-> IF i = last(f) THEN i_sectors[f][i] ELSE 0]
    BY <1>1, <1>4, SMT, Z3
  <2>3. c \in [Index -> Addr]
    BY <1>2, <2>1, <2>2, SMT, Z3
  <2>4. ASSUME NEW i \in Direct .. MaxBlocks - 1
        PROVE  i \in Index /\ c[i] = block_of(f, i)
    <3>1. i \in Index /\ i # last(f) /\ ~(i < Direct)
      BY <1>2, <2>1, SMT, Z3 DEF Index
    <3>. QED  BY <2>1, <2>2, <3>1, SMT, Z3 DEF block_of
  <2>5. c[last(f)] = i_sectors[f][last(f)]
    BY <1>0, <2>2, SMT, Z3
  <2>. QED  BY <2>3, <2>4, <2>5, Zenon DEF c
<1>5. CASE ~(last(f) + 1 <= Direct)
  <2>1. i_sectors[f][Table] # 0 /\ ~(last(f) < Direct) /\ Table \in 0 .. Direct
    BY <1>0, <1>2, <1>3, <1>5, Consts, SMT, Z3
  <2>2. c = [i \in Index |-> IF i >= Direct THEN table[i_sectors[f][Table]][i] ELSE 0]
    BY <1>1, <1>5, Zenon
  <2>3. table[i_sectors[f][Table]] \in [Direct .. MaxBlocks - 1 -> Addr]
    <3>1. i_sectors[f][Table] \in Block
      BY <1>2, <2>1, Zenon DEF Addr
    <3>. QED  BY <3>1 DEF Typed
  <2>4. c \in [Index -> Addr]
    <3>. SUFFICES ASSUME NEW i \in Index
                  PROVE  c[i] \in Addr
      BY <2>2, SMT, Z3
    <3>1. i >= Direct => i \in Direct .. MaxBlocks - 1
      BY <1>2, SMT, Z3 DEF Index
    <3>. QED  BY <1>2, <2>2, <2>3, <3>1, Zenon
  <2>5. ASSUME NEW i \in Direct .. MaxBlocks - 1
        PROVE  i \in Index /\ c[i] = block_of(f, i)
    <3>1. i \in Index /\ i >= Direct /\ ~(i < Direct)
      BY <1>2 DEF Index
    <3>. QED  BY <2>1, <2>2, <3>1, SMT, Z3 DEF block_of
  <2>. QED  BY <2>1, <2>4, <2>5, SMT, Z3 DEF c
<1>. QED  BY <1>4, <1>5, Zenon

LEMMA PlanStep ==
  ASSUME IInv, NEW d \in Writer, plan(d)
  PROVE  IInv'
<1>. DEFINE f    == file_of[d]
            has  == has_used_blocks(f)
            will == will_use_blocks(f, left[d])
            new_table == has <= Direct /\ will > Direct
<1>1. CASE \E why : fails(why)
  BY <1>1, Unchanged, SMT, Z3 DEF fails
<1>2. CASE /\ ~(will > MaxBlocks) /\ ~(new_table /\ no_block)
           /\ all_blocks' = [all_blocks EXCEPT ![d] = collected(d)]
           /\ block_idx' = [block_idx EXCEPT ![d] = has]
           /\ will_use' = [will_use EXCEPT ![d] = will]
           /\ i_sectors' = IF new_table THEN [i_sectors EXCEPT ![f][Table] = free_block]
                           ELSE i_sectors
           /\ used' = IF new_table THEN used \cup {free_block} ELSE used
           /\ pc' = [pc EXCEPT ![d] = "w_alloc"]
           /\ UNCHANGED <<i_size, fd_pos, diskVars, left, io_buf, readVars, panic>>
  <2>0. /\ Typed /\ Files /\ Writers /\ Exclusive /\ f \in File /\ d \in Fd /\ pc[d] = "w_plan"
    BY Consts, Zenon DEF IInv, plan, At
  <2>1. /\ i_size' = i_size /\ fd_pos' = fd_pos /\ sector' = sector /\ table' = table
        /\ left' = left /\ io_buf' = io_buf /\ from' = from /\ buf' = buf
    BY <1>2 DEF diskVars, readVars
  <2>2. i_sectors[f][0] # 0 /\ HasBlocks(f, last(f) + 1) /\ i_size[f] + left[d] < WORD
    BY <2>0, Zenon DEF Writers, WriterOK
  <2>3. last(f) \in Index /\ last(f) \in Nat /\ has = last(f) + 1 /\ has \in Nat
    BY <2>0, LastIn, Consts, SMT, Z3 DEF has_used_blocks, last, Index
  <2>4. will = (i_size[f] + left[d]) \div BLOCK_SIZE + 1 /\ will \in Nat /\ last(f) < will
    <3>1. i_size[f] \in Nat /\ left[d] \in Nat
      BY <2>0, LastIn, Zenon DEF Typed
    <3>2. PICK z \in Nat : z = i_size[f]
      BY <3>1, Zenon
    <3>3. PICK t \in Nat : t = i_size[f] + left[d] /\ z <= t
      BY <3>1, <3>2
    <3>4. t % WORD = t
      BY <2>2, <3>3, ModSmall, Zenon
    <3>5. z \div BLOCK_SIZE <= t \div BLOCK_SIZE /\ z \div BLOCK_SIZE \in Nat /\ t \div BLOCK_SIZE \in Nat
      BY <3>3, DivMono, DivMod, Zenon
    <3>6. will = t \div BLOCK_SIZE + 1
      BY <3>3, <3>4, SMT, Z3 DEF will_use_blocks
    <3>7. last(f) = z \div BLOCK_SIZE
      BY <3>2 DEF last
    <3>. HIDE DEF will
    <3>. QED  BY <3>3, <3>5, <3>6, <3>7, SMT, Z3
  <2>. HIDE DEF will, has
  <2>5. /\ collected(d) \in [Index -> Addr]
        /\ \A i \in Direct .. MaxBlocks - 1 : i \in Index /\ collected(d)[i] = block_of(f, i)
        /\ last(f) < Direct => collected(d)[last(f)] = i_sectors[f][last(f)]
    BY <2>0, <2>2, Collected, Zenon
  <2>6. /\ pc \in [Fd -> Point] /\ all_blocks \in [Fd -> [Index -> Addr]] /\ block_idx \in [Fd -> Nat]
        /\ will_use \in [Fd -> Nat]
        /\ i_sectors \in [File -> [0 .. Direct -> Addr]] /\ used \subseteq Block
    BY <2>0 DEF Typed
  <2>7. "w_alloc" \in Point
    BY DEF Point
  <2>8. /\ pc' \in [Fd -> Point] /\ all_blocks' \in [Fd -> [Index -> Addr]]
        /\ block_idx' \in [Fd -> Nat] /\ will_use' \in [Fd -> Nat]
        /\ pc'[d] = "w_alloc" /\ all_blocks'[d] = collected(d) /\ block_idx'[d] = has /\ will_use'[d] = will
    BY <1>2, <2>0, <2>3, <2>4, <2>5, <2>6, <2>7, Zenon
  <2>9. OthersSame(d)
    BY <1>2, <2>1, <2>6, Zenon DEF OthersSame, SameCall
  <2>10. last(f)' = last(f)
    BY <2>1, Zenon DEF last
  <2>11. /\ Direct \in Nat /\ Direct # 0 /\ MaxBlocks \in Nat /\ Direct < MaxBlocks /\ Table = Direct
         /\ Table \in 0 .. Direct /\ MaxBlocks \in 0 .. MaxBlocks /\ \A i \in Index : i \in Nat /\ i < MaxBlocks
    BY Consts, SMT, Z3 DEF Index
  <2>12. i_sectors[f][Table] # 0 <=> has > Direct
    BY <2>2, <2>3, SMT, Z3 DEF HasBlocks
  <2>13. PICK b \in Block \cup {0} :
           /\ new_table => b = free_block /\ b \in Block \ used
           /\ ~new_table => b = i_sectors[f][Table]
    <3>1. CASE new_table
      BY <1>2, <2>6, <3>1, FreeBlock, Zenon
    <3>2. CASE ~new_table
      <4>1. i_sectors[f][Table] \in Block \cup {0}
        BY <2>0, <2>6, <2>11, SMT, Z3 DEF Addr
      <4>. QED  BY <3>2, <4>1, SMT, Z3
    <3>. QED  BY <3>1, <3>2, SMT, Z3
  <2>14. /\ i_sectors' \in [File -> [0 .. Direct -> Addr]] /\ used' \subseteq Block
         /\ i_sectors'[f][Table] = b /\ \A i \in 0 .. Direct : i # Table => i_sectors'[f][i] = i_sectors[f][i]
         /\ \A g \in File : g # f => i_sectors'[g] = i_sectors[g]
    <3>1. b \in Addr
      BY <2>13, Zenon DEF Addr
    <3>2. CASE new_table
      <4>1. i_sectors' = [i_sectors EXCEPT ![f][Table] = b] /\ used' = used \cup {b} /\ b \in Block
        BY <1>2, <2>13, <3>2, SMT, Z3
      <4>. QED  BY <2>0, <2>6, <2>11, <3>1, <4>1, Zenon
    <3>3. CASE ~new_table
      <4>1. i_sectors' = i_sectors /\ used' = used
        BY <1>2, <3>3, SMT, Z3
      <4>. QED  BY <2>6, <2>13, <3>3, <4>1, Zenon
    <3>. QED  BY <3>2, <3>3, Zenon
  <2>15. Typed'
    BY <2>0, <2>1, <2>8, <2>14, Zenon DEF Typed
  <2>16. b # 0 <=> will > Direct
    <3>1. new_table => b # 0
      BY <2>13, Consts, SMT, Z3 DEF Block
    <3>2. CASE has > Direct
      <4>1. will > Direct /\ ~new_table
        BY <2>3, <2>4, <2>11, <3>2, SMT, Z3
      <4>. QED  BY <2>12, <2>13, <3>2, <4>1, Zenon
    <3>3. CASE ~(has > Direct)
      <4>1. has <= Direct
        BY <2>3, <2>11, <3>3, SMT, Z3
      <4>. QED  BY <2>12, <2>13, <3>1, <3>3, <4>1, Zenon
    <3>. QED  BY <3>2, <3>3, SMT, Z3
  <2>17. ASSUME NEW i \in Index  PROVE block_of(f, i)' = block_of(f, i)
    <3>1. CASE i < Direct
      <4>1. i \in 0 .. Direct /\ i # Table
        BY <2>11, <3>1, SMT, Z3
      <4>. QED  BY <2>14, <3>1, <4>1, Zenon DEF block_of
    <3>2. CASE ~(i < Direct) /\ ~new_table
      <4>1. i_sectors'[f][Table] = i_sectors[f][Table]
        BY <2>13, <2>14, <3>2, Zenon
      <4>. QED  BY <2>1, <3>2, <4>1, Zenon DEF block_of
    <3>3. CASE ~(i < Direct) /\ new_table
      <4>1. i_sectors[f][Table] = 0
        BY <2>3, <2>11, <2>12, <3>3, SMT, Z3
      <4>2. i \in Direct .. MaxBlocks - 1
        BY <2>11, <3>3, SMT, Z3
      <4>3. table[b][i] = 0
        BY <2>0, <2>13, <3>3, <4>2, Zenon DEF Exclusive
      <4>. QED  BY <2>1, <2>14, <3>3, <4>1, <4>3, Zenon DEF block_of
    <3>. QED  BY <3>1, <3>2, <3>3, SMT, Z3
  <2>18. \A g \in File : g # f => SameFile(g)
    <3>1. \A g \in File : g # f => \A i \in Index : block_of(g, i)' = block_of(g, i)
      BY <2>1, <2>14, Zenon DEF block_of
    <3>. QED  BY <2>1, <2>14, <3>1, Zenon DEF SameFile
  <2>19. KeepsBlocks
    <3>1. \A g \in File : i_size[g] <= i_size'[g]
      BY <2>0, <2>1, LastIn, SMT, Z3
    <3>2. \A g \in File : \A i \in Index : block_of(g, i)' = block_of(g, i)
      BY <2>17, <2>18, SMT, Z3 DEF SameFile
    <3>. QED  BY <3>1, <3>2, Zenon DEF KeepsBlocks
  <2>20. Allocating(d)'
    <3>1. Planned(d)'
      <4>1. will_use'[d] = (i_size'[f] + left'[d]) \div BLOCK_SIZE + 1
        BY <2>1, <2>4, <2>8, Zenon
      <4>2. will_use'[d] <= MaxBlocks
        BY <1>2, <2>4, <2>8, <2>11, SMT, Z3
      <4>. QED  BY <4>1, <4>2, Zenon DEF Planned
    <3>2. last(f)' + 1 <= block_idx'[d] /\ block_idx'[d] <= will_use'[d]
      <4>1. has <= will /\ last(f) + 1 <= has
        <5>1. has = last(f) + 1 /\ last(f) \in Nat /\ will \in Nat /\ last(f) < will
          BY <2>3, <2>4, SMT, Z3
        <5>. QED  BY <5>1, SMT, Z3
      <4>. QED  BY <2>8, <2>10, <4>1, SMT, Z3
    <3>3. i_sectors'[f][Table] # 0 <=> will_use'[d] > Direct
      BY <2>8, <2>14, <2>16, Zenon
    <3>4. ASSUME NEW i \in 0 .. Direct - 1
          PROVE  /\ i_sectors'[f][i] # 0 <=> i < block_idx'[d]
                 /\ last(f)' <= i /\ i < block_idx'[d] => all_blocks'[d][i] = i_sectors'[f][i]
      <4>1. i \in Index /\ i \in 0 .. Direct /\ i # Table /\ i < Direct
        BY <2>11 DEF Index
      <4>2. i_sectors'[f][i] = i_sectors[f][i] /\ block_of(f, i) = i_sectors[f][i]
        BY <2>14, <4>1, Zenon DEF block_of
      <4>3. i_sectors[f][i] # 0 <=> i < has
        BY <2>2, <2>3, <4>1, <4>2, Zenon DEF HasBlocks
      <4>4. ASSUME last(f)' <= i, i < block_idx'[d]
            PROVE  all_blocks'[d][i] = i_sectors'[f][i]
        <5>1. i = last(f) /\ last(f) < Direct
          BY <2>3, <2>8, <2>10, <2>11, <4>1, <4>4, SMT, Z3
        <5>. QED  BY <2>5, <2>8, <4>2, <5>1, Zenon
      <4>. QED  BY <2>8, <4>2, <4>3, <4>4, Zenon
    <3>5. ASSUME NEW i \in Direct .. MaxBlocks - 1
          PROVE  /\ all_blocks'[d][i] # 0 <=> i < block_idx'[d]
                 /\ block_of(f, i)' = IF i <= last(f)' THEN all_blocks'[d][i] ELSE 0
      <4>1. i \in Index /\ all_blocks'[d][i] = block_of(f, i)
        BY <2>5, <2>8, Zenon
      <4>2. block_of(f, i) # 0 <=> i < has
        BY <2>2, <2>3, <4>1, ZenonT(30) DEF HasBlocks
      <4>3. i < has <=> i <= last(f)
        BY <2>3, <2>11, <4>1, SMT, Z3
      <4>. QED  BY <2>8, <2>10, <2>17, <4>1, <4>2, <4>3, ZenonT(30)
    <3>. QED  BY <3>1, <3>2, <3>3, <3>4, <3>5, Zenon DEF Allocating
  <2>21. WriterOK(d)'
    BY <2>8, <2>20, Zenon DEF WriterOK
  <2>22. ASSUME NEW i \in Index  PROVE own(d, i)' = own(d, i)
    <3>1. CASE i < Direct
      BY <2>0, <2>11, <2>17, <3>1, SMT, Z3 DEF own
    <3>2. CASE ~(i < Direct)
      <4>1. i \in Direct .. MaxBlocks - 1 /\ i >= Direct /\ i # MaxBlocks
        BY <2>11, <3>2, SMT, Z3
      <4>2. own(d, i) = block_of(f, i)
        BY <2>0, <4>1, Zenon DEF own
      <4>3. own(d, i)' = all_blocks'[d][i]
        BY <2>8, <4>1, Zenon DEF own
      <4>. QED  BY <2>5, <2>8, <4>1, <4>2, <4>3, Zenon
    <3>. QED  BY <3>1, <3>2, Zenon
  <2>23. own(d, MaxBlocks) = i_sectors[f][Table] /\ own(d, MaxBlocks)' = b
    BY <2>14, Zenon DEF own
  <2>24. \A i \in 0 .. MaxBlocks : i = MaxBlocks \/ i \in Index
    BY <2>11 DEF Index
  <2>25. Exclusive'
    <3>1. CASE ~new_table
      <4>1. used' = used /\ \A i \in 0 .. MaxBlocks : own(d, i)' = own(d, i)
        BY <1>2, <2>13, <2>22, <2>23, <2>24, <3>1, Zenon
      <4>2. \A g \in File : \A i \in 0 .. MaxBlocks : SamePlace(g, i)
        BY <2>0, <2>9, <2>18, <4>1, PlacesSame, Zenon
      <4>. QED  BY <2>0, <2>1, <4>1, <4>2, ExclusiveSame, Zenon
    <3>2. CASE new_table
      <4>1. b \in Block \ used /\ used' = used \cup {b}
        BY <1>2, <2>13, <3>2, SMT, Z3
      <4>2. place(f, MaxBlocks) = 0
        <5>1. i_sectors[f][Table] = 0
          BY <2>3, <2>11, <2>12, <3>2, SMT, Z3
        <5>. QED  BY <2>23, <5>1, PlaceOwn, Zenon
      <4>3. place(f, MaxBlocks)' = b
        BY <2>23, PlaceOwn, Zenon
      <4>4. ASSUME NEW g \in File, NEW j \in 0 .. MaxBlocks, g # f \/ j # MaxBlocks
            PROVE  SamePlace(g, j)
        <5>1. CASE g # f
          BY <2>0, <2>9, <2>18, <5>1, PlaceOther, Zenon DEF SamePlace
        <5>2. CASE g = f
          BY <2>22, <2>24, <4>4, <5>2, PlaceOwn, Zenon DEF SamePlace
        <5>. QED  BY <5>1, <5>2, SMT, Z3
      <4>. QED  BY <2>0, <2>1, <2>11, <4>1, <4>2, <4>3, <4>4, ExclusiveFresh, SMT, Z3
    <3>. QED  BY <3>1, <3>2, SMT, Z3
  <2>26. pc'[d] \in InWrite
    BY <2>8 DEF InWrite
  <2>. QED  BY <2>1, <2>9, <2>15, <2>18, <2>19, <2>21, <2>25, <2>26, AllocStep, Zenon
<1>. QED
  <2>. HIDE DEF will, has
  <2>. QED  BY <1>1, <1>2, Zenon DEF plan, waits, goes_on, will, has

LEMMA AllocOneStep ==
  ASSUME IInv, NEW d \in Writer, alloc(d)
  PROVE  IInv'
<1>. DEFINE f == file_of[d]
            i == block_idx[d]
<1>1. CASE \E why : fails(why)
  BY <1>1, Unchanged DEF fails
<1>2. CASE /\ ~no_block
           /\ used' = used \cup {free_block}
           /\ i_sectors' = IF i < Direct THEN [i_sectors EXCEPT ![f][i] = free_block]
                           ELSE i_sectors
           /\ all_blocks' = [all_blocks EXCEPT ![d][i] = free_block]
           /\ block_idx' = [block_idx EXCEPT ![d] = i + 1]
           /\ waits(d, "w_alloc")
           /\ UNCHANGED <<i_size, fd_pos, diskVars, will_use, left, io_buf, readVars, panic>>
  <2>0. /\ Typed /\ Files /\ Writers /\ Exclusive /\ f \in File /\ d \in Fd
        /\ pc[d] = "w_alloc" /\ i < will_use[d]
    BY Consts, SMT, Z3 DEF IInv, alloc, At
  <2>1. /\ i_size' = i_size /\ fd_pos' = fd_pos /\ sector' = sector /\ table' = table
        /\ will_use' = will_use /\ left' = left /\ io_buf' = io_buf /\ from' = from /\ buf' = buf
    BY <1>2 DEF diskVars, readVars
  <2>2. Allocating(d)
    BY <2>0, Zenon DEF Writers, WriterOK
  <2>3. /\ pc \in [Fd -> Point] /\ all_blocks \in [Fd -> [Index -> Addr]] /\ block_idx \in [Fd -> Nat]
        /\ will_use \in [Fd -> Nat]
        /\ i_sectors \in [File -> [0 .. Direct -> Addr]] /\ used \subseteq Block
    BY <2>0 DEF Typed
  <2>4. /\ Direct \in Nat /\ Direct # 0 /\ MaxBlocks \in Nat /\ Direct < MaxBlocks /\ Table = Direct
        /\ Table \in 0 .. Direct /\ \A j \in Index : j \in Nat /\ j < MaxBlocks
    BY Consts, SMT, Z3 DEF Index
  <2>5. last(f) \in Nat /\ last(f) < i
    <3>1. last(f) \in Index
      BY <2>0, LastIn, SMT, Z3
    <3>2. last(f) + 1 <= i /\ last(f) \in Nat /\ i \in Nat
      BY <2>0, <2>2, <2>3, <2>4, <3>1, Zenon DEF Allocating
    <3>. QED  BY <3>2
  <2>6. i \in Nat /\ will_use[d] \in Nat /\ will_use[d] <= MaxBlocks /\ i \in Index
    <3>1. i \in Nat /\ will_use[d] \in Nat /\ will_use[d] <= MaxBlocks
      BY <2>0, <2>2, <2>3, Zenon DEF Allocating, Planned
    <3>. QED  BY <2>0, <2>4, <3>1, SMT, Z3 DEF Index
  <2>7. PICK b \in Block \ used : b = free_block
    BY <1>2, <2>3, FreeBlock, SMT, Z3
  <2>8. b # 0 /\ b \in Addr /\ b \in Block
    BY Consts DEF Block, Addr
  <2>9. /\ used' = used \cup {b} /\ used' \subseteq Block
        /\ all_blocks' = [all_blocks EXCEPT ![d][i] = b]
        /\ pc' = [pc EXCEPT ![d] = "w_alloc"]
        /\ i_sectors' = IF i < Direct THEN [i_sectors EXCEPT ![f][i] = b] ELSE i_sectors
    BY <1>2, <2>3, <2>7, Zenon DEF waits
  <2>10. /\ all_blocks' \in [Fd -> [Index -> Addr]] /\ all_blocks'[d][i] = b
         /\ \A j \in Index : j # i => all_blocks'[d][j] = all_blocks[d][j]
         /\ \A e \in Fd \ {d} : all_blocks'[e] = all_blocks[e]
    BY <2>0, <2>3, <2>6, <2>8, <2>9, Zenon
  <2>11. /\ pc' \in [Fd -> Point] /\ pc'[d] = "w_alloc" /\ block_idx' \in [Fd -> Nat]
         /\ block_idx'[d] = i + 1 /\ \A e \in Fd \ {d} : pc'[e] = pc[e] /\ block_idx'[e] = block_idx[e]
    BY <1>2, <2>0, <2>3, <2>6, <2>9, SMT, Z3 DEF Point
  <2>12. /\ i_sectors' \in [File -> [0 .. Direct -> Addr]]
         /\ \A j \in 0 .. Direct : i_sectors'[f][j] = IF j = i /\ i < Direct THEN b ELSE i_sectors[f][j]
         /\ \A g \in File : g # f => i_sectors'[g] = i_sectors[g]
    <3>1. CASE i < Direct
      <4>1. i \in 0 .. Direct /\ i_sectors' = [i_sectors EXCEPT ![f][i] = b]
        BY <2>4, <2>6, <2>9, <3>1, SMT, Z3
      <4>. QED  BY <2>0, <2>3, <2>8, <3>1, <4>1, Zenon
    <3>2. CASE ~(i < Direct)
      BY <2>3, <2>9, <3>2, SMT, Z3
    <3>. QED  BY <3>1, <3>2, Zenon
  <2>13. Typed'
    BY <2>0, <2>1, <2>9, <2>10, <2>11, <2>12, Zenon DEF Typed
  <2>14. OthersSame(d)
    BY <2>1, <2>10, <2>11, Zenon DEF OthersSame, SameCall
  <2>15. last(f)' = last(f)
    BY <2>1, Zenon DEF last
  <2>16. i_sectors'[f][Table] = i_sectors[f][Table]
    BY <2>4, <2>6, <2>12, SMT, Z3
  <2>17. ASSUME NEW j \in Index
         PROVE  block_of(f, j)' = IF j = i /\ i < Direct THEN b ELSE block_of(f, j)
    <3>1. CASE j < Direct
      <4>1. j \in 0 .. Direct
        BY <2>4, <3>1, SMT, Z3
      <4>. QED  BY <2>12, <3>1, <4>1, Zenon DEF block_of
    <3>2. CASE ~(j < Direct)
      BY <2>1, <2>16, <3>2, Zenon DEF block_of
    <3>. QED  BY <3>1, <3>2, SMT, Z3
  <2>18. i < Direct => block_of(f, i) = 0
    <3>. HAVE i < Direct
    <3>1. i \in 0 .. Direct - 1
      BY <2>4, <2>6, SMT, Z3
    <3>2. i_sectors[f][i] = 0
      <4>1. i_sectors[f][i] # 0 <=> i < i
        BY <2>2, <3>1, Zenon DEF Allocating
      <4>. QED  BY <2>6, <4>1, SMT, Z3
    <3>. QED  BY <3>2, Zenon DEF block_of
  <2>19. \A g \in File : g # f => SameFile(g)
    <3>1. \A g \in File : g # f => \A j \in Index : block_of(g, j)' = block_of(g, j)
      BY <2>1, <2>12, Zenon DEF block_of
    <3>. QED  BY <2>1, <2>12, <3>1, Zenon DEF SameFile
  <2>20. KeepsBlocks
    <3>1. \A g \in File : i_size[g] <= i_size'[g]
      BY <2>0, <2>1, LastIn, SMT, Z3
    <3>2. \A g \in File : \A j \in Index : block_of(g, j) # 0 => block_of(g, j)' = block_of(g, j)
      BY <2>17, <2>18, <2>19, Zenon DEF SameFile
    <3>. QED  BY <3>1, <3>2, Zenon DEF KeepsBlocks
  <2>21. Allocating(d)'
    <3>1. Planned(d)'
      BY <2>1, <2>2, Zenon DEF Allocating, Planned
    <3>2. last(f)' + 1 <= block_idx'[d] /\ block_idx'[d] <= will_use'[d]
      BY <2>0, <2>1, <2>5, <2>6, <2>11, <2>15, SMT, Z3
    <3>3. i_sectors'[f][Table] # 0 <=> will_use'[d] > Direct
      BY <2>1, <2>2, <2>16, Zenon DEF Allocating
    <3>4. ASSUME NEW j \in 0 .. Direct - 1
          PROVE  /\ i_sectors'[f][j] # 0 <=> j < block_idx'[d]
                 /\ last(f)' <= j /\ j < block_idx'[d] => all_blocks'[d][j] = i_sectors'[f][j]
      <4>1. j \in 0 .. Direct /\ j \in Index /\ j \in Nat
        BY <2>4, SMT, Z3 DEF Index
      <4>2. /\ i_sectors[f][j] # 0 <=> j < i
            /\ last(f) <= j /\ j < i => all_blocks[d][j] = i_sectors[f][j]
        BY <2>2, Zenon DEF Allocating
      <4>3. CASE j = i
        BY <2>4, <2>6, <2>8, <2>10, <2>11, <2>12, <4>1, <4>3, SMT, Z3
      <4>4. CASE j # i
        <5>1. j < i + 1 <=> j < i
          BY <2>6, <4>1, <4>4, SMT, Z3
        <5>. QED  BY <2>10, <2>11, <2>12, <2>15, <4>1, <4>2, <4>4, <5>1, Zenon
      <4>. QED  BY <4>3, <4>4, Zenon
    <3>5. ASSUME NEW j \in Direct .. MaxBlocks - 1
          PROVE  /\ all_blocks'[d][j] # 0 <=> j < block_idx'[d]
                 /\ block_of(f, j)' = IF j <= last(f)' THEN all_blocks'[d][j] ELSE 0
      <4>1. j \in Index /\ j \in Nat /\ ~(j < Direct)
        BY <2>4, SMT, Z3 DEF Index
      <4>2. /\ all_blocks[d][j] # 0 <=> j < i
            /\ block_of(f, j) = IF j <= last(f) THEN all_blocks[d][j] ELSE 0
        BY <2>2, Zenon DEF Allocating
      <4>3. block_of(f, j)' = block_of(f, j)
        BY <2>17, <4>1, SMT, Z3
      <4>4. CASE j = i
        <5>1. ~(j <= last(f)) /\ j < i + 1
          BY <2>5, <2>6, <4>4, SMT, Z3
        <5>. QED  BY <2>8, <2>10, <2>11, <2>15, <4>2, <4>3, <4>4, <5>1, Zenon
      <4>5. CASE j # i
        <5>1. j < i + 1 <=> j < i
          BY <2>6, <4>1, <4>5, SMT, Z3
        <5>. QED  BY <2>10, <2>11, <2>15, <4>1, <4>2, <4>3, <4>5, <5>1, Zenon
      <4>. QED  BY <4>4, <4>5, Zenon
    <3>. QED  BY <3>1, <3>2, <3>3, <3>4, <3>5, Zenon DEF Allocating
  <2>22. WriterOK(d)'
    BY <2>11, <2>21, Zenon DEF WriterOK
  <2>23. \A j \in 0 .. MaxBlocks : j = MaxBlocks \/ j \in Index
    BY <2>4, SMT, Z3 DEF Index
  <2>24. i \in 0 .. MaxBlocks /\ i # MaxBlocks
    BY <2>4, <2>6, SMT, Z3
  <2>25. own(d, i) = 0
    <3>1. CASE i < Direct
      BY <2>0, <2>4, <2>6, <2>18, <2>24, <3>1, SMT, Z3 DEF own
    <3>2. CASE ~(i < Direct)
      <4>1. i \in Direct .. MaxBlocks - 1 /\ i >= Direct /\ ~(i < i)
        BY <2>4, <2>6, <3>2, SMT, Z3
      <4>2. all_blocks[d][i] = 0
        BY <2>2, <4>1, Zenon DEF Allocating
      <4>. QED  BY <2>0, <2>24, <4>1, <4>2, Zenon DEF own
    <3>. QED  BY <3>1, <3>2, Zenon
  <2>30. PICK k \in 0 .. MaxBlocks : k = i /\ k \in Index
    BY <2>6, <2>24, SMT, Z3
  <2>26. own(d, k)' = b
    <3>1. CASE i < Direct
      <4>1. ~(k >= Direct) /\ k # MaxBlocks
        BY <2>4, <2>6, <2>24, <2>30, <3>1, SMT, Z3
      <4>2. block_of(f, k)' = b
        BY <2>17, <2>30, <3>1, SMT, Z3
      <4>. QED  BY <4>1, <4>2, SMT, Z3 DEF own
    <3>2. CASE ~(i < Direct)
      <4>1. k >= Direct /\ k # MaxBlocks
        BY <2>4, <2>6, <2>24, <2>30, <3>2, SMT, Z3
      <4>. QED  BY <2>10, <2>11, <2>30, <4>1, Zenon DEF own
    <3>. QED  BY <3>1, <3>2, SMT, Z3
  <2>27. ASSUME NEW j \in 0 .. MaxBlocks, j # i
         PROVE  own(d, j)' = own(d, j)
    <3>1. CASE j = MaxBlocks
      BY <2>16, <3>1, Zenon DEF own
    <3>2. CASE j # MaxBlocks
      BY <2>0, <2>10, <2>11, <2>17, <2>23, <2>27, <3>2, Zenon DEF own
    <3>. QED  BY <3>1, <3>2, SMT, Z3
  <2>28. Exclusive'
    <3>1. place(f, k) = 0 /\ place(f, k)' = b
      BY <2>25, <2>26, <2>30, PlaceOwn, Zenon
    <3>2. ASSUME NEW g \in File, NEW j \in 0 .. MaxBlocks, g # f \/ j # k
          PROVE  SamePlace(g, j)
      <4>1. CASE g # f
        BY <2>0, <2>14, <2>19, <4>1, PlaceOther, Zenon DEF SamePlace
      <4>2. CASE g = f
        BY <2>27, <2>30, <3>2, <4>2, PlaceOwn, Zenon DEF SamePlace
      <4>. QED  BY <4>1, <4>2, SMT, Z3
    <3>. QED  BY <2>0, <2>1, <2>9, <3>1, <3>2, ExclusiveFresh, Zenon
  <2>29. pc'[d] \in InWrite
    BY <2>11 DEF InWrite
  <2>. QED  BY <2>1, <2>13, <2>14, <2>19, <2>20, <2>22, <2>28, <2>29, AllocStep, Zenon
<1>. QED  BY <1>1, <1>2, Zenon DEF alloc

LEMMA AllocatedStep ==
  ASSUME IInv, NEW d \in Writer, allocated(d)
  PROVE  IInv'
<1>. DEFINE f == file_of[d]
            t == i_sectors[f][Table]
            entries == [i \in Direct .. MaxBlocks - 1 |-> all_blocks[d][i]]
            write_table == will_use[d] > Direct /\ will_use[d] > has_used_blocks(f)
<1>0. /\ Typed /\ Files /\ Writers /\ Exclusive /\ f \in File /\ d \in Fd
      /\ pc[d] = "w_alloc" /\ block_idx[d] >= will_use[d]
  BY Consts, Zenon DEF IInv, allocated, At
<1>1. /\ i_size' = i_size /\ i_sectors' = i_sectors /\ used' = used /\ fd_pos' = fd_pos /\ sector' = sector
      /\ all_blocks' = all_blocks /\ block_idx' = block_idx
      /\ will_use' = will_use /\ left' = left /\ io_buf' = io_buf /\ from' = from /\ buf' = buf
      /\ pc' = [pc EXCEPT ![d] = "w_first"]
      /\ table' = IF write_table THEN [table EXCEPT ![t] = entries] ELSE table
  BY Zenon DEF allocated, inodeVars, localVars, readVars, waits, goes_on
<1>2. Allocating(d)
  BY <1>0, Zenon DEF Writers, WriterOK
<1>3. /\ Direct \in Nat /\ Direct # 0 /\ MaxBlocks \in Nat /\ Direct < MaxBlocks /\ Table = Direct
      /\ Table \in 0 .. Direct /\ \A j \in Index : j \in Nat /\ j < MaxBlocks
      /\ \A j \in Direct .. MaxBlocks - 1 : j \in Index /\ ~(j < Direct)
  BY Consts DEF Index
<1>4. /\ last(f) \in Nat /\ has_used_blocks(f) = last(f) + 1 /\ last(f) \in Index
  BY <1>0, <1>3, LastIn, Zenon DEF has_used_blocks, last
<1>5. /\ block_idx[d] = will_use[d] /\ will_use[d] \in Nat /\ will_use[d] <= MaxBlocks
      /\ last(f) + 1 <= will_use[d] /\ Planned(d)
  <2>1. block_idx[d] \in Nat /\ will_use[d] \in Nat
    BY <1>0 DEF Typed
  <2>. QED  BY <1>0, <1>2, <1>4, <2>1, SMT, Z3 DEF Allocating, Planned
<1>6. t # 0 <=> will_use[d] > Direct
  BY <1>2, Zenon DEF Allocating
<1>7. ASSUME NEW i \in Direct .. MaxBlocks - 1
      PROVE  /\ all_blocks[d][i] # 0 <=> i < will_use[d]
             /\ block_of(f, i) = IF i <= last(f) THEN all_blocks[d][i] ELSE 0
  BY <1>2, <1>5, Zenon DEF Allocating
<1>8. t \in Addr /\ all_blocks[d] \in [Index -> Addr] /\ table \in [Block -> [Direct .. MaxBlocks - 1 -> Addr]]
      /\ pc \in [Fd -> Point] /\ "w_first" \in Point
  BY <1>0, <1>3, SMT, Z3 DEF Typed, Point
<1>9. entries \in [Direct .. MaxBlocks - 1 -> Addr]
  BY <1>3, <1>8, SMT, Z3
<1>. HIDE DEF entries
<1>10. write_table => t \in Block /\ t # 0
  BY <1>6, <1>8, SMT, Z3 DEF Addr
<1>11. /\ table' \in [Block -> [Direct .. MaxBlocks - 1 -> Addr]]
       /\ \A b \in Block : table'[b] = IF write_table /\ b = t THEN entries ELSE table[b]
  <2>1. CASE write_table
    BY <1>1, <1>8, <1>9, <1>10, <2>1, Zenon
  <2>2. CASE ~write_table
    BY <1>1, <1>8, <2>2, Zenon
  <2>. QED  BY <2>1, <2>2, Zenon
<1>12. pc' \in [Fd -> Point] /\ pc'[d] = "w_first" /\ \A e \in Fd \ {d} : pc'[e] = pc[e]
  BY <1>0, <1>1, <1>8, Zenon
<1>13. Typed'
  BY <1>0, <1>1, <1>11, <1>12, Zenon DEF Typed
<1>14. OthersSame(d)
  BY <1>1, <1>12, Zenon DEF OthersSame, SameCall
<1>15. last(f)' = last(f)
  BY <1>1, SMT, Z3 DEF last
<1>16. ASSUME NEW i \in Direct .. MaxBlocks - 1
       PROVE  block_of(f, i)' = all_blocks[d][i]
  <2>1. block_of(f, i)' = IF t = 0 THEN 0 ELSE table'[t][i]
    BY <1>1, <1>3, SMT, Z3 DEF block_of
  <2>2. block_of(f, i) = IF t = 0 THEN 0 ELSE table[t][i]
    BY <1>3, Zenon DEF block_of
  <2>3. CASE write_table
    <3>1. table'[t][i] = entries[i]
      BY <1>10, <1>11, <2>3, ZenonT(30)
    <3>2. entries[i] = all_blocks[d][i]
      BY DEF entries
    <3>. QED  BY <1>10, <2>1, <2>3, <3>1, <3>2, Zenon
  <2>4. CASE ~write_table
    <3>1. block_of(f, i)' = block_of(f, i)
      BY <1>1, <2>1, <2>2, <2>4, Zenon
    <3>2. CASE will_use[d] <= Direct
      <4>1. t = 0 /\ ~(i < will_use[d])
        BY <1>3, <1>5, <1>6, <3>2, SMT, Z3
      <4>. QED  BY <1>7, <2>1, <4>1, Zenon
    <3>3. CASE ~(will_use[d] <= Direct)
      <4>1. will_use[d] = last(f) + 1
        BY <1>3, <1>4, <1>5, <2>4, <3>3, SMT, Z3
      <4>2. i <= last(f) <=> i < will_use[d]
        BY <1>3, <1>4, <4>1, SMT, Z3
      <4>. QED  BY <1>7, <3>1, <4>2, Zenon
    <3>. QED  BY <3>2, <3>3, Zenon
  <2>. QED  BY <2>3, <2>4, Zenon
<1>17. ASSUME NEW i \in Index, i < Direct  PROVE block_of(f, i)' = block_of(f, i)
  BY <1>1, <1>17, Zenon DEF block_of
<1>18. \A g \in File : g # f => SameFile(g)
  <2>. SUFFICES ASSUME NEW g \in File, g # f, NEW i \in Index
                PROVE  block_of(g, i)' = block_of(g, i)
    BY <1>1, Zenon DEF SameFile
  <2>1. CASE i < Direct \/ i_sectors[g][Table] = 0
    BY <1>1, <2>1, Zenon DEF block_of
  <2>2. CASE ~(i < Direct \/ i_sectors[g][Table] = 0)
    <3>1. i_sectors[g][Table] # t
      BY <1>0, <2>2, DistinctTable, Zenon
    <3>2. i_sectors[g][Table] \in Block
      BY <1>0, <1>3, <2>2, SMT, Z3 DEF Typed, Addr
    <3>3. table'[i_sectors[g][Table]] = table[i_sectors[g][Table]]
      BY <1>11, <3>1, <3>2, Zenon
    <3>. QED  BY <1>1, <2>2, <3>3, SMT, Z3 DEF block_of
  <2>. QED  BY <2>1, <2>2, Zenon
<1>19. KeepsBlocks
  <2>1. \A g \in File : i_size[g] <= i_size'[g]
    BY <1>0, <1>1, LastIn, SMT, Z3
  <2>2. ASSUME NEW i \in Index, block_of(f, i) # 0
        PROVE  block_of(f, i)' = block_of(f, i)
    <3>1. CASE i < Direct
      BY <1>17, <3>1, SMT, Z3
    <3>2. CASE ~(i < Direct)
      <4>1. i \in Direct .. MaxBlocks - 1
        BY <1>3, <3>2, SMT, Z3
      <4>. QED  BY <1>7, <1>16, <2>2, <4>1, Zenon
    <3>. QED  BY <3>1, <3>2, SMT, Z3
  <2>. QED  BY <1>18, <2>1, <2>2, Zenon DEF KeepsBlocks, SameFile
<1>20. ASSUME NEW i \in Index
       PROVE  /\ block_of(f, i)' # 0 <=> i < will_use[d]
              /\ last(f) <= i /\ i < will_use[d] => all_blocks[d][i] = block_of(f, i)'
  <2>1. CASE i < Direct
    <3>1. i \in 0 .. Direct - 1
      BY <1>3, <2>1, SMT, Z3
    <3>2. /\ i_sectors[f][i] # 0 <=> i < will_use[d]
          /\ last(f) <= i /\ i < will_use[d] => all_blocks[d][i] = i_sectors[f][i]
      BY <1>2, <1>5, <3>1, Zenon DEF Allocating
    <3>3. block_of(f, i)' = i_sectors[f][i]
      BY <1>1, <2>1, Zenon DEF block_of
    <3>. QED  BY <3>2, <3>3, Zenon
  <2>2. CASE ~(i < Direct)
    <3>1. i \in Direct .. MaxBlocks - 1
      BY <1>3, <2>2
    <3>. QED  BY <1>7, <1>16, <3>1, Zenon
  <2>. QED  BY <2>1, <2>2, Zenon
<1>21. WriterOK(d)'
  <2>1. Planned(d)'
    BY <1>1, <1>5, Zenon DEF Planned
  <2>2. HasBlocks(f, will_use[d])'
    BY <1>1, <1>6, <1>20, Zenon DEF HasBlocks
  <2>3. ASSUME NEW i \in last(f)' .. will_use'[d] - 1
        PROVE  all_blocks'[d][i] = block_of(f, i)'
    <3>1. i \in Index /\ last(f) <= i /\ i < will_use[d]
      BY <1>1, <1>3, <1>4, <1>5, <1>15, SMT, Z3 DEF Index
    <3>. QED  BY <1>1, <1>20, <3>1, Zenon
  <2>4. Writing(d)'
    BY <2>1, <2>2, <2>3, Zenon DEF Writing
  <2>. QED  BY <1>12, <2>4, Zenon DEF WriterOK
<1>22. ASSUME NEW i \in 0 .. MaxBlocks  PROVE own(d, i)' = own(d, i)
  <2>1. CASE i = MaxBlocks
    BY <1>1, <2>1, Zenon DEF own
  <2>2. CASE i # MaxBlocks /\ i < Direct
    <3>1. i \in Index /\ ~(i >= Direct)
      BY <1>3, <2>2, SMT, Z3 DEF Index
    <3>. QED  BY <1>17, <2>2, <3>1, Zenon DEF own
  <2>3. CASE i # MaxBlocks /\ ~(i < Direct)
    <3>1. i \in Direct .. MaxBlocks - 1 /\ i >= Direct
      BY <1>3, <2>3, SMT, Z3
    <3>2. own(d, i) = all_blocks[d][i]
      BY <1>0, <2>3, <3>1, SMT, Z3 DEF own
    <3>3. own(d, i)' = block_of(f, i)'
      BY <1>12, <2>3, Zenon DEF own
    <3>. QED  BY <1>16, <3>1, <3>2, <3>3, Zenon
  <2>. QED  BY <2>1, <2>2, <2>3, SMT, Z3
<1>23. Exclusive'
  <2>1. \A g \in File : \A i \in 0 .. MaxBlocks : SamePlace(g, i)
    BY <1>0, <1>14, <1>18, <1>22, PlacesSame, Zenon
  <2>2. ASSUME NEW b \in Block \ used  PROVE table'[b] = table[b]
    <3>1. t \in Block => t \in used
      <4>1. place(f, MaxBlocks) = t /\ MaxBlocks \in 0 .. MaxBlocks
        BY <1>3 DEF place
      <4>. QED  BY <1>0, <4>1, Zenon DEF Exclusive
    <3>. QED  BY <1>10, <1>11, <3>1, Zenon
  <2>. QED  BY <1>0, <1>1, <2>1, <2>2, ExclusiveSame, Zenon
<1>24. pc'[d] \in InWrite
  BY <1>12 DEF InWrite
<1>. QED  BY <1>1, <1>13, <1>14, <1>18, <1>19, <1>21, <1>23, <1>24, AllocStep, Zenon

-----------------------------------------------------------------------------
LEMMA IStep == Counted /\ IInv /\ [Next]_vars => IInv'
<1>. SUFFICES ASSUME Counted, IInv, [Next]_vars
              PROVE  IInv'
  OBVIOUS
<1>1. CASE UNCHANGED vars
  BY <1>1, Unchanged DEF vars
<1>2. ASSUME NEW d \in Fd, Call(d) \/ Step(d)
      PROVE  IInv'
  <2>1. CASE \E n \in WriteCount : sys_write(d, n)
    BY <2>1, SysWriteStep, SMT, Z3
  <2>2. CASE \E n \in ReadCount : sys_read(d, n)
    BY <2>2, SysReadStep, SMT, Z3
  <2>3. CASE \E o \in -1 .. 1, base \in {0, fd_pos[d], i_size[file_of[d]]} : sys_lseek(d, o, base)
    <3>1. PICK o \in -1 .. 1, base \in {0, fd_pos[d], i_size[file_of[d]]} : sys_lseek(d, o, base)
      BY <2>3
    <3>2. o \in Int
      OBVIOUS
    <3>. QED  BY <3>1, <3>2, LseekStep, Zenon
  <2>4. CASE read_chunk(d)
    BY <2>4, ReadChunkStep, SMT, Z3
  <2>5. ASSUME pc[d] \in InWrite  PROVE d \in Writer
    BY <2>5 DEF IInv, OnlyWriters, InWrite
  <2>6. CASE plan(d)
    BY <2>5, <2>6, PlanStep, Zenon DEF plan, At, InWrite
  <2>7. CASE alloc(d)
    BY <2>5, <2>7, AllocOneStep, Zenon DEF alloc, At, InWrite
  <2>8. CASE allocated(d)
    BY <2>5, <2>8, AllocatedStep, Zenon DEF allocated, At, InWrite
  <2>9. CASE write_first(d)
    BY <2>5, <2>9, WriteFirstStep, Zenon DEF write_first, At, InWrite
  <2>10. CASE write_chunk(d)
    BY <2>5, <2>10, WriteChunkStep, Zenon DEF write_chunk, At, InWrite
  <2>11. CASE write_next(d)
    BY <2>5, <2>11, WriteNextStep, Zenon DEF write_next, At, InWrite
  <2>. QED
    BY <1>2, <2>1, <2>2, <2>3, <2>4, <2>6, <2>7, <2>8, <2>9, <2>10, <2>11, Zenon DEF Call, Step
<1>. QED  BY <1>1, <1>2, SMT, Z3 DEF Next

(* The inductive invariant: the calls of file_write() and file_read() in     *)
(* progress, the blocks they hold and the bytes on the disk agree in every   *)
(* state.                                                                   *)
THEOREM FileInvariant == Counted => (Spec => []IInv)
<1>. SUFFICES ASSUME Counted
              PROVE  Spec => []IInv
  OBVIOUS
<1>1. Init => IInv
  BY IInitially, SMT, Z3
<1>2. IInv /\ [Next]_vars => IInv'
  BY IStep, SMT, Z3
<1>. QED  BY <1>1, <1>2, PTL DEF Spec

LEMMA OwnedUsed ==
  ASSUME IInv, NEW f \in File, NEW b \in owned(f)
  PROVE  /\ b \in used
         /\ \E i \in 0 .. MaxBlocks : place(f, i) = b
<1>0. Typed /\ Writers /\ Exclusive
  BY DEF IInv
<1>1. PICK m \in 0 .. MaxBlocks : place(f, m) = b
  <2>1. CASE \E i \in Index : block_of(f, i) = b
    BY <1>0, <2>1, InPlace, Zenon DEF owned
  <2>2. CASE b = i_sectors[f][Table]
    BY <2>2, Consts, SMT, Z3 DEF place
  <2>. QED  BY <2>1, <2>2, Zenon DEF owned, Index
<1>2. b \in Block
  <2>1. CASE \E i \in Index : block_of(f, i) = b
    BY <1>0, <2>1, BlockOfType, Zenon DEF owned, Addr
  <2>2. CASE b = i_sectors[f][Table]
    BY <1>0, <2>2, Consts, SMT, Z3 DEF Typed, owned, Addr
  <2>. QED  BY <2>1, <2>2, Zenon DEF owned, Index
<1>. QED  BY <1>0, <1>1, <1>2, Zenon DEF Exclusive

LEMMA IExclusive == IInv => BlocksExclusive
<1>. SUFFICES ASSUME IInv
              PROVE  BlocksExclusive
  OBVIOUS
<1>0. Typed /\ Writers /\ Exclusive
  BY DEF IInv
<1>1. \A f \in File : owned(f) \subseteq used
  BY OwnedUsed, SMT, Z3
<1>2. \A f \in File : \A i, j \in Index :
        i # j /\ block_of(f, i) # 0 => block_of(f, i) # block_of(f, j)
  BY <1>0, Distinct, SMT, Z3
<1>3. ASSUME NEW f \in File, NEW i \in Index, block_of(f, i) # 0
      PROVE  block_of(f, i) # i_sectors[f][Table]
  <2>1. i \in 0 .. MaxBlocks /\ place(f, i) = block_of(f, i) /\ i # MaxBlocks
    BY <1>0, <1>3, InPlace, Consts, SMT, Z3 DEF Index
  <2>2. place(f, MaxBlocks) = i_sectors[f][Table] /\ MaxBlocks \in 0 .. MaxBlocks
    BY Consts, SMT, Z3 DEF place
  <2>. QED  BY <1>0, <1>3, <2>1, <2>2, SMT, Z3 DEF Exclusive
<1>4. ASSUME NEW f \in File, NEW g \in File, f # g, NEW b \in owned(f) \cap owned(g)
      PROVE  FALSE
  <2>1. PICK i \in 0 .. MaxBlocks : place(f, i) = b
    BY OwnedUsed
  <2>2. PICK j \in 0 .. MaxBlocks : place(g, j) = b
    BY OwnedUsed
  <2>3. b # 0
    BY DEF owned
  <2>. QED  BY <1>0, <1>4, <2>1, <2>2, <2>3, SMT, Z3 DEF Exclusive
<1>. QED  BY <1>1, <1>2, <1>3, <1>4, Zenon DEF BlocksExclusive, Index

(* No block of the partition is ever in two files, or twice in one, and all  *)
(* blocks of the files are marked in the block bitmap, however the writes of *)
(* file_write() to different files interleave at the disk accesses.         *)
THEOREM BlocksAreExclusive == Counted => (Spec => []BlocksExclusive)
<1>. SUFFICES ASSUME Counted
              PROVE  Spec => []BlocksExclusive
  OBVIOUS
<1>1. Spec => []IInv
  BY FileInvariant
<1>. QED  BY <1>1, IExclusive, PTL

LEMMA ISize == IInv => SizeHasBlocks
<1>. SUFFICES ASSUME IInv, NEW f \in File, Quiet(f), i_sectors[f][0] # 0
              PROVE  /\ {i \in 0 .. MaxBlocks - 1 : block_of(f, i) # 0} = 0 .. i_size[f] \div BLOCK_SIZE
                     /\ i_sectors[f][Table] # 0 <=> i_size[f] \div BLOCK_SIZE >= Direct
  BY DEF SizeHasBlocks
<1>0. Typed /\ Files
  BY DEF IInv
<1>1. Resting(f)
  BY DEF Quiet, Resting, InWrite
<1>2. HasBlocks(f, last(f) + 1)
  <2>1. Settled(f)
    BY <1>0, <1>1, SMT, Z3 DEF Files
  <2>2. 0 \in 0 .. Direct
    BY Consts, SMT, Z3
  <2>. QED  BY <2>1, <2>2, SMT, Z3 DEF Settled
<1>3. last(f) \in Index /\ last(f) \in Nat /\ Direct \in Nat /\ MaxBlocks \in Nat /\ last(f) < MaxBlocks
  BY <1>0, LastIn, Consts, SMT, Z3 DEF Index
<1>4. {i \in Index : block_of(f, i) # 0} = 0 .. last(f)
  <2>1. \A i \in Index : block_of(f, i) # 0 <=> i < last(f) + 1
    BY <1>2, SMT, Z3 DEF HasBlocks
  <2>2. \A i : i \in Index /\ i < last(f) + 1 <=> i \in 0 .. last(f)
    BY <1>3, SMT, Z3 DEF Index
  <2>. QED  BY <2>1, <2>2, SMT, Z3
<1>5. i_sectors[f][Table] # 0 <=> last(f) >= Direct
  BY <1>2, <1>3, SMT, Z3 DEF HasBlocks
<1>. QED  BY <1>4, <1>5, Zenon DEF Index, last

(* When no write to it is in progress, a file has exactly the blocks that    *)
(* the next file_write() counts on, and its indirect table if and only if it *)
(* has more than the direct ones.                                           *)
THEOREM SizesHaveBlocks == Counted => (Spec => []SizeHasBlocks)
<1>. SUFFICES ASSUME Counted
              PROVE  Spec => []SizeHasBlocks
  OBVIOUS
<1>1. Spec => []IInv
  BY FileInvariant
<1>. QED  BY <1>1, ISize, PTL

(* file_read() gives the bytes that file_write() wrote at these positions,   *)
(* also while another descriptor appends to the file between two sectors.   *)
THEOREM ReadsAreCorrect == Counted => (Spec => []ReadCorrect)
<1>. SUFFICES ASSUME Counted
              PROVE  Spec => []ReadCorrect
  OBVIOUS
<1>1. Spec => []IInv
  BY FileInvariant
<1>2. IInv => ReadCorrect
  BY DEF IInv
<1>. QED  BY <1>1, <1>2, PTL

-----------------------------------------------------------------------------
(* The abstract file: all bytes below i_size, as the disk has them. *)
text(f) == [k \in 1 .. i_size[f] |->
              sector[block_of(f, (k - 1) \div BLOCK_SIZE)][(k - 1) % BLOCK_SIZE]]
written(f, n) == [k \in 1 .. n |-> ByteOf(f, k - 1)]

LEMMA TextWritten ==
  ASSUME IInv, NEW f \in File
  PROVE  text(f) = written(f, i_size[f]) /\ i_size[f] \in Nat
<1>0. Data /\ Typed
  BY DEF IInv
<1>1. i_size[f] \in Nat
  BY <1>0, LastIn, SMT, Z3
<1>2. ASSUME NEW k \in 1 .. i_size[f]
      PROVE  sector[block_of(f, (k - 1) \div BLOCK_SIZE)][(k - 1) % BLOCK_SIZE] = ByteOf(f, k - 1)
  <2>1. PICK m \in 0 .. i_size[f] - 1 : m = k - 1
    BY <1>1
  <2>. QED  BY <1>0, <2>1, SMT, Z3 DEF Data
<1>. QED  BY <1>1, <1>2, SMT, Z3 DEF text, written

LEMMA WrittenMore ==
  ASSUME NEW f, NEW z \in Nat, NEW n \in Nat
  PROVE  /\ Len(written(f, z)) = z
         /\ written(f, z + n) = written(f, z) \o [i \in 1 .. n |-> ByteOf(f, z + i - 1)]
<1>. DEFINE V == {ByteOf(f, k) : k \in Int}
            s == written(f, z)
            t == [i \in 1 .. n |-> ByteOf(f, z + i - 1)]
            u == written(f, z + n)
<1>1. s \in Seq(V) /\ Len(s) = z /\ \A i \in 1 .. z : s[i] = ByteOf(f, i - 1)
  <2>1. s \in [1 .. z -> V]
    BY DEF written
  <2>2. \A i \in 1 .. z : s[i] = ByteOf(f, i - 1)
    BY DEF written
  <2>. HIDE DEF s, V
  <2>. QED  BY <2>1, <2>2, SMT, Z3
<1>2. t \in Seq(V) /\ Len(t) = n /\ \A i \in 1 .. n : t[i] = ByteOf(f, z + i - 1)
  <2>1. t \in [1 .. n -> V] /\ \A i \in 1 .. n : t[i] = ByteOf(f, z + i - 1)
    OBVIOUS
  <2>. HIDE DEF t, V
  <2>. QED  BY <2>1
<1>3. u \in Seq(V) /\ Len(u) = z + n /\ \A i \in 1 .. z + n : u[i] = ByteOf(f, i - 1)
  <2>1. u \in [1 .. z + n -> V] /\ \A i \in 1 .. z + n : u[i] = ByteOf(f, i - 1)
    BY DEF written
  <2>2. z + n \in Nat
    OBVIOUS
  <2>. HIDE DEF u, V
  <2>. QED  BY <2>1, <2>2, SMT, Z3
<1>. HIDE DEF s, t, u, V
<1>4. /\ s \o t \in Seq(V) /\ Len(s \o t) = z + n
      /\ \A i \in 1 .. z + n : (s \o t)[i] = IF i <= z THEN s[i] ELSE t[i - z]
  BY <1>1, <1>2, SeqConcat, Zenon
<1>5. ASSUME NEW i \in 1 .. z + n  PROVE u[i] = (s \o t)[i]
  <2>1. CASE i <= z
    BY <1>1, <1>3, <1>4, <2>1, SMT, Z3
  <2>2. CASE ~(i <= z)
    <3>1. i - z \in 1 .. n /\ z + (i - z) - 1 = i - 1
      BY <2>2
    <3>. QED  BY <1>2, <1>3, <1>4, <2>2, <3>1, Zenon
  <2>. QED  BY <2>1, <2>2, Zenon
<1>6. u = s \o t
  BY <1>3, <1>4, <1>5, SameSeq, Zenon
<1>. QED  BY <1>1, <1>6, Zenon DEF s, t, u

(* A file grows only where a sector has been written. *)
LEMMA Grows ==
  ASSUME IInv, Next
  PROVE  i_size' = i_size \/ \E f \in File, n \in 1 .. BLOCK_SIZE : i_size' = [i_size EXCEPT ![f] = @ + n]
<1>1. PICK d \in Fd : Call(d) \/ Step(d)
  BY DEF Next
<1>2. CASE write_next(d)
  <2>. DEFINE f == file_of[d]
              n == chunk_size(i_size[f], left[d])
  <2>1. pc[d] = "w_next" /\ i_size' = [i_size EXCEPT ![f] = @ + n]
    BY <1>2, Zenon DEF write_next, At
  <2>2. d \in Writer
    BY <2>1, Zenon DEF IInv, OnlyWriters
  <2>3. left[d] # 0
    BY <2>1, <2>2, Zenon DEF IInv, Writers, WriterOK
  <2>4. i_size[f] \in Nat /\ left[d] \in Nat /\ f \in File
    BY Consts, LastIn, Zenon DEF IInv, Typed
  <2>5. n \in 1 .. left[d]
    BY <2>3, <2>4, Chunk, Zenon
  <2>6. (i_size[f] % BLOCK_SIZE) + n <= BLOCK_SIZE
    BY <2>3, <2>4, Chunk, SMT, Z3
  <2>7. i_size[f] % BLOCK_SIZE \in Offset
    BY <2>4, DivMod, SMT, Z3
  <2>8. PICK r \in Nat : r = i_size[f] % BLOCK_SIZE
    BY <2>7, Consts, SMT, Z3 DEF Offset
  <2>. HIDE DEF n
  <2>9. n \in 1 .. BLOCK_SIZE
    BY <2>4, <2>5, <2>6, <2>8, Consts, SMT, Z3
  <2>. QED  BY <2>1, <2>4, <2>9, Zenon
<1>3. CASE ~write_next(d)
  BY <1>1, <1>3, Zenon DEF Call, Step, sys_write, sys_read, sys_lseek, plan, alloc, allocated, write_first,
     write_chunk, read_chunk, fails, vars, inodeVars
<1>. QED  BY <1>2, <1>3, SMT, Z3

(* The step of the concrete files is a step of the abstract ones. *)
LEMMA AppendStep ==
  ASSUME IInv, IInv', [Next]_vars
  PROVE  [Abstract!Next]_([f \in File |-> text(f)])
<1>. DEFINE C == [f \in File |-> text(f)]
<1>1. C = [f \in File |-> written(f, i_size[f])]
  BY TextWritten, SMT, Z3
<1>2. C' = [f \in File |-> written(f, i_size'[f])]
  <2>1. ASSUME NEW f \in File  PROVE text(f)' = written(f, i_size'[f])
    <3>0. Data' /\ Typed'
      BY DEF IInv
    <3>1. i_size'[f] \in Nat
      <4>1. i_size' \in [File -> 0 .. Limit - 1]
        BY <3>0, Zenon DEF Typed
      <4>. QED  BY <4>1, Consts, SMT, Z3
    <3>2. ASSUME NEW k \in 1 .. i_size'[f]
          PROVE  sector'[block_of(f, (k - 1) \div BLOCK_SIZE)'][(k - 1) % BLOCK_SIZE] = ByteOf(f, k - 1)
      <4>1. PICK m \in 0 .. i_size'[f] - 1 : m = k - 1
        BY <3>1, SMT, Z3
      <4>. QED  BY <3>0, <4>1, SMT, Z3 DEF Data
    <3>. QED  BY <3>1, <3>2, SMT, Z3 DEF text, written
  <2>. QED  BY <2>1, SMT, Z3
<1>3. CASE i_size' = i_size
  BY <1>1, <1>2, <1>3, SMT, Z3
<1>4. CASE \E f \in File, n \in 1 .. BLOCK_SIZE : i_size' = [i_size EXCEPT ![f] = @ + n]
  <2>1. PICK f \in File, n \in 1 .. BLOCK_SIZE : i_size' = [i_size EXCEPT ![f] = @ + n]
    BY <1>4, Zenon
  <2>2. i_size \in [File -> 0 .. Limit - 1] /\ i_size[f] \in Nat /\ n \in Nat
    BY TextWritten, Consts, SMT, Z3 DEF IInv, Typed
  <2>3. PICK z \in Nat : z = i_size[f] /\ i_size'[f] = z + n /\ \A g \in File : g # f => i_size'[g] = i_size[g]
    BY <2>1, <2>2, SMT, Z3
  <2>4. C[f] = written(f, z) /\ Len(C[f]) = z
    BY <1>1, <2>2, <2>3, WrittenMore, SMT, Z3
  <2>5. written(f, z + n) = C[f] \o [i \in 1 .. n |-> ByteOf(f, Len(C[f]) + i - 1)]
    <3>1. written(f, z + n) = written(f, z) \o [i \in 1 .. n |-> ByteOf(f, z + i - 1)]
      BY <2>2, WrittenMore, Zenon
    <3>. HIDE DEF C
    <3>. QED  BY <2>4, <3>1, Zenon
  <2>6. C' = [C EXCEPT ![f] = C[f] \o [i \in 1 .. n |-> ByteOf(f, Len(C[f]) + i - 1)]]
    <3>. HIDE DEF C
    <3>. QED  BY <1>1, <1>2, <2>3, <2>5, Zenon
  <2>7. Abstract!Append_(f, n)
    BY <2>6, Zenon DEF Abstract!Append_, text
  <2>. QED  BY <2>7 DEF Abstract!Next
<1>5. i_size' = i_size \/ \E f \in File, n \in 1 .. BLOCK_SIZE : i_size' = [i_size EXCEPT ![f] = @ + n]
  BY Grows, SMT, Z3 DEF vars, inodeVars
<1>. QED  BY <1>3, <1>4, <1>5, SMT, Z3

(* The files of the file system are append-only files: what is found through *)
(* inode, indirect table and sectors is what file_write() was given, in this *)
(* order, and it never changes again.                                       *)
THEOREM FilesRefineAppend == Counted => (Spec => FileRefinesAppend)
<1>. SUFFICES ASSUME Counted
              PROVE  Spec => FileRefinesAppend
  BY SMT, Z3
<1>. DEFINE C == [f \in File |-> text(f)]
<1>1. Init => Abstract!Init
  <2>. SUFFICES ASSUME Init
                PROVE  \A f \in File : text(f) = <<>>
    BY DEF Abstract!Init, text
  <2>. TAKE f \in File
  <2>1. i_size[f] = 0
    BY Zenon DEF Init
  <2>. QED  BY <2>1, SMT, Z3 DEF text
<1>2. IInv /\ IInv' /\ [Next]_vars => [Abstract!Next]_C
  BY AppendStep, SMT, Z3
<1>3. Spec => []IInv
  BY FileInvariant
<1>. QED  BY <1>1, <1>2, <1>3, PTL DEF Spec, FileRefinesAppend, Abstract!Spec, text

-----------------------------------------------------------------------------
(* Room for every file at its largest, a block less than the table can hold, *)
(* and no write of zero bytes.                                              *)
Roomy ==
  /\ IsFiniteSet(File) /\ NBlocks >= Cardinality(File) * (MaxBlocks + 1)
  /\ MaxSize \in Nat /\ MaxSize < BLOCK_SIZE * (MaxBlocks - 1)
  /\ 0 \notin WriteCount

(* A write has something to write and stays below the bound; only while it   *)
(* does, its position may be -1.                                            *)
Bounded(d) ==
  LET f == file_of[d] IN
  /\ d \in Writer /\ pc[d] \in InWrite => i_size[f] + left[d] <= MaxSize /\ left[d] # 0
  /\ pc[d] \notin {"w_chunk", "w_next"} => fd_pos[d] <= i_size[f]

Room == (\A f \in File : i_size[f] <= MaxSize) /\ (\A d \in Fd : Bounded(d)) /\ NoPanic

LEMMA Below ==
  /\ \A a, b, c \in Nat : (a <= b /\ b <= c => a <= c) /\ (a <= b /\ b < c => a < c)
  /\ \A o \in Int : \A b \in Nat : o + b \in Int
  /\ \A q \in Int : \A z \in Nat : q <= z - 1 => q <= z
OBVIOUS

LEMMA ChunkBelow ==
  ASSUME NEW a \in Nat, NEW m \in Nat, NEW n \in 1 .. m, NEW b \in Nat, a + m <= b
  PROVE  /\ a + n \in Nat /\ a + n <= b /\ a <= a + n
         /\ (a + n) + (m - n) <= b /\ (m # n => m - n # 0)
BY SMT, Z3

(* As long as one place of one file is empty, the partition has a free block. *)
LEMMA HasFree ==
  ASSUME Exclusive, Roomy, NEW f \in File, NEW i \in 0 .. MaxBlocks, place(f, i) = 0
  PROVE  ~no_block
<1>. SUFFICES ASSUME used = Block
              PROVE  FALSE
  BY DEF no_block
<1>. DEFINE P == File \X (0 .. MaxBlocks)
            T == P \ {<<f, i>>}
            h == [b \in Block |-> CHOOSE p \in P : place(p[1], p[2]) = b]
<1>1. ASSUME NEW b \in Block
      PROVE  h[b] \in T /\ place(h[b][1], h[b][2]) = b
  <2>1. PICK g \in File, j \in 0 .. MaxBlocks : place(g, j) = b
    BY DEF Exclusive
  <2>2. <<g, j>> \in P /\ place(<<g, j>>[1], <<g, j>>[2]) = b
    BY <2>1
  <2>3. h[b] \in P /\ place(h[b][1], h[b][2]) = b
    BY <2>2, Zenon
  <2>4. b # 0
    BY Consts, SMT, Z3 DEF Block
  <2>5. h[b] # <<f, i>>
    BY <2>3, <2>4, SMT, Z3
  <2>. QED  BY <2>3, <2>5, Zenon
<1>2. h \in [Block -> T]
  BY <1>1, SMT, Z3
<1>3. \A a, b \in Block : h[a] = h[b] => a = b
  BY <1>1, SMT, Z3
<1>. HIDE DEF h
<1>4. h \in Injection(Block, T)
  BY <1>2, <1>3, SMT, Z3 DEF Injection, IsInjective
<1>5. IsFiniteSet(0 .. MaxBlocks) /\ Cardinality(0 .. MaxBlocks) = MaxBlocks + 1
  BY FS_Interval, Consts, SMT, Z3
<1>6. IsFiniteSet(P) /\ Cardinality(P) = Cardinality(File) * (MaxBlocks + 1)
  BY <1>5, FS_Product, Zenon DEF Roomy
<1>7. <<f, i>> \in P
  OBVIOUS
<1>8. IsFiniteSet(T) /\ Cardinality(T) = Cardinality(P) - 1
  <2>. HIDE DEF P
  <2>. QED  BY <1>6, <1>7, FS_RemoveElement, Zenon
<1>9. Cardinality(Block) <= Cardinality(T)
  BY <1>4, <1>8, FS_Injection, Zenon
<1>10. Cardinality(Block) = NBlocks
  <2>1. Cardinality(Block) = IF 1 > NBlocks THEN 0 ELSE NBlocks - 1 + 1
    BY FS_Interval, Consts, SMT, Z3 DEF Block
  <2>. QED  BY <2>1, Consts, SMT, Z3
<1>11. Cardinality(P) \in Nat
  BY <1>6, FS_CardinalityType, SMT, Z3
<1>12. NBlocks >= Cardinality(P)
  BY <1>6 DEF Roomy
<1>. HIDE DEF P, T
<1>. QED  BY <1>8, <1>9, <1>10, <1>11, <1>12, Consts, SMT, Z3

(* A step changes the locals of its own call only. *)
LEMMA Others ==
  ASSUME Typed, NEW d \in Fd, Call(d) \/ Step(d)
  PROVE  OthersSame(d)
<1>. DEFINE F == /\ pc \in [Fd -> Point] /\ fd_pos \in [Fd -> Nat]
                 /\ all_blocks \in [Fd -> [Index -> Addr]]
                 /\ block_idx \in [Fd -> Nat] /\ will_use \in [Fd -> Nat] /\ left \in [Fd -> Nat]
                 /\ io_buf \in [Fd -> [Offset -> Byte]]
                 /\ from \in [Fd -> Nat] /\ buf \in [Fd -> Seq(Byte)]
<1>0. F
  BY Zenon DEF Typed
<1>1. CASE UNCHANGED vars
  BY <1>1, Zenon DEF vars, localVars, readVars, OthersSame, SameCall
<1>2. CASE \E why : fails(why)
  BY <1>2 DEF fails, localVars, readVars, OthersSame, SameCall
<1>3. CASE ~(UNCHANGED vars) /\ ~(\E why : fails(why))
  <2>1. CASE \E n \in WriteCount : sys_write(d, n)
    BY <1>0, <1>3, <2>1, SMT, Z3 DEF sys_write, waits, goes_on, readVars, OthersSame, SameCall
  <2>2. CASE \E n \in ReadCount : sys_read(d, n)
    BY <1>0, <1>3, <2>2, ZenonT(30) DEF sys_read, waits, goes_on, OthersSame, SameCall
  <2>3. CASE \E o \in -1 .. 1, base \in {0, fd_pos[d], i_size[file_of[d]]} : sys_lseek(d, o, base)
    BY <1>0, <1>3, <2>3, Zenon DEF sys_lseek, localVars, readVars, OthersSame, SameCall
  <2>4. CASE plan(d)
    BY <1>0, <1>3, <2>4, Zenon DEF plan, waits, goes_on, readVars, OthersSame, SameCall
  <2>5. CASE alloc(d)
    BY <1>0, <1>3, <2>5, Zenon DEF alloc, waits, readVars, OthersSame, SameCall
  <2>6. CASE allocated(d)
    BY <1>0, <2>6, Zenon DEF allocated, waits, goes_on, localVars, readVars, OthersSame, SameCall
  <2>7. CASE write_first(d)
    BY <1>0, <2>7, ZenonT(30) DEF write_first, waits, returns, readVars, OthersSame, SameCall
  <2>8. CASE write_chunk(d)
    BY <1>0, <2>8, Zenon DEF write_chunk, waits, localVars, readVars, OthersSame, SameCall
  <2>9. CASE write_next(d)
    BY <1>0, <2>9, ZenonT(30) DEF write_next, waits, goes_on, returns, readVars, OthersSame, SameCall
  <2>10. CASE read_chunk(d)
    BY <1>0, <2>10, ZenonT(30) DEF read_chunk, waits, returns, OthersSame, SameCall
  <2>. QED
    BY <2>1, <2>2, <2>3, <2>4, <2>5, <2>6, <2>7, <2>8, <2>9, <2>10, Zenon DEF Call, Step
<1>. QED  BY <1>1, <1>2, <1>3, Zenon

LEMMA RoomFrame ==
  ASSUME Typed, Typed', Room, MaxSize \in Nat, NEW d \in Fd, OthersSame(d),
         \A g \in File : i_size[g] <= i_size'[g],
         \A g \in File : g # file_of[d] \/ d \notin Writer => i_size'[g] = i_size[g],
         i_size'[file_of[d]] <= MaxSize, Bounded(d)', NoPanic'
  PROVE  Room'
<1>1. \A g \in File : i_size'[g] <= MaxSize
  BY ZenonT(30) DEF Room
<1>2. ASSUME NEW e \in Fd, e # d
      PROVE  Bounded(e)'
  <2>1. pc'[e] = pc[e] /\ left'[e] = left[e] /\ fd_pos'[e] = fd_pos[e] /\ Bounded(e)
    BY <1>2, Zenon DEF OthersSame, SameCall, Room
  <2>2. /\ i_size[file_of[e]] <= i_size'[file_of[e]] /\ file_of[e] \in File
        /\ i_size[file_of[e]] \in Nat /\ i_size'[file_of[e]] \in Nat /\ fd_pos[e] \in Nat
    <3>1. file_of[e] \in File
      BY Consts, SMT, Z3
    <3>2. i_size[file_of[e]] \in 0 .. Limit - 1 /\ i_size'[file_of[e]] \in 0 .. Limit - 1 /\ fd_pos[e] \in Nat
      BY <3>1, Zenon DEF Typed
    <3>. QED  BY <3>1, <3>2, Consts, SMT, Z3
  <2>3. e \in Writer => i_size'[file_of[e]] = i_size[file_of[e]]
    BY <1>2, <2>2, FileIOAssumption, Zenon
  <2>4. fd_pos[e] <= i_size[file_of[e]] => fd_pos[e] <= i_size'[file_of[e]]
    BY <2>2, Below, Zenon
  <2>. QED  BY <2>1, <2>3, <2>4, Zenon DEF Bounded
<1>. QED  BY <1>1, <1>2, Zenon DEF Room

(* A step that leaves the sizes alone. *)
LEMMA RoomSame ==
  ASSUME Typed, Typed', Room, MaxSize \in Nat, NEW d \in Fd, OthersSame(d),
         i_size' = i_size, Bounded(d)', NoPanic'
  PROVE  Room'
<1>1. \A g \in File : i_size[g] <= i_size'[g] /\ i_size'[g] <= MaxSize
  <2>. SUFFICES ASSUME NEW g \in File  PROVE i_size[g] <= i_size'[g] /\ i_size'[g] <= MaxSize
    OBVIOUS
  <2>1. i_size[g] \in Nat
    BY LastIn
  <2>. QED  BY <2>1 DEF Room
<1>. QED  BY <1>1, RoomFrame, Consts, Zenon

LEMMA RoomUnchanged ==
  ASSUME Room, UNCHANGED vars
  PROVE  Room'
BY Zenon DEF Room, Bounded, NoPanic, vars, inodeVars, localVars

LEMMA RoomSysWrite ==
  ASSUME Counted, Roomy, IInv, IInv', Room, NEW d \in Fd, OthersSame(d),
         NEW count \in WriteCount, sys_write(d, count)
  PROVE  Room'
<1>. DEFINE f == file_of[d]
<1>0. /\ Typed /\ Typed' /\ Exclusive /\ f \in File /\ MaxSize \in Nat /\ NoPanic
      /\ pc[d] = "idle" /\ Bounded(d)
  BY Consts, Zenon DEF IInv, Roomy, Room, sys_write, At
<1>1. CASE UNCHANGED vars
  BY <1>1, RoomUnchanged, Zenon
<1>2. CASE ~(UNCHANGED vars)
  <2>1. /\ d \in Writer /\ ~exceeds_limit(f, count)
        /\ i_size[f] + count \notin MaxSize + 1 .. BLOCK_SIZE * MaxBlocks
    BY <1>2, SMT, Z3 DEF sys_write
  <2>2. ~(i_sectors[f][0] = 0 /\ no_block)
    <3>. SUFFICES ASSUME i_sectors[f][0] = 0
                  PROVE  ~no_block
      BY Zenon
    <3>1. own(d, 0) = 0 /\ 0 \in 0 .. MaxBlocks
      BY Consts, SMT, Z3 DEF own, block_of
    <3>2. place(f, 0) = 0
      BY <2>1, <3>1, PlaceOwn, Zenon
    <3>. QED  BY <1>0, <3>1, <3>2, HasFree, Zenon
  <2>3. /\ i_size' = i_size /\ fd_pos' = fd_pos /\ panic' = panic
        /\ left' = [left EXCEPT ![d] = count] /\ pc' = [pc EXCEPT ![d] = "w_plan"]
    BY <1>0, <1>2, <2>2, SMT, Z3 DEF sys_write, waits, goes_on
  <2>4. left'[d] = count /\ pc'[d] = "w_plan"
    BY <1>0, <2>3, Zenon DEF Typed
  <2>5. i_size[f] \in Nat /\ i_size[f] < Limit /\ fd_pos[d] \in Nat
    BY <1>0, LastIn, Zenon DEF Typed
  <2>6. count \in Nat /\ count # 0 /\ Limit + count < WORD /\ Limit \in Nat /\ WORD \in Nat
    BY Consts, SMT, Z3 DEF Counted, Limit, Roomy
  <2>7. PICK k \in Nat : k = i_size[f] + count
    BY <2>5, <2>6, SMT, Z3
  <2>8. k % WORD = k
    <3>1. k < WORD
      BY <2>5, <2>6, <2>7, SMT, Z3
    <3>. QED  BY <3>1, ModSmall, Zenon
  <2>9. k <= Limit
    BY <2>1, <2>6, <2>7, <2>8, SMT, Z3 DEF exceeds_limit, Limit
  <2>10. k <= MaxSize
    <3>1. k \notin MaxSize + 1 .. Limit
      BY <2>1, <2>7, SMT, Z3 DEF Limit
    <3>. QED  BY <1>0, <2>6, <2>9, <3>1, SMT, Z3
  <2>11. Bounded(d)'
    <3>1. fd_pos[d] <= i_size[f]
      BY <1>0, Zenon DEF Bounded
    <3>. QED  BY <2>3, <2>4, <2>6, <2>7, <2>10, <3>1, Zenon DEF Bounded
  <2>12. NoPanic'
    BY <1>0, <2>3, Zenon DEF NoPanic
  <2>. QED  BY <1>0, <2>3, <2>11, <2>12, RoomSame, Zenon
<1>. QED  BY <1>1, <1>2, SMT, Z3

(* The ASSERTs of file_write() about the blocks that the file has and needs. *)
LEMMA RoomPlan ==
  ASSUME Roomy, IInv, IInv', Room, NEW d \in Writer, OthersSame(d), plan(d)
  PROVE  Room'
<1>. DEFINE f == file_of[d]
            has == has_used_blocks(f)
            will == will_use_blocks(f, left[d])
            new_table == has <= Direct /\ will > Direct
<1>0. /\ Typed /\ Typed' /\ Exclusive /\ d \in Fd /\ f \in File /\ MaxSize \in Nat /\ NoPanic
      /\ pc[d] = "w_plan" /\ Bounded(d) /\ WriterOK(d)
  BY Consts, Zenon DEF IInv, Writers, Roomy, Room, plan, At
<1>1. HasBlocks(f, last(f) + 1) /\ i_size[f] + left[d] < WORD
  BY <1>0, Zenon DEF WriterOK
<1>2. i_size[f] + left[d] <= MaxSize /\ left[d] # 0 /\ fd_pos[d] <= i_size[f]
  BY <1>0, Zenon DEF Bounded, InWrite
<1>3. last(f) \in Index /\ i_size[f] \in Nat /\ left[d] \in Nat
  BY <1>0, LastIn, Zenon DEF Typed
<1>4. has = last(f) + 1
  BY Zenon DEF has_used_blocks, last
<1>5. will <= MaxBlocks
  <2>1. PICK k \in Nat : k = i_size[f] + left[d]
    BY <1>3
  <2>2. k % WORD = k
    BY <1>1, <2>1, ModSmall, Zenon
  <2>3. MaxBlocks - 1 \in Nat
    BY Consts, SMT, Z3
  <2>4. k < BLOCK_SIZE * (MaxBlocks - 1)
    <3>1. BLOCK_SIZE * (MaxBlocks - 1) \in Nat
      BY <2>3, Consts, SMT, Z3
    <3>. QED  BY <1>2, <2>1, <3>1, SMT, Z3 DEF Roomy
  <2>5. k \div BLOCK_SIZE < MaxBlocks - 1 /\ k \div BLOCK_SIZE \in Nat
    BY <2>3, <2>4, DivLimit, DivMod, Zenon
  <2>6. will = k \div BLOCK_SIZE + 1
    BY <2>1, <2>2, SMT, Z3 DEF will_use_blocks
  <2>. HIDE DEF will
  <2>7. PICK q \in Nat : q = k \div BLOCK_SIZE
    BY <2>5, SMT, Z3
  <2>8. q < MaxBlocks - 1 /\ will = q + 1
    BY <2>5, <2>6, <2>7, Zenon
  <2>. QED  BY <2>8, Consts, SMT, Z3
<1>6. i_sectors[f][Table] # 0 <=> has > Direct
  BY <1>1, <1>4, SMT, Z3 DEF HasBlocks
<1>7. has <= Direct => i_sectors[f][has - 1] # 0
  <2>. HAVE has <= Direct
  <2>1. last(f) \in Nat /\ last(f) < Direct /\ has - 1 = last(f)
    BY <1>3, <1>4, Consts, SMT, Z3 DEF Index
  <2>2. block_of(f, last(f)) # 0
    <3>1. last(f) < last(f) + 1
      BY <2>1, SMT, Z3
    <3>. QED  BY <1>1, <1>3, <3>1, Zenon DEF HasBlocks
  <2>. QED  BY <2>1, <2>2, Zenon DEF block_of
<1>8. new_table => ~no_block
  <2>. HAVE new_table
  <2>1. has \in Nat /\ Direct \in Nat
    BY <1>3, <1>4, Consts, SMT, Z3 DEF Index
  <2>2. i_sectors[f][Table] = 0
    <3>1. has <= Direct
      BY Zenon
    <3>. HIDE DEF has
    <3>. QED  BY <1>6, <2>1, <3>1, SMT, Z3
  <2>3. own(d, MaxBlocks) = 0 /\ MaxBlocks \in 0 .. MaxBlocks
    BY <2>2, Consts, SMT, Z3 DEF own
  <2>4. place(f, MaxBlocks) = 0
    BY <2>3, PlaceOwn, Zenon
  <2>. QED  BY <1>0, <2>3, <2>4, HasFree, Zenon
<1>9. /\ i_size' = i_size /\ fd_pos' = fd_pos /\ left' = left /\ panic' = panic
      /\ pc' = [pc EXCEPT ![d] = "w_alloc"]
  <2>1. has \in Nat /\ will \in Int /\ Direct \in Nat /\ MaxBlocks \in Nat
    <3>1. has \in Nat
      BY <1>3, <1>4, SMT, Z3 DEF Index
    <3>2. will \in Int
      <4>1. PICK k \in Nat : k = i_size[f] + left[d]
        BY <1>3
      <4>2. k % WORD = k
        BY <1>1, <4>1, ModSmall, SMT, Z3
      <4>3. will = k \div BLOCK_SIZE + 1
        BY <4>1, <4>2 DEF will_use_blocks
      <4>. QED  BY <4>3, DivMod, SMT, Z3
    <3>. QED  BY <3>1, <3>2, Consts, Zenon
  <2>. DEFINE why == CASE will > MaxBlocks -> "write_limit"
               [] has > Direct /\ i_sectors[f][Table] = 0 -> "no_table"
               [] new_table /\ i_sectors[f][Table] # 0 -> "table_exists"
               [] will <= Direct /\ will > has /\ i_sectors[f][has - 1] = 0 -> "no_last_block"
               [] new_table /\ no_block -> "full"
               [] OTHER -> ""
  <2>2. /\ ~(will > MaxBlocks) /\ ~(has > Direct /\ i_sectors[f][Table] = 0)
        /\ ~(new_table /\ i_sectors[f][Table] # 0)
        /\ ~(will <= Direct /\ will > has /\ i_sectors[f][has - 1] = 0)
        /\ ~(new_table /\ no_block)
    <3>1. ~(new_table /\ no_block)
      BY <1>8, Zenon
    <3>. HIDE DEF has, will
    <3>. QED  BY <1>5, <1>6, <1>7, <2>1, <3>1, SMT, Z3
  <2>3. why = ""
    <3>. HIDE DEF has, will, new_table
    <3>. QED  BY <2>2, SMT, Z3
  <2>4. IF why # "" THEN fails(why)
        ELSE /\ UNCHANGED <<i_size, fd_pos, diskVars, left, io_buf, readVars, panic>>
             /\ IF has > Direct THEN waits(d, "w_alloc") ELSE goes_on(d, "w_alloc")
    BY Zenon DEF plan
  <2>. HIDE DEF why
  <2>. QED  BY <2>3, <2>4, Zenon DEF waits, goes_on
<1>10. pc'[d] = "w_alloc"
  BY <1>0, <1>9, Zenon DEF Typed
<1>11. Bounded(d)'
  BY <1>2, <1>9, <1>10, Zenon DEF Bounded
<1>12. NoPanic'
  BY <1>0, <1>9, Zenon DEF NoPanic
<1>. QED  BY <1>0, <1>9, <1>11, <1>12, RoomSame, Zenon

LEMMA RoomAlloc ==
  ASSUME Roomy, IInv, IInv', Room, NEW d \in Writer, OthersSame(d), alloc(d)
  PROVE  Room'
<1>. DEFINE f == file_of[d]
<1>0. /\ Typed /\ Typed' /\ Exclusive /\ d \in Fd /\ f \in File /\ MaxSize \in Nat /\ NoPanic
      /\ pc[d] = "w_alloc" /\ Bounded(d) /\ Allocating(d) /\ block_idx[d] < will_use[d]
  BY Consts, Zenon DEF IInv, Writers, WriterOK, Roomy, Room, alloc, At
<1>1. PICK i \in Nat : i = block_idx[d]
  BY <1>0, Zenon DEF Typed
<1>2. i < MaxBlocks /\ i \in 0 .. MaxBlocks
  <2>1. will_use[d] \in Nat /\ will_use[d] <= MaxBlocks
    BY <1>0, Zenon DEF Allocating, Planned, Typed
  <2>. QED  BY <1>0, <1>1, <2>1, Consts, SMT, Z3
<1>3. i < Direct => i_sectors[f][i] = 0
  <2>. HAVE i < Direct
  <2>1. i \in 0 .. Direct - 1 /\ ~(i < i)
    BY <1>1, Consts, SMT, Z3
  <2>. QED  BY <1>0, <1>1, <2>1, Zenon DEF Allocating
<1>4. i >= Direct => all_blocks[d][i] = 0
  <2>. HAVE i >= Direct
  <2>1. i \in Direct .. MaxBlocks - 1 /\ ~(i < i)
    BY <1>1, <1>2, Consts, SMT, Z3
  <2>. QED  BY <1>0, <1>1, <2>1, Zenon DEF Allocating
<1>5. own(d, i) = 0
  BY <1>0, <1>1, <1>2, <1>3, <1>4, Consts, SMT, Z3 DEF own, block_of
<1>6. ~no_block
  BY <1>0, <1>2, <1>5, PlaceOwn, HasFree, Zenon
<1>7. /\ i_size' = i_size /\ fd_pos' = fd_pos /\ left' = left /\ panic' = panic
      /\ pc' = [pc EXCEPT ![d] = "w_alloc"]
  BY <1>1, <1>3, <1>6, Zenon DEF alloc, waits
<1>8. pc'[d] = "w_alloc"
  BY <1>0, <1>7, Zenon DEF Typed
<1>9. Bounded(d)'
  BY <1>0, <1>7, <1>8, Zenon DEF Bounded, InWrite
<1>10. NoPanic'
  BY <1>0, <1>7, Zenon DEF NoPanic
<1>. QED  BY <1>0, <1>7, <1>9, <1>10, RoomSame, Zenon

LEMMA RoomWriteNext ==
  ASSUME Counted, Roomy, IInv, IInv', Room, NEW d \in Writer, OthersSame(d), write_next(d)
  PROVE  Room'
<1>. DEFINE f == file_of[d]
            z == i_size[f]
            n == chunk_size(z, left[d])
<1>0. /\ Typed /\ Typed' /\ Positions /\ d \in Fd /\ f \in File /\ MaxSize \in Nat /\ NoPanic
      /\ pc[d] = "w_next" /\ Bounded(d) /\ Writing(d) /\ left[d] # 0
  BY Consts, Zenon DEF IInv, Writers, WriterOK, Roomy, Room, write_next, At
<1>1. z + left[d] <= MaxSize
  BY <1>0, Zenon DEF Bounded, InWrite
<1>2. z \in Nat /\ left[d] \in Nat
  BY <1>0, LastIn, Zenon DEF Typed
<1>3. n \in 1 .. left[d]
  BY <1>0, <1>2, Chunk, Zenon
<1>4. (fd_pos[d] + n) % WORD \in Nat /\ (fd_pos[d] + n) % WORD <= z + n
  BY <1>0, NextFacts, Zenon
<1>5. /\ i_size' = [i_size EXCEPT ![f] = z + n] /\ panic' = panic
      /\ fd_pos' = [fd_pos EXCEPT ![d] = (fd_pos[d] + n) % WORD]
      /\ \/ left[d] = n /\ pc' = [pc EXCEPT ![d] = "idle"] /\ left' = [left EXCEPT ![d] = 0]
         \/ left[d] # n /\ pc' = [pc EXCEPT ![d] = "w_chunk"] /\ left' = [left EXCEPT ![d] = left[d] - n]
  BY Zenon DEF write_next, returns, waits, goes_on
<1>. HIDE DEF n
<1>6. /\ i_size'[f] = z + n /\ fd_pos'[d] = (fd_pos[d] + n) % WORD
      /\ \A g \in File : g # f => i_size'[g] = i_size[g]
      /\ \/ left[d] = n /\ pc'[d] = "idle"
         \/ left[d] # n /\ pc'[d] = "w_chunk" /\ left'[d] = left[d] - n
  BY <1>0, <1>5, Zenon DEF Typed
<1>7. PICK p : p = (fd_pos[d] + n) % WORD
  OBVIOUS
<1>8. p \in Nat /\ p <= z + n /\ fd_pos'[d] = p
  BY <1>4, <1>6, <1>7, Zenon
<1>9. Bounded(d)'
  <2>1. CASE left[d] = n
    BY <1>6, <1>8, <2>1, Zenon DEF Bounded, InWrite
  <2>2. CASE left[d] # n
    <3>1. pc'[d] = "w_chunk" /\ left'[d] = left[d] - n /\ i_size'[f] = z + n
      BY <1>6, <2>2, ZenonT(30)
    <3>2. (z + n) + (left[d] - n) <= MaxSize /\ left[d] - n # 0
      BY <1>0, <1>1, <1>2, <1>3, <2>2, ChunkBelow, Zenon
    <3>. QED  BY <3>1, <3>2, Zenon DEF Bounded
  <2>. QED  BY <2>1, <2>2, Zenon
<1>10. NoPanic'
  BY <1>0, <1>5, Zenon DEF NoPanic
<1>11. i_size'[f] <= MaxSize /\ z <= i_size'[f]
  <2>1. z + n <= MaxSize /\ z <= z + n
    BY <1>0, <1>1, <1>2, <1>3, ChunkBelow, Zenon
  <2>. QED  BY <1>6, <2>1, Zenon
<1>12. \A g \in File : i_size[g] <= i_size'[g]
  <2>1. \A g \in File : i_size[g] \in Nat
    BY <1>0, LastIn, Zenon
  <2>. TAKE g \in File
  <2>2. CASE g = f
    BY <1>11, <2>2, Zenon
  <2>3. CASE g # f
    BY <1>6, <2>1, <2>3, Small, Zenon
  <2>. QED  BY <2>2, <2>3, Zenon
<1>. QED  BY <1>0, <1>6, <1>9, <1>10, <1>11, <1>12, RoomFrame, Zenon

(* The ASSERTs of file_read(): the blocks lie inside the file, and it has a  *)
(* table if they are not all direct.                                        *)
LEMMA RoomSysRead ==
  ASSUME Counted, Roomy, IInv, IInv', Room, NEW d \in Fd, OthersSame(d),
         NEW count \in ReadCount, sys_read(d, count)
  PROVE  Room'
<1>. DEFINE f == file_of[d]
            p == fd_pos[d]
            size == read_size(d, count)
            first == p \div BLOCK_SIZE
            end == ((p + size) % WORD) \div BLOCK_SIZE
<1>0. /\ Typed /\ Typed' /\ Files /\ Writers /\ Positions /\ f \in File /\ MaxSize \in Nat /\ NoPanic
      /\ pc[d] = "idle" /\ Bounded(d) /\ i_size[f] <= MaxSize
  BY Consts, Zenon DEF IInv, Roomy, Room, sys_read, At
<1>1. p \in Nat /\ i_size[f] \in Nat /\ p <= i_size[f]
  BY <1>0, LastIn, Zenon DEF Bounded, Typed
<1>2. MaxBlocks - 1 \in Nat /\ i_size[f] < BLOCK_SIZE * (MaxBlocks - 1)
  <2>1. MaxBlocks - 1 \in Nat
    BY Consts, SMT, Z3
  <2>2. BLOCK_SIZE * (MaxBlocks - 1) \in Nat
    BY <2>1, Consts, SMT, Z3
  <2>. QED  BY <1>0, <1>1, <2>1, <2>2, Below, Zenon DEF Roomy
<1>3. last(f) \in Nat /\ last(f) < MaxBlocks - 1
  BY <1>1, <1>2, DivLimit, DivMod, Zenon DEF last
<1>4. first \in Nat /\ first <= last(f)
  BY <1>1, DivMono, DivMod, Zenon DEF last
<1>5. CASE UNCHANGED vars
  BY <1>5, RoomUnchanged, SMT, Z3
<1>6. CASE ~(UNCHANGED vars)
  <2>1. size # 0
    BY <1>6, Zenon DEF sys_read
  <2>2. size \in Nat /\ p + size <= i_size[f] /\ (p + size) % WORD = p + size
    <3>1. ~(first >= MaxBlocks - 1)
      <4>. HIDE DEF first
      <4>. QED  BY <1>2, <1>3, <1>4, SMT, Z3
    <3>. QED  BY <1>0, <3>1, ReadSize, Zenon
  <2>3. end \in Nat /\ end <= last(f)
    <3>1. PICK k \in Nat : k = p + size
      BY <1>1, <2>2, SMT, Z3
    <3>2. end = k \div BLOCK_SIZE
      BY <2>2, <3>1, Zenon
    <3>3. k <= i_size[f]
      BY <2>2, <3>1, Zenon
    <3>. QED  BY <1>1, <3>2, <3>3, DivMono, DivMod, Zenon DEF last
  <2>4. end >= Direct => i_sectors[f][Table] # 0
    <3>. HAVE end >= Direct
    <3>1. last(f) >= Direct
      <4>1. end >= Direct
        BY Zenon
      <4>. HIDE DEF end
      <4>. QED  BY <1>3, <2>3, <4>1, Consts, SMT, Z3
    <3>2. i_size[f] # 0
      BY <1>1, <2>1, <2>2, SMT, Z3
    <3>3. last(f) \in 0 .. last(f)
      BY <1>3, SMT, Z3
    <3>4. block_of(f, last(f)) # 0
      BY <1>0, <3>2, <3>3, HasItsBlocks, Zenon
    <3>. QED  BY <1>3, <3>1, <3>4, Consts, SMT, Z3 DEF block_of
  <2>. DEFINE why == CASE first >= MaxBlocks - 1 \/ end >= MaxBlocks - 1 -> "read_limit"
                       [] end >= Direct /\ i_sectors[f][Table] = 0 -> "no_table"
                       [] OTHER -> ""
  <2>5. ~(first >= MaxBlocks - 1 \/ end >= MaxBlocks - 1) /\ ~(end >= Direct /\ i_sectors[f][Table] = 0)
    <3>1. ~(end >= Direct /\ i_sectors[f][Table] = 0)
      BY <2>4, Zenon
    <3>. HIDE DEF first, end
    <3>. QED  BY <1>2, <1>3, <1>4, <2>3, <3>1, SMT, Z3
  <2>6. why = ""
    <3>. HIDE DEF first, end
    <3>. QED  BY <2>5, SMT, Z3
  <2>7. IF why # "" THEN fails(why)
        ELSE /\ UNCHANGED <<inodeVars, fd_pos, diskVars, block_idx, will_use, io_buf, panic>>
             /\ IF end >= Direct THEN waits(d, "r_chunk") ELSE goes_on(d, "r_chunk")
    BY <1>6, <2>1, Zenon DEF sys_read
  <2>. HIDE DEF why, first, end, size
  <2>8. i_size' = i_size /\ fd_pos' = fd_pos /\ panic' = panic /\ pc' = [pc EXCEPT ![d] = "r_chunk"]
    BY <2>6, <2>7, Zenon DEF waits, goes_on, inodeVars
  <2>9. pc'[d] = "r_chunk"
    BY <1>0, <2>8, Zenon DEF Typed
  <2>10. Bounded(d)'
    BY <1>1, <2>8, <2>9, Zenon DEF Bounded, InWrite
  <2>11. NoPanic'
    BY <1>0, <2>8, Zenon DEF NoPanic
  <2>. QED  BY <1>0, <2>8, <2>10, <2>11, RoomSame, Zenon
<1>. QED  BY <1>5, <1>6

(* The steps at which no ASSERT is made. *)
LEMMA RoomQuiet ==
  ASSUME Counted, Roomy, IInv, IInv', Room, NEW d \in Fd, OthersSame(d),
         \/ allocated(d) \/ write_first(d) \/ write_chunk(d) \/ read_chunk(d)
         \/ \E o \in Int : \E base : sys_lseek(d, o, base)
  PROVE  Room'
<1>. DEFINE f == file_of[d]
<1>0. /\ Typed /\ Typed' /\ OnlyWriters /\ Readers /\ f \in File /\ MaxSize \in Nat /\ NoPanic
      /\ Bounded(d) /\ i_size[f] \in Nat /\ fd_pos[d] \in Nat /\ left[d] \in Nat
      /\ pc \in [Fd -> Point] /\ fd_pos \in [Fd -> Nat]
  <2>1. /\ Typed /\ Typed' /\ OnlyWriters /\ Readers /\ f \in File /\ MaxSize \in Nat /\ NoPanic
        /\ Bounded(d)
    BY Consts, Zenon DEF IInv, Roomy, Room
  <2>. QED  BY <2>1, LastIn, Zenon DEF Typed
<1>1. i_size' = i_size /\ panic' = panic
  BY Zenon DEF allocated, write_first, write_chunk, read_chunk, sys_lseek, inodeVars, vars
<1>2. NoPanic'
  BY <1>0, <1>1, Zenon DEF NoPanic
<1>3. ASSUME pc[d] \in InWrite
      PROVE  d \in Writer /\ i_size[f] + left[d] <= MaxSize /\ left[d] # 0
  <2>1. d \in Writer
    BY <1>0, <1>3, Zenon DEF OnlyWriters, InWrite
  <2>. QED  BY <1>0, <1>3, <2>1, Zenon DEF Bounded
<1>4. CASE allocated(d)
  <2>1. pc[d] = "w_alloc" /\ pc'[d] = "w_first" /\ left' = left /\ fd_pos' = fd_pos
    BY <1>0, <1>4, Zenon DEF allocated, At, waits, goes_on, localVars
  <2>2. Bounded(d)'
    BY <1>0, <1>1, <1>3, <2>1, Zenon DEF Bounded, InWrite
  <2>. QED  BY <1>0, <1>1, <1>2, <2>2, RoomSame, Zenon
<1>5. CASE write_first(d)
  <2>1. pc[d] = "w_first"
    BY <1>5, Zenon DEF write_first, At
  <2>2. pc'[d] = "w_chunk" /\ left' = left
    BY <1>0, <1>3, <1>5, <2>1, Zenon DEF write_first, waits, InWrite
  <2>3. Bounded(d)'
    BY <1>1, <1>3, <2>1, <2>2, Zenon DEF Bounded, InWrite
  <2>. QED  BY <1>0, <1>1, <1>2, <2>3, RoomSame, Zenon
<1>6. CASE write_chunk(d)
  <2>1. pc[d] = "w_chunk" /\ pc'[d] = "w_next" /\ left' = left
    BY <1>0, <1>6, Zenon DEF write_chunk, At, waits, localVars
  <2>2. Bounded(d)'
    BY <1>1, <1>3, <2>1, Zenon DEF Bounded, InWrite
  <2>. QED  BY <1>0, <1>1, <1>2, <2>2, RoomSame, Zenon
<1>7. CASE read_chunk(d)
  <2>. DEFINE n == chunk_size(fd_pos[d], left[d])
  <2>1. pc[d] = "r_chunk" /\ left[d] # 0 /\ fd_pos[d] + left[d] <= i_size[f]
    BY <1>0, <1>7, Zenon DEF read_chunk, At, Readers, ReaderOK
  <2>2. n \in 1 .. left[d]
    BY <1>0, <2>1, Chunk, Zenon
  <2>3. fd_pos' = [fd_pos EXCEPT ![d] = fd_pos[d] + n] /\ (\E l \in {"idle", "r_chunk"} : pc' = [pc EXCEPT ![d] = l])
    BY <1>7, Zenon DEF read_chunk, returns, waits
  <2>. HIDE DEF n
  <2>4. fd_pos'[d] = fd_pos[d] + n /\ pc'[d] \in {"idle", "r_chunk"}
    BY <1>0, <2>3, Zenon
  <2>5. fd_pos[d] + n <= i_size[f]
    BY <1>0, <2>1, <2>2, ChunkBelow, Zenon
  <2>6. Bounded(d)'
    BY <1>1, <2>4, <2>5, Zenon DEF Bounded, InWrite
  <2>. QED  BY <1>0, <1>1, <1>2, <2>6, RoomSame, Zenon
<1>8. ASSUME NEW o \in Int, NEW base, sys_lseek(d, o, base)
      PROVE  Room'
  <2>1. CASE UNCHANGED vars
    BY <2>1, RoomUnchanged, SMT, Z3
  <2>2. CASE ~(UNCHANGED vars)
    <3>1. o + base \in Int
      <4>1. base = 0 \/ base = fd_pos[d] \/ base = i_size[f]
        BY <1>8, Zenon DEF sys_lseek
      <4>2. base \in Nat
        BY <1>0, <4>1, Small, Zenon
      <4>. QED  BY <4>2, Below, Zenon
    <3>2. /\ o + base <= i_size[f] - 1 /\ fd_pos' = [fd_pos EXCEPT ![d] = o + base]
          /\ pc' = pc /\ pc[d] = "idle"
      BY <1>8, <2>2, Zenon DEF sys_lseek, seek_ok, At
    <3>3. fd_pos'[d] = o + base /\ o + base <= i_size[f]
      BY <1>0, <3>1, <3>2, Below, Zenon
    <3>4. Bounded(d)'
      BY <1>1, <3>2, <3>3, Zenon DEF Bounded, InWrite
    <3>. QED  BY <1>0, <1>1, <1>2, <3>4, RoomSame, Zenon
  <2>. QED  BY <2>1, <2>2, Zenon
<1>. QED  BY <1>4, <1>5, <1>6, <1>7, <1>8, Zenon

LEMMA RoomStep == Counted /\ Roomy /\ IInv /\ IInv' /\ Room /\ [Next]_vars => Room'
<1>. SUFFICES ASSUME Counted, Roomy, IInv, IInv', Room, [Next]_vars
              PROVE  Room'
  OBVIOUS
<1>1. CASE UNCHANGED vars
  BY <1>1, RoomUnchanged, SMT, Z3
<1>2. ASSUME NEW d \in Fd, Call(d) \/ Step(d)
      PROVE  Room'
  <2>0. OthersSame(d)
    BY <1>2, Others, Zenon DEF IInv
  <2>1. CASE \E n \in WriteCount : sys_write(d, n)
    BY <2>0, <2>1, RoomSysWrite, Zenon
  <2>2. CASE \E n \in ReadCount : sys_read(d, n)
    BY <2>0, <2>2, RoomSysRead, SMT, Z3
  <2>3. CASE \E o \in -1 .. 1, base \in {0, fd_pos[d], i_size[file_of[d]]} : sys_lseek(d, o, base)
    <3>1. PICK o \in -1 .. 1, base \in {0, fd_pos[d], i_size[file_of[d]]} : sys_lseek(d, o, base)
      BY <2>3, Zenon
    <3>2. o \in Int
      OBVIOUS
    <3>. QED  BY <2>0, <3>1, <3>2, RoomQuiet, Zenon
  <2>4. CASE allocated(d) \/ write_first(d) \/ write_chunk(d) \/ read_chunk(d)
    BY <2>0, <2>4, RoomQuiet, Zenon
  <2>5. ASSUME pc[d] \in InWrite  PROVE d \in Writer
    BY <2>5, SMT, Z3 DEF IInv, OnlyWriters, InWrite
  <2>6. CASE plan(d)
    BY <2>0, <2>5, <2>6, RoomPlan, Zenon DEF plan, At, InWrite
  <2>7. CASE alloc(d)
    BY <2>0, <2>5, <2>7, RoomAlloc, Zenon DEF alloc, At, InWrite
  <2>8. CASE write_next(d)
    BY <2>0, <2>5, <2>8, RoomWriteNext, Zenon DEF write_next, At, InWrite
  <2>. QED
    BY <1>2, <2>1, <2>2, <2>3, <2>4, <2>6, <2>7, <2>8, Zenon DEF Call, Step
<1>. QED  BY <1>1, <1>2, SMT, Z3 DEF Next

LEMMA RoomInitially == Roomy /\ Init => Room
<1>. SUFFICES ASSUME Roomy, Init
              PROVE  Room
  OBVIOUS
<1>1. NoPanic
  BY Zenon DEF Init, NoPanic
<1>2. i_size = [f \in File |-> 0] /\ fd_pos = [d \in Fd |-> 0] /\ pc = [d \in Fd |-> "idle"]
  BY Zenon DEF Init
<1>3. \A d \in Fd : Bounded(d)
  BY <1>2, Consts, SMT, Z3 DEF Bounded, InWrite
<1>4. \A f \in File : i_size[f] <= MaxSize
  BY <1>2, SMT, Z3 DEF Roomy
<1>. QED  BY <1>1, <1>3, <1>4, Zenon DEF Room

LEMMA RoomAlways == Counted /\ Roomy => (Spec => []Room)
<1>. SUFFICES ASSUME Counted, Roomy
              PROVE  Spec => []Room
  OBVIOUS
<1>1. Init => Room
  BY RoomInitially, SMT, Z3
<1>2. IInv /\ IInv' /\ Room /\ [Next]_vars => Room'
  BY RoomStep
<1>3. Spec => []IInv
  BY FileInvariant
<1>. QED  BY <1>1, <1>2, <1>3, PTL DEF Spec

(* No ASSERT of file_write(), file_read() and block_bitmap_alloc() fails, in  *)
(* any interleaving of the calls: while all files together leave room on the *)
(* partition and each stays a block below the limit of 140, the blocks that  *)
(* a call takes for granted are there and those it allocates are free.      *)
THEOREM FilesNeverPanic == Counted /\ Roomy => (Spec => []NoPanic)
<1>. SUFFICES ASSUME Counted, Roomy
              PROVE  Spec => []NoPanic
  OBVIOUS
<1>1. Room => NoPanic
  BY DEF Room
<1>2. Spec => []Room
  BY RoomAlways, Zenon
<1>. QED  BY <1>1, <1>2, PTL

(* Under the same assumptions every file_write(), file_read() and sys_lseek()  *)
(* leaves fd_pos inside the file or at its end.                             *)
THEOREM PositionsInFile == Counted /\ Roomy => (Spec => []PositionInFile)
<1>. SUFFICES ASSUME Counted, Roomy
              PROVE  Spec => []PositionInFile
  OBVIOUS
<1>1. Room => PositionInFile
  BY DEF Room, Bounded, PositionInFile
<1>2. Spec => []Room
  BY RoomAlways
<1>. QED  BY <1>1, <1>2, PTL
=============================================================================
