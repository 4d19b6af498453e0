------------------------------- MODULE FileIO -------------------------------
(***************************************************************************)
(* file_write(), file_read() (fs/file.c) and sys_write(), sys_read(),      *)
(* sys_lseek() (fs/fs.c) on open files, down to the blocks: the direct     *)
(* blocks and the indirect table of an inode, the block bitmap, and the    *)
(* sectors of the disk.  A system call runs with interrupts off, so others *)
(* run only while it waits for the disk: cpu is the descriptor whose call  *)
(* is running, NONE when none is or all of them wait.                      *)
(*                                                                         *)
(* 12 direct and 128 indirect blocks become Direct and Indirect; an        *)
(* address is the index of the block in the partition, 0 being none.       *)
(***************************************************************************)
EXTENDS Integers, Sequences, FiniteSets, FiniteSetsExt

CONSTANTS
  BLOCK_SIZE, Direct, Indirect,
  File,            (* the inodes                                            *)
  Fd, file_of,     (* open descriptors, and the inode each one refers to    *)
  Writer,          (* descriptors opened with O_WRONLY or O_RDWR            *)
  Reader,          (* descriptors that a run reads from and seeks in        *)
  NBlocks,         (* data blocks 1 .. NBlocks of the partition             *)
  WriteCount, ReadCount,  (* the byte counts that are asked for             *)
  MaxSize,         (* bound: no write takes a file beyond this size         *)
  WORD,            (* the modulus of uint32_t, scaled down                  *)
  NONE

ASSUME FileIOAssumption ==
  /\ BLOCK_SIZE \in Nat \ {0} /\ Direct \in Nat \ {0} /\ Indirect \in Nat \ {0}
  /\ NBlocks \in Nat /\ WORD \in Nat /\ Writer \subseteq Fd /\ Reader \subseteq Fd
  /\ file_of \in [Fd -> File] /\ NONE \notin Fd
  /\ \A d, e \in Writer : file_of[d] = file_of[e] => d = e

VARIABLES
  i_size, i_sectors,       (* the in-memory inode                           *)
  fd_pos,                  (* the position in each struct file              *)
  used,                    (* block_bitmap: the blocks that are allocated   *)
  sector, table,           (* the disk: data sectors, and indirect tables   *)
  cpu, pc,                 (* who runs, and where each call is              *)
  all_blocks, block_idx, will_use, left, io_buf,   (* locals                *)
  from, buf,               (* a read: its first position, the bytes so far  *)
  panic                    (* the ASSERT that failed, "" while none has     *)

inodeVars == <<i_size, i_sectors, used>>
diskVars  == <<sector, table>>
localVars == <<all_blocks, block_idx, will_use, left, io_buf>>
readVars  == <<from, buf>>
vars == <<inodeVars, fd_pos, diskVars, cpu, pc, localVars, readVars, panic>>

MaxBlocks == Direct + Indirect        (* the 140 of the code                *)
Block == 1 .. NBlocks
Table == Direct                       (* the index of i_sectors[12]         *)
ByteOf(f, k) == <<f, k % 3>>          (* the k-th byte written to f         *)
ZERO == <<NONE, 0>>                   (* what a cleared buffer holds        *)
Blank == [o \in 0 .. BLOCK_SIZE - 1 |-> ZERO]
NoBlocks == [i \in 0 .. MaxBlocks - 1 |-> 0]

Runs(d) == cpu \in {NONE, d} /\ panic = ""
At(d, l) == Runs(d) /\ pc[d] = l

(* The call goes on, waits for the disk, or returns: its buffers are freed. *)
goes_on(d, l) == pc' = [pc EXCEPT ![d] = l] /\ cpu' = d
waits(d, l)   == pc' = [pc EXCEPT ![d] = l] /\ cpu' = NONE
returns(d) ==
  /\ waits(d, "idle")
  /\ all_blocks' = [all_blocks EXCEPT ![d] = NoBlocks]
  /\ block_idx' = [block_idx EXCEPT ![d] = 0]
  /\ will_use' = [will_use EXCEPT ![d] = 0]
  /\ left' = [left EXCEPT ![d] = 0]
  /\ io_buf' = [io_buf EXCEPT ![d] = Blank]

fails(why) == panic' = why /\ UNCHANGED <<inodeVars, fd_pos, diskVars, cpu, pc, localVars, readVars>>

(* block_bitmap_alloc(): the lowest clear bit; bitmap_scan() ASSERTs that    *)
(* there is one.                                                            *)
no_block == used = Block
free_block == Min(Block \ used)

Init ==
  /\ i_size = [f \in File |-> 0]
  /\ i_sectors = [f \in File |-> [i \in 0 .. Direct |-> 0]]
  /\ fd_pos = [d \in Fd |-> 0]
  /\ used = {}
  /\ sector = [b \in Block |-> Blank]
  /\ table = [b \in Block |-> [i \in Direct .. MaxBlocks - 1 |-> 0]]
  /\ cpu = NONE
  /\ pc = [d \in Fd |-> "idle"]
  /\ all_blocks = [d \in Fd |-> NoBlocks]
  /\ block_idx = [d \in Fd |-> 0]
  /\ will_use = [d \in Fd |-> 0]
  /\ left = [d \in Fd |-> 0]
  /\ io_buf = [d \in Fd |-> Blank]
  /\ from = [d \in Fd |-> 0]
  /\ buf = [d \in Fd |-> <<>>]
  /\ panic = ""

-----------------------------------------------------------------------------
(* Mutant of exceeds_limit: the check at the top of file_write() is gone. *)
exceeds_limit_never(f, count) == FALSE

exceeds_limit(f, count) == (i_size[f] + count) % WORD > BLOCK_SIZE * MaxBlocks

(* sys_write(), and file_write() up to the first block of an empty file.     *)
(* A descriptor without a write flag, and a size beyond the limit, are       *)
(* answered with -1.                                                        *)
sys_write(d, count) ==
  LET f == file_of[d] IN
  /\ At(d, "idle")
  /\ \/ (d \notin Writer \/ exceeds_limit(f, count)) /\ UNCHANGED vars
     \/ /\ d \in Writer /\ ~exceeds_limit(f, count)
        /\ i_size[f] + count \notin MaxSize + 1 .. BLOCK_SIZE * MaxBlocks
        /\ IF i_sectors[f][0] = 0 /\ no_block
             THEN fails("full")
             ELSE /\ IF i_sectors[f][0] = 0
                       THEN /\ i_sectors' = [i_sectors EXCEPT ![f][0] = free_block]
                            /\ used' = used \cup {free_block}
                            /\ waits(d, "w_plan")
                       ELSE goes_on(d, "w_plan") /\ UNCHANGED <<i_sectors, used>>
                  /\ all_blocks' = [all_blocks EXCEPT ![d] = NoBlocks]
                  /\ left' = [left EXCEPT ![d] = count]
                  /\ UNCHANGED <<i_size, fd_pos, diskVars, block_idx, will_use, io_buf,
                                 readVars, panic>>

has_used_blocks(f) == i_size[f] \div BLOCK_SIZE + 1

(* Mutant of will_use_blocks: rounded up, so that a full last block is not   *)
(* followed by the block that the next write counts on.                     *)
will_use_blocks_rounded(f, count) == (i_size[f] + count + BLOCK_SIZE - 1) \div BLOCK_SIZE

will_use_blocks(f, count) == ((i_size[f] + count) % WORD) \div BLOCK_SIZE + 1

(* The addresses of the blocks in use that this write may touch: the last    *)
(* one when it is direct, else the whole table, read from the disk.         *)
collected(d) ==
  LET f == file_of[d]
      last == has_used_blocks(f) - 1
  IN  [i \in 0 .. MaxBlocks - 1 |->
         IF has_used_blocks(f) <= Direct
           THEN IF i = last THEN i_sectors[f][i] ELSE 0
           ELSE IF i >= Direct THEN table[i_sectors[f][Table]][i] ELSE 0]

(* file_write(): how many blocks the file has and will need, and the ASSERTs *)
(* about them.  In the second situation the table is allocated here.        *)
plan(d) ==
  LET f    == file_of[d]
      has  == has_used_blocks(f)
      will == will_use_blocks(f, left[d])
      new_table == has <= Direct /\ will > Direct
      why == CASE will > MaxBlocks -> "write_limit"
               [] has > Direct /\ i_sectors[f][Table] = 0 -> "no_table"
               [] new_table /\ i_sectors[f][Table] # 0 -> "table_exists"
               [] will <= Direct /\ will > has /\ i_sectors[f][has - 1] = 0 -> "no_last_block"
               [] new_table /\ no_block -> "full"
               [] OTHER -> ""
  IN
  /\ At(d, "w_plan")
  /\ IF why # "" THEN fails(why)
     ELSE /\ all_blocks' = [all_blocks EXCEPT ![d] = collected(d)]
          /\ block_idx' = [block_idx EXCEPT ![d] = has]
          /\ will_use' = [will_use EXCEPT ![d] = will]
          /\ i_sectors' = IF new_table THEN [i_sectors EXCEPT ![f][Table] = free_block]
                          ELSE i_sectors
          /\ used' = IF new_table THEN used \cup {free_block} ELSE used
          /\ IF has > Direct THEN waits(d, "w_alloc") ELSE goes_on(d, "w_alloc")
          /\ UNCHANGED <<i_size, fd_pos, diskVars, left, io_buf, readVars, panic>>

(* Mutant of alloc: a block is recorded in the inode or the table only, and  *)
(* its bit in block_bitmap is not set.                                      *)
alloc_unmarked(d) ==
  LET f == file_of[d]
      i == block_idx[d]
  IN
  /\ At(d, "w_alloc") /\ i < will_use[d]
  /\ ~no_block
  /\ i_sectors' = IF i < Direct THEN [i_sectors EXCEPT ![f][i] = free_block] ELSE i_sectors
  /\ all_blocks' = [all_blocks EXCEPT ![d][i] = free_block]
  /\ block_idx' = [block_idx EXCEPT ![d] = i + 1]
  /\ waits(d, "w_alloc")
  /\ UNCHANGED <<i_size, used, fd_pos, diskVars, will_use, left, io_buf, readVars, panic>>

(* The loops that allocate the blocks that are missing: one block, and the   *)
(* block bitmap is written to the disk.                                     *)
alloc(d) ==
  LET f == file_of[d]
      i == block_idx[d]
  IN
  /\ At(d, "w_alloc") /\ i < will_use[d]
  /\ IF no_block THEN fails("full")
     ELSE IF i < Direct /\ i_sectors[f][i] # 0 THEN fails("block_exists")
     ELSE /\ used' = used \cup {free_block}
          /\ i_sectors' = IF i < Direct THEN [i_sectors EXCEPT ![f][i] = free_block]
                          ELSE i_sectors
          /\ all_blocks' = [all_blocks EXCEPT ![d][i] = free_block]
          /\ block_idx' = [block_idx EXCEPT ![d] = i + 1]
          /\ waits(d, "w_alloc")
          /\ UNCHANGED <<i_size, fd_pos, diskVars, will_use, left, io_buf, readVars, panic>>

(* The end of the loops: a table that has new entries is written to disk. *)
allocated(d) ==
  LET f == file_of[d]
      write_table == will_use[d] > Direct /\ will_use[d] > has_used_blocks(f)
  IN
  /\ At(d, "w_alloc") /\ block_idx[d] >= will_use[d]
  /\ table' = IF write_table
                THEN [table EXCEPT ![i_sectors[f][Table]] =
                        [i \in Direct .. MaxBlocks - 1 |-> all_blocks[d][i]]]
                ELSE table
  /\ IF write_table THEN waits(d, "w_first") ELSE goes_on(d, "w_first")
  /\ UNCHANGED <<inodeVars, fd_pos, sector, localVars, readVars, panic>>

-----------------------------------------------------------------------------
chunk_size(pos, size_left) == Min({size_left, BLOCK_SIZE - (pos % BLOCK_SIZE)})

(* Mutant of write_first: the sector is not read before it is written. *)
write_first_blank(d) ==
  /\ At(d, "w_first")
  /\ fd_pos' = [fd_pos EXCEPT ![d] = (i_size[file_of[d]] - 1) % WORD]
  /\ IF left[d] = 0 THEN returns(d) ELSE waits(d, "w_chunk") /\ UNCHANGED localVars
  /\ UNCHANGED <<inodeVars, diskVars, readVars, panic>>

(* The position becomes i_size - 1 in uint32_t.  The data loop starts with   *)
(* the sector that has room left: it is read so that what is in it survives. *)
write_first(d) ==
  LET f == file_of[d] IN
  /\ At(d, "w_first")
  /\ fd_pos' = [fd_pos EXCEPT ![d] = (i_size[f] - 1) % WORD]
  /\ IF left[d] = 0
       THEN returns(d)
       ELSE /\ io_buf' = [io_buf EXCEPT
                 ![d] = sector[all_blocks[d][i_size[f] \div BLOCK_SIZE]]]
            /\ waits(d, "w_chunk")
            /\ UNCHANGED <<all_blocks, block_idx, will_use, left>>
  /\ UNCHANGED <<inodeVars, diskVars, readVars, panic>>

(* memcpy() into the buffer, and the sector is written. *)
write_chunk(d) ==
  LET f == file_of[d]
      off == i_size[f] % BLOCK_SIZE
      n == chunk_size(i_size[f], left[d])
  IN
  /\ At(d, "w_chunk")
  /\ sector' = [sector EXCEPT ![all_blocks[d][i_size[f] \div BLOCK_SIZE]] =
       [o \in 0 .. BLOCK_SIZE - 1 |->
          IF o \in off .. off + n - 1 THEN ByteOf(f, i_size[f] + o - off) ELSE io_buf[d][o]]]
  /\ waits(d, "w_next")
  /\ UNCHANGED <<inodeVars, fd_pos, table, localVars, readVars, panic>>

(* The disk has the sector: size and position advance, and either the next   *)
(* sector is prepared in a cleared buffer or the inode is written and the    *)
(* call returns.                                                            *)
write_next(d) ==
  LET f == file_of[d]
      n == chunk_size(i_size[f], left[d])
  IN
  /\ At(d, "w_next")
  /\ i_size' = [i_size EXCEPT ![f] = @ + n]
  /\ fd_pos' = [fd_pos EXCEPT ![d] = (@ + n) % WORD]
  /\ IF left[d] = n THEN returns(d)
     ELSE /\ left' = [left EXCEPT ![d] = @ - n]
          /\ io_buf' = [io_buf EXCEPT ![d] = Blank]
          /\ goes_on(d, "w_chunk")
          /\ UNCHANGED <<all_blocks, block_idx, will_use>>
  /\ UNCHANGED <<i_sectors, used, diskVars, readVars, panic>>

-----------------------------------------------------------------------------
(* What file_read() will read: all that is asked for, or what is left of the *)
(* file behind the position, computed in uint32_t.                          *)
read_size(d, count) ==
  LET f == file_of[d]
  IN  IF (fd_pos[d] + count) % WORD > i_size[f] THEN (i_size[f] - fd_pos[d]) % WORD ELSE count

(* sys_read() and file_read() up to the data loop: the answer is -1 at the   *)
(* end of the file; else the addresses of the sectors are collected, and     *)
(* the table is read from the disk if the end is not in a direct block.     *)
sys_read(d, count) ==
  LET f == file_of[d]
      size == read_size(d, count)
      first == fd_pos[d] \div BLOCK_SIZE
      last == ((fd_pos[d] + size) % WORD) \div BLOCK_SIZE
      why == CASE first >= MaxBlocks - 1 \/ last >= MaxBlocks - 1 -> "read_limit"
               [] last >= Direct /\ i_sectors[f][Table] = 0 -> "no_table"
               [] OTHER -> ""
  IN
  /\ At(d, "idle")
  /\ \/ size = 0 /\ UNCHANGED vars
     \/ /\ size # 0
        /\ IF why # "" THEN fails(why)
           ELSE /\ all_blocks' = [all_blocks EXCEPT ![d] =
                     [i \in 0 .. MaxBlocks - 1 |->
                        IF i < Direct /\ i \in first .. last THEN i_sectors[f][i]
                        ELSE IF i >= Direct /\ last >= Direct
                               THEN table[i_sectors[f][Table]][i]
                        ELSE 0]]
                /\ left' = [left EXCEPT ![d] = size]
                /\ from' = [from EXCEPT ![d] = fd_pos[d]]
                /\ buf' = [buf EXCEPT ![d] = <<>>]
                /\ IF last >= Direct THEN waits(d, "r_chunk") ELSE goes_on(d, "r_chunk")
                /\ UNCHANGED <<inodeVars, fd_pos, diskVars, block_idx, will_use, io_buf, panic>>

(* Mutant of read_chunk: the bytes are taken from the start of the sector. *)
read_chunk_no_offset(d) ==
  LET n == chunk_size(fd_pos[d], left[d])
      s == sector[all_blocks[d][fd_pos[d] \div BLOCK_SIZE]]
  IN
  /\ At(d, "r_chunk")
  /\ buf' = [buf EXCEPT ![d] = @ \o [i \in 1 .. n |-> s[i - 1]]]
  /\ fd_pos' = [fd_pos EXCEPT ![d] = @ + n]
  /\ IF left[d] = n THEN returns(d)
     ELSE /\ left' = [left EXCEPT ![d] = @ - n]
          /\ waits(d, "r_chunk")
          /\ UNCHANGED <<all_blocks, block_idx, will_use, io_buf>>
  /\ UNCHANGED <<inodeVars, diskVars, from, panic>>

(* One sector of the data loop; the call returns after the last one. *)
read_chunk(d) ==
  LET n == chunk_size(fd_pos[d], left[d])
      off == fd_pos[d] % BLOCK_SIZE
      s == sector[all_blocks[d][fd_pos[d] \div BLOCK_SIZE]]
  IN
  /\ At(d, "r_chunk")
  /\ buf' = [buf EXCEPT ![d] = @ \o [i \in 1 .. n |-> s[off + i - 1]]]
  /\ fd_pos' = [fd_pos EXCEPT ![d] = @ + n]
  /\ IF left[d] = n THEN returns(d)
     ELSE /\ left' = [left EXCEPT ![d] = @ - n]
          /\ waits(d, "r_chunk")
          /\ UNCHANGED <<all_blocks, block_idx, will_use, io_buf>>
  /\ UNCHANGED <<inodeVars, diskVars, from, panic>>

seek_ok(pos, size) == pos >= 0 /\ pos <= size - 1

(* sys_lseek(): a position outside the file is answered with -1. *)
sys_lseek(d, offset, base) ==
  LET f == file_of[d]
      new_pos == offset + base
  IN
  /\ At(d, "idle")
  /\ base \in {0, fd_pos[d], i_size[f]}         (* SEEK_SET, SEEK_CUR, SEEK_END *)
  /\ \/ ~seek_ok(new_pos, i_size[f]) /\ UNCHANGED vars
     \/ /\ seek_ok(new_pos, i_size[f])
        /\ fd_pos' = [fd_pos EXCEPT ![d] = new_pos]
        /\ UNCHANGED <<inodeVars, diskVars, cpu, pc, localVars, readVars, panic>>

Call(d) ==
  \/ \E n \in WriteCount : sys_write(d, n)
  \/ \E n \in ReadCount : d \in Reader /\ sys_read(d, n)
  \/ d \in Reader /\ \E o \in -1 .. 1, base \in {0, fd_pos[d], i_size[file_of[d]]} : sys_lseek(d, o, base)

Step(d) ==
  \/ plan(d) \/ alloc(d) \/ allocated(d)
  \/ write_first(d) \/ write_chunk(d) \/ write_next(d)
  \/ read_chunk(d)

Next == \E d \in Fd : Call(d) \/ Step(d)

Spec == Init /\ [][Next]_vars
-----------------------------------------------------------------------------
TypeOK ==
  /\ i_size \in [File -> 0 .. BLOCK_SIZE * MaxBlocks]
  /\ i_sectors \in [File -> [0 .. Direct -> {0} \cup Block]]
  /\ fd_pos \in [Fd -> 0 .. WORD - 1]
  /\ used \subseteq Block
  /\ cpu \in Fd \cup {NONE}
  /\ pc \in [Fd -> {"idle", "w_plan", "w_alloc", "w_first", "w_chunk", "w_next", "r_chunk"}]

(* The ASSERTs of file_write() and file_read() hold, and no block runs out,  *)
(* for sizes below the bound of the run.                                    *)
NoPanic == panic = ""

(* The address of block i of a file as inode and table on disk give it. *)
block_of(f, i) ==
  IF i < Direct THEN i_sectors[f][i]
  ELSE IF i_sectors[f][Table] = 0 THEN 0 ELSE table[i_sectors[f][Table]][i]

owned(f) ==
  ({block_of(f, i) : i \in 0 .. MaxBlocks - 1} \cup {i_sectors[f][Table]}) \ {0}

(* A block belongs to at most one file and has one place in it, and every    *)
(* block that an inode or a table refers to is marked in block_bitmap, also  *)
(* while other calls allocate blocks in between.                            *)
BlocksExclusive ==
  /\ \A f \in File :
       /\ owned(f) \subseteq used
       /\ \A i, j \in 0 .. MaxBlocks - 1 :
            i # j /\ block_of(f, i) # 0 => block_of(f, i) # block_of(f, j)
       /\ \A i \in 0 .. MaxBlocks - 1 : block_of(f, i) # 0 => block_of(f, i) # i_sectors[f][Table]
  /\ \A f, g \in File : f # g => owned(f) \cap owned(g) = {}

Quiet(f) == \A d \in Writer : file_of[d] = f => pc[d] = "idle"

(* Between the writes a file that has been written to has exactly the blocks *)
(* 0 .. i_size / BLOCK_SIZE (one more than its bytes need when the last one  *)
(* is full), and the table exactly if these are not all direct.  So no block *)
(* is lost, and the next write finds the block it takes for granted.        *)
SizeHasBlocks ==
  \A f \in File : Quiet(f) /\ i_sectors[f][0] # 0 =>
    /\ {i \in 0 .. MaxBlocks - 1 : block_of(f, i) # 0} = 0 .. i_size[f] \div BLOCK_SIZE
    /\ i_sectors[f][Table] # 0 <=> i_size[f] \div BLOCK_SIZE >= Direct

(* What a read has copied so far are the bytes of the file from the position *)
(* at which it started, while another descriptor writes to the same file.   *)
ReadCorrect ==
  \A d \in Fd : \A i \in 1 .. Len(buf[d]) : buf[d][i] = ByteOf(file_of[d], from[d] + i - 1)

(* No call leaves a position behind the end of the file.  struct file says   *)
(* more ("以 0 为起始, 最大为文件大小 - 1"), and a write of zero bytes to an empty    *)
(* file does less.                                                          *)
PositionInFile == \A d \in Fd : pc[d] = "idle" => fd_pos[d] <= i_size[file_of[d]]

(* Every file refines the abstract append-only file: the bytes found through *)
(* inode, table and sectors are those that were written, in their order.    *)
Abstract == INSTANCE AppendFile WITH
  Byte <- ByteOf,
  contents <- [f \in File |-> [k \in 1 .. i_size[f] |->
                 sector[block_of(f, (k - 1) \div BLOCK_SIZE)][(k - 1) % BLOCK_SIZE]]]

FileRefinesAppend == Abstract!Spec

(* "文件目前最大只支持 512*140=71680 字节" (file_write): a write that takes the   *)
(* file to the limit and not beyond it is carried out.                      *)
WriteUpToLimit == panic # "write_limit"

(* "从文件 file 中读取 count 个字节写入 buf, 返回读出的字节数, 若到文件尾则返回 -1"       *)
(* (file_read): a file that file_write() could write can be read.           *)
ReadWhatWasWritten == panic # "read_limit"
=============================================================================
