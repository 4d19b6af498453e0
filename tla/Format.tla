------------------------------- MODULE Format -------------------------------
(***************************************************************************)
(* Where partition_format() (fs/fs.c) puts the parts of a file system, and  *)
(* how inode_locate() (fs/inode.c) and bitmap_sync() (fs/file.c) find them  *)
(* again.  Sectors are counted from the start of the partition; sizes are   *)
(* in bytes of a sector scaled down to SECTOR_SIZE.                        *)
(***************************************************************************)
EXTENDS Naturals

CONSTANTS
  SECTOR_SIZE,          (* 512 *)
  BITS_PER_SECTOR,      (* 4096: the bits of a bitmap in one sector *)
  MAX_FILES_PER_PART,   (* 4096: the inodes of a partition *)
  inode_size            (* sizeof(struct inode): 76 *)

ASSUME FormatAssumption ==
  /\ SECTOR_SIZE \in Nat \ {0} /\ BITS_PER_SECTOR \in Nat \ {0}
  /\ MAX_FILES_PER_PART \in Nat \ {0} /\ inode_size \in 1 .. SECTOR_SIZE

(* 8: the bits of a byte *)
BITS_PER_BYTE == BITS_PER_SECTOR \div SECTOR_SIZE

DIV_ROUND_UP(x, step) == (x + step - 1) \div step

inode_bitmap_sects == DIV_ROUND_UP(MAX_FILES_PER_PART, BITS_PER_SECTOR)
inode_table_sects == DIV_ROUND_UP(inode_size * MAX_FILES_PER_PART, SECTOR_SIZE)
used_sects == 1 + 1 + inode_bitmap_sects + inode_table_sects

(* block_bitmap_bit_len: the blocks that remain once a bitmap for all free   *)
(* sectors has been set aside.                                              *)
bit_len(sec_cnt) ==
  LET free_sects == sec_cnt - used_sects
  IN  free_sects - DIV_ROUND_UP(free_sects, BITS_PER_SECTOR)

(* The superblock: block bitmap, inode bitmap, inode table and data follow   *)
(* each other behind the boot sector and the superblock itself.             *)
super_block(sec_cnt) ==
  LET bb == DIV_ROUND_UP(bit_len(sec_cnt), BITS_PER_SECTOR)
  IN  [block_bitmap_lba |-> 2, block_bitmap_sects |-> bb,
       inode_bitmap_lba |-> 2 + bb, inode_table_lba |-> 2 + bb + inode_bitmap_sects,
       data_start_lba |-> 2 + bb + inode_bitmap_sects + inode_table_sects]

(* Mutant of initial_bitmap: the bits behind the last block stay clear. *)
initial_bitmap_open(sec_cnt) == {0}

(* The block bitmap of an empty file system: bit 0 is set for the root        *)
(* directory, then the bytes from block_bitmap_last_byte to the end of the    *)
(* sector, then the bits of that byte that stand for a block are cleared: bit *)
(* 0 among them if it is the first byte.                                    *)
initial_bitmap(sec_cnt) ==
  LET last_byte == bit_len(sec_cnt) \div BITS_PER_BYTE
  IN  (IF last_byte = 0 THEN {} ELSE {0})
      \cup bit_len(sec_cnt) .. (super_block(sec_cnt).block_bitmap_sects * BITS_PER_SECTOR - 1)

(* inode_locate(): the sectors that hold an inode. *)
inode_locate(sb, inode_no) ==
  LET off_size == inode_no * inode_size
      sec_lba == sb.inode_table_lba + off_size \div SECTOR_SIZE
      two_sec == SECTOR_SIZE - (off_size % SECTOR_SIZE) < inode_size
  IN  IF two_sec THEN {sec_lba, sec_lba + 1} ELSE {sec_lba}

-----------------------------------------------------------------------------
(* The parts that partition_format() lays out stay apart: a bit of a bitmap   *)
(* lies in the sectors of that bitmap, the bytes of an inode in the sectors   *)
(* that inode_locate() gives, these in the inode table, and the blocks that   *)
(* can be handed out behind it, inside the partition.                       *)
LayoutSound(sec_cnt) ==
  LET s == super_block(sec_cnt)
      bits == 0 .. (s.block_bitmap_sects * BITS_PER_SECTOR - 1)
      inodes == 0 .. MAX_FILES_PER_PART - 1
  IN
  /\ s.block_bitmap_lba = 2
  /\ \A b \in bits :
       s.block_bitmap_lba + b \div BITS_PER_SECTOR \in 2 .. s.inode_bitmap_lba - 1
  /\ \A i \in inodes :
       /\ s.inode_bitmap_lba + i \div BITS_PER_SECTOR
            \in s.inode_bitmap_lba .. s.inode_table_lba - 1
       /\ inode_locate(s, i) \subseteq s.inode_table_lba .. s.data_start_lba - 1
       /\ \A k \in 0 .. inode_size - 1 :
            s.inode_table_lba + (i * inode_size + k) \div SECTOR_SIZE \in inode_locate(s, i)
  /\ \A b \in (bits \ initial_bitmap(sec_cnt)) \cup {0} :
       s.data_start_lba + b \in s.data_start_lba .. sec_cnt - 1
=============================================================================
