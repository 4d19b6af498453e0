------------------------------ MODULE FsCrash ------------------------------
(***************************************************************************)
(* The file system on a disk whose machine may stop at any time: the order  *)
(* in which filesys_init(), partition_format() (fs/fs.c), file_create(),    *)
(* file_write() (fs/file.c), sys_unlink(), sys_mkdir(), sys_rmdir() write   *)
(* sectors, and what mount_partition() finds after a restart.  Nothing is    *)
(* cached but the two bitmaps and the inode of the root directory.          *)
(*                                                                         *)
(* One process calls; a step writes one sector, but for the regions that      *)
(* partition_format() writes at once.  All files are in the root directory,   *)
(* whose entries fit its first block.  A file is opened for each write and    *)
(* closed behind it, and its size is in blocks.  The words of an inode are    *)
(* i_no, i_size and i_sectors, in this order.                                *)
(***************************************************************************)
EXTENDS Format, Integers, Sequences, FiniteSets, SequencesExt

CONSTANTS
  Name,              (* the names in the root directory                     *)
  SecCnt,            (* the sizes of the partition that are tried, sectors  *)
  Direct, Indirect,  (* 12 direct blocks and 128 in the indirect table      *)
  U8,                (* 256: the inode numbers inode_sync() can tell apart  *)
  Count, MaxSize,    (* bounds: the blocks of one write and of a file,      *)
  MaxCrashes         (* and the number of crashes                           *)

ASSUME FsCrashAssumption ==
  /\ Direct \in Nat \ {0} /\ Indirect \in Nat \ {0} /\ U8 \in Nat \ {0}
  /\ inode_size = Direct + 3
  /\ MaxSize < Direct + Indirect /\ Count \subseteq 1 .. MaxSize /\ MaxCrashes \in Nat
  /\ \A n \in SecCnt : n > used_sects + 2

VARIABLES
  sec_cnt,   (* part->sec_cnt                                               *)
  disk,      (* superblock present, bitmaps, inode table, other sectors     *)
  up,        (* the partition is mounted, and then in memory:               *)
  block_bitmap, inode_bitmap, root_dir,
  call,      (* the system call in progress                                 *)
  todo,      (* the sectors it has still to write                           *)
  crashes,   (* ghost: how often the machine has stopped                    *)
  damaged    (* ghost: and one of them left something inconsistent          *)

memVars == <<up, block_bitmap, inode_bitmap, root_dir>>
vars == <<sec_cnt, disk, memVars, call, todo, crashes, damaged>>

sb == super_block(sec_cnt)
Inode == 0 .. MAX_FILES_PER_PART - 1
Bits == 0 .. (sb.block_bitmap_sects * BITS_PER_SECTOR - 1)
lba(bit) == sb.data_start_lba + bit
bit(addr) == addr - sb.data_start_lba
Sector(b) == {k \in Bits : k \div BITS_PER_SECTOR = b \div BITS_PER_SECTOR}

(* A cleared inode is all zeros, its number included; so is a cleared sector. *)
Table == Direct            (* i_sectors[12]                                 *)
InTable == -1              (* stands for it among the positions of blocks    *)
NoInode == [i_no |-> 0, i_size |-> 0, i_sectors |-> [k \in 0 .. Direct |-> 0]]
Zero == [kind |-> "zero"]
NoEntry == [i_no |-> 0, f_type |-> "FT_UNKNOWN"]
Entries(e) == [kind |-> "dir", entry |-> e]
Data(n, k) == [kind |-> "data", of |-> <<n, k>>]
BlockTable(t) == [kind |-> "table", addr |-> t]

entries(d, addr) ==
  IF d.sec[addr].kind = "dir" THEN d.sec[addr].entry ELSE [n \in Name |-> NoEntry]
table(d, addr) ==
  IF d.sec[addr].kind = "table" THEN d.sec[addr].addr
  ELSE [k \in Direct .. Direct + Indirect - 1 |-> 0]

(* The address of block k of an inode, 0 if it has none. *)
block_of(d, i, k) ==
  IF k < Direct THEN i.i_sectors[k]
  ELSE IF i.i_sectors[Table] = 0 THEN 0 ELSE table(d, i.i_sectors[Table])[k]

blocks(d, i) ==
  ({block_of(d, i, k) : k \in 0 .. Direct + Indirect - 1} \cup {i.i_sectors[Table]}) \ {0}

-----------------------------------------------------------------------------
(* What is under a name on the disk. *)
Absent == [kind |-> "absent", data |-> <<>>]
File(i_data) == [kind |-> "file", data |-> i_data]
Dir == [kind |-> "dir", data |-> <<>>]

found(d, n) == entries(d, d.inode[0].i_sectors[0])[n]

under(d, n) ==
  LET e == found(d, n)
      i == d.inode[e.i_no]
  IN  CASE e.f_type = "FT_REGULAR" ->
             File([k \in 1 .. i.i_size |-> d.sec[block_of(d, i, k - 1)]])
        [] e.f_type = "FT_DIRECTORY" ->
             IF d.sec[i.i_sectors[0]].kind = "dir" THEN Dir ELSE Absent
        [] OTHER -> Absent

visible(d) == [n \in Name |-> under(d, n)]

-----------------------------------------------------------------------------
(* The writes of one sector each, and what they do to the disk. *)
write(where, at, what) == [where |-> where, at |-> at, what |-> what]

(* An inode of which only some words have been written. *)
written(old, new, words) ==
  [i_no |-> IF 0 \in words THEN new.i_no ELSE old.i_no,
   i_size |-> IF 1 \in words THEN new.i_size ELSE old.i_size,
   i_sectors |-> [k \in 0 .. Direct |->
                    IF k + 2 \in words THEN new.i_sectors[k] ELSE old.i_sectors[k]]]

apply(d, w) ==
  CASE w.where = "super"        -> [d EXCEPT !.magic = TRUE]
    [] w.where = "block_bitmap" -> [d EXCEPT !.bbits = (@ \ w.at) \cup w.what]
    [] w.where = "inode_bitmap" -> [d EXCEPT !.ibits = w.what]
    [] w.where = "inode_table"  -> [d EXCEPT !.inode = w.what]
    [] w.where = "inode"        -> [d EXCEPT !.inode[w.at] = written(@, w.what.inode, w.what.words)]
    [] w.where = "sector"       -> [d EXCEPT !.sec[w.at] = w.what]

(* bitmap_sync(): the sector of the bitmap that has bit b. *)
block_bitmap_sync(b, bits) == write("block_bitmap", Sector(b), bits \cap Sector(b))
inode_bitmap_sync(bits) == write("inode_bitmap", 0, bits)

(* The words of an inode that lie in its first sector, and an inode whose     *)
(* size and block addresses do not lie in one sector.                       *)
left_in_sec(no) == SECTOR_SIZE - ((no * inode_size) % SECTOR_SIZE)
splits(no) == left_in_sec(no) \in 2 .. inode_size - 1

(* The one or two sectors of an inode, in the order of ide_write(). *)
write_inode(no, i) ==
  LET part(words) == write("inode", no, [inode |-> i, words |-> words])
      left == left_in_sec(no)
  IN  IF left < inode_size THEN <<part(0 .. left - 1), part(left .. inode_size - 1)>>
                           ELSE <<part(0 .. inode_size - 1)>>

(* inode_sync(): the number passes through a uint8_t. *)
inode_sync(i) == write_inode(i.i_no % U8, i)
inode_delete(no) == write_inode(no, NoInode)

NoCall == [op |-> "none", name |-> "none", after |-> Absent, panics |-> FALSE]

Init ==
  /\ sec_cnt \in SecCnt
  /\ disk = [magic |-> FALSE, bbits |-> {}, ibits |-> {}, inode |-> [i \in Inode |-> NoInode],
             sec |-> [a \in 0 .. sec_cnt + BITS_PER_SECTOR |-> Zero]]
  /\ up = FALSE /\ block_bitmap = {} /\ inode_bitmap = {} /\ root_dir = NoInode
  /\ call = NoCall /\ todo = <<>>
  /\ crashes = 0 /\ damaged = FALSE

begin(op, name, after, panics, writes) ==
  /\ call' = [op |-> op, name |-> name, after |-> after, panics |-> panics]
  /\ todo' = writes

(* The system runs and no call is in progress. *)
Ready == up /\ call.op = "none"

(* partition_format(), in the order of its five writes. *)
format_writes ==
  LET root == [NoInode EXCEPT !.i_size = 2, !.i_sectors[0] = sb.data_start_lba]
  IN  << write("super", 0, 0),
         write("block_bitmap", Bits, initial_bitmap(sec_cnt)),
         inode_bitmap_sync({0}),
         write("inode_table", 0, [i \in Inode |-> IF i = 0 THEN root ELSE NoInode]),
         write("sector", sb.data_start_lba, Entries([n \in Name |-> NoEntry])) >>

(* mount_partition() and open_root_dir(): bitmaps and root inode are read. *)
mount_partition ==
  /\ up' = TRUE
  /\ block_bitmap' = disk.bbits
  /\ inode_bitmap' = disk.ibits
  /\ root_dir' = disk.inode[0]

(* filesys_init(): a partition with the magic number is mounted, any other   *)
(* one is formatted first.                                                  *)
filesys_init ==
  /\ ~up /\ call.op = "none"
  /\ IF disk.magic
       THEN mount_partition /\ UNCHANGED <<call, todo>>
       ELSE begin("format", "none", Absent, FALSE, format_writes) /\ UNCHANGED memVars
  /\ UNCHANGED <<sec_cnt, disk, crashes, damaged>>

-----------------------------------------------------------------------------
dir_block == root_dir.i_sectors[0]
dir_entries == entries(disk, dir_block)

(* sync_dir_entry() and the inode_sync() of the parent behind it, and the    *)
(* same for delete_dir_entry().                                             *)
set_entry(n, entry) ==
  write("sector", dir_block, Entries([dir_entries EXCEPT ![n] = entry]))

(* Bits are handed out from the lowest; the writes of a call that needs more *)
(* than there are end where bitmap_scan() fails its ASSERT.                 *)
free_bits == SetToSortSeq(Bits \ block_bitmap, <)
first_free_inode == CHOOSE i \in Inode \ inode_bitmap : \A j \in Inode \ inode_bitmap : i <= j

(* Entry, parent, new inode and inode bitmap, in this order. *)
create_writes(n, i, parent, inode, f_type) ==
  <<set_entry(n, [i_no |-> i, f_type |-> f_type])>> \o inode_sync(parent) \o inode_sync(inode)
  \o <<inode_bitmap_sync(inode_bitmap \cup {i})>>

(* sys_open() with O_CREAT of a name that is not there: file_create(). *)
file_create(n) ==
  LET i == first_free_inode
      parent == [root_dir EXCEPT !.i_size = @ + 1]
  IN
  /\ Ready /\ dir_entries[n].i_no = 0
  /\ IF Inode \subseteq inode_bitmap
       THEN begin("create", n, Absent, TRUE, <<>>) /\ UNCHANGED memVars
       ELSE /\ begin("create", n, File(<<>>), FALSE,
                     create_writes(n, i, parent, [NoInode EXCEPT !.i_no = i], "FT_REGULAR"))
            /\ inode_bitmap' = inode_bitmap \cup {i}
            /\ root_dir' = parent
            /\ UNCHANGED <<up, block_bitmap>>
  /\ UNCHANGED <<sec_cnt, disk, crashes, damaged>>

(* sys_mkdir(): a block for "." and ".." is taken and written first. *)
sys_mkdir(n) ==
  LET i == first_free_inode
      b == free_bits[1]
      parent == [root_dir EXCEPT !.i_size = @ + 1]
      inode == [NoInode EXCEPT !.i_no = i, !.i_size = 2, !.i_sectors[0] = lba(b)]
  IN
  /\ Ready /\ dir_entries[n].i_no = 0
  /\ IF Inode \subseteq inode_bitmap \/ Bits \subseteq block_bitmap
       THEN begin("mkdir", n, Absent, TRUE, <<>>) /\ UNCHANGED memVars
       ELSE /\ begin("mkdir", n, Dir, FALSE,
                     << block_bitmap_sync(b, block_bitmap \cup {b}),
                        write("sector", lba(b), Entries([m \in Name |-> NoEntry])) >>
                     \o create_writes(n, i, parent, inode, "FT_DIRECTORY"))
            /\ inode_bitmap' = inode_bitmap \cup {i}
            /\ block_bitmap' = block_bitmap \cup {b}
            /\ root_dir' = parent
            /\ UNCHANGED up
  /\ UNCHANGED <<sec_cnt, disk, crashes, damaged>>

(* The blocks that file_write() allocates, as positions in the inode and its *)
(* table, in their order: the first block of an empty file, the table, and   *)
(* the blocks behind the ones in use (a full last block has a successor).   *)
missing(i, count) ==
  LET has == i.i_size + 1
      will == i.i_size + count + 1
  IN  (IF i.i_sectors[0] = 0 THEN <<0>> ELSE <<>>)
      \o (IF has <= Direct /\ will > Direct THEN <<InTable>> ELSE <<>>)
      \o [k \in 1 .. count |-> has + k - 1]

(* Mutant of commit_writes: the size of the file is written before its data. *)
commit_writes_size_first(tables, data, inode) == tables \o inode_sync(inode) \o data

(* The table, the data, and the inode with the new size and blocks. *)
commit_writes(tables, data, inode) == tables \o data \o inode_sync(inode)

(* sys_write() of count blocks to a file opened for it: file_write().  Each   *)
(* allocation but that of the table is followed by a bitmap_sync().         *)
file_write(n, count) ==
  LET i     == disk.inode[dir_entries[n].i_no]
      want  == missing(i, count)
      got   == IF Len(want) <= Len(free_bits) THEN Len(want) ELSE Len(free_bits)
      addr(pos) == lba(free_bits[CHOOSE j \in 1 .. Len(want) : want[j] = pos])
      isnew(pos) == \E j \in 1 .. Len(want) : want[j] = pos
      taken(j) == block_bitmap \cup {free_bits[k] : k \in 1 .. j}
      syncs == [j \in 1 .. got |-> IF want[j] = InTable THEN write("none", 0, 0)
                                   ELSE block_bitmap_sync(free_bits[j], taken(j))]
      tab   == IF isnew(InTable) THEN addr(InTable) ELSE i.i_sectors[Table]
      at(k) == IF isnew(k) THEN addr(k) ELSE block_of(disk, i, k)
      tab_new == BlockTable([k \in Direct .. Direct + Indirect - 1 |-> at(k)])
      inode == [i EXCEPT !.i_size = @ + count,
                         !.i_sectors = [k \in 0 .. Direct |-> IF k = Table THEN tab ELSE at(k)]]
      data  == [k \in 1 .. count |-> write("sector", at(i.i_size + k - 1), Data(n, i.i_size + k))]
  IN
  /\ Ready /\ dir_entries[n].f_type = "FT_REGULAR"
  /\ i.i_size + count <= MaxSize
  /\ begin(IF splits(i.i_no) THEN "write_split" ELSE "write", n, File([k \in 1 .. i.i_size + count |->
                            IF k <= i.i_size THEN disk.sec[block_of(disk, i, k - 1)]
                            ELSE Data(n, k)]),
           got < Len(want),
           SelectSeq(syncs, LAMBDA w : w.where # "none")
           \o (IF got < Len(want) THEN <<>>
               ELSE commit_writes(IF i.i_size + count >= Direct
                                    THEN <<write("sector", tab, tab_new)>> ELSE <<>>,
                                  data, inode)))
  /\ block_bitmap' = taken(got)
  /\ UNCHANGED <<sec_cnt, disk, up, inode_bitmap, root_dir, crashes, damaged>>

-----------------------------------------------------------------------------
(* Mutant of release_order: the sector of the table stays allocated. *)
release_order_no_table(i) ==
  SelectSeq([k \in 1 .. Direct + Indirect |-> block_of(disk, i, k - 1)], LAMBDA a : a # 0)

(* The blocks of an inode in the order in which inode_release() returns      *)
(* them: the table, then what it and the inode list.                        *)
release_order(i) ==
  SelectSeq(<<i.i_sectors[Table]>> \o [k \in 1 .. Direct + Indirect |-> block_of(disk, i, k - 1)],
            LAMBDA a : a # 0)

(* Mutant of remove_writes: the blocks are returned before the entry goes. *)
remove_writes_late(n, no, parent) ==
  LET i == disk.inode[no]
      freed == release_order(i)
      left(j) == block_bitmap \ {bit(freed[k]) : k \in 1 .. j}
  IN  [j \in 1 .. Len(freed) |-> block_bitmap_sync(bit(freed[j]), left(j))]
      \o <<set_entry(n, NoEntry)>> \o inode_sync(parent)
      \o <<inode_bitmap_sync(inode_bitmap \ {no})>> \o inode_delete(no)

(* delete_dir_entry() and inode_release(): the entry, the parent, the blocks *)
(* one by one, the inode bitmap, and the inode itself.                      *)
remove_writes(n, no, parent) ==
  LET i == disk.inode[no]
      freed == release_order(i)
      left(j) == block_bitmap \ {bit(freed[k]) : k \in 1 .. j}
  IN  <<set_entry(n, NoEntry)>> \o inode_sync(parent)
      \o [j \in 1 .. Len(freed) |-> block_bitmap_sync(bit(freed[j]), left(j))]
      \o <<inode_bitmap_sync(inode_bitmap \ {no})>> \o inode_delete(no)

(* What sys_unlink() of a closed file and sys_rmdir() of an empty directory   *)
(* come to.  Two entries with the same inode fail an ASSERT before anything  *)
(* is written, an inode that does not have its own number one behind that.   *)
remove(op, n) ==
  LET no == dir_entries[n].i_no
      parent == [root_dir EXCEPT !.i_size = @ - 1]
      twice == \E m \in Name \ {n} : dir_entries[m].i_no = no
      writes == remove_writes(n, no, parent)
  IN
  /\ Ready /\ no # 0
  /\ IF twice THEN begin(op, n, Absent, TRUE, <<>>) /\ UNCHANGED memVars
     ELSE IF disk.inode[no].i_no # no
       THEN begin(op, n, Absent, TRUE, SubSeq(writes, 1, 2)) /\ UNCHANGED memVars
       ELSE /\ begin(op, n, Absent, FALSE, writes)
            /\ block_bitmap' = block_bitmap \ {bit(a) : a \in Range(release_order(disk.inode[no]))}
            /\ inode_bitmap' = inode_bitmap \ {no}
            /\ root_dir' = parent
            /\ UNCHANGED up
  /\ UNCHANGED <<sec_cnt, disk, crashes, damaged>>

sys_unlink(n) == dir_entries[n].f_type = "FT_REGULAR" /\ remove("unlink", n)

sys_rmdir(n) ==
  /\ dir_entries[n].f_type = "FT_DIRECTORY"
  /\ disk.inode[dir_entries[n].i_no].i_size = 2
  /\ remove("rmdir", n)

-----------------------------------------------------------------------------
(* The call writes its next sector. *)
ide_write ==
  /\ todo # <<>>
  /\ disk' = apply(disk, Head(todo))
  /\ todo' = Tail(todo)
  /\ UNCHANGED <<sec_cnt, memVars, call, crashes, damaged>>

(* It returns, unless it failed an ASSERT; a format is followed by the mount. *)
Return ==
  /\ call.op # "none" /\ todo = <<>> /\ ~call.panics
  /\ call' = NoCall
  /\ IF call.op = "format" THEN mount_partition ELSE UNCHANGED memVars
  /\ UNCHANGED <<sec_cnt, disk, todo, crashes, damaged>>

(* Everything that can be reached on the disk is marked in its bitmaps and   *)
(* has one owner, every entry leads to an inode that has been written, and   *)
(* every block below the size of a file is there.                           *)
Sound(d) ==
  LET reached == {n \in Name : found(d, n).i_no # 0}
      inode(n) == d.inode[found(d, n).i_no]
  IN
  /\ d.magic => d.inode[0].i_sectors[0] = sb.data_start_lba /\ {0} \subseteq d.bbits \cap d.ibits
                /\ d.sec[sb.data_start_lba].kind = "dir"
  /\ \A n \in reached :
       /\ found(d, n).i_no \in d.ibits
       /\ inode(n).i_no = found(d, n).i_no
       /\ {bit(a) : a \in blocks(d, inode(n))} \subseteq d.bbits
       /\ found(d, n).f_type = "FT_REGULAR" =>
            \A k \in 0 .. inode(n).i_size - 1 : block_of(d, inode(n), k) # 0
  /\ \A n, m \in reached :
       n # m => /\ found(d, n).i_no # found(d, m).i_no
                /\ blocks(d, inode(n)) \cap blocks(d, inode(m)) = {}

(* The machine stops: power failure, reset, or an ASSERT. *)
Crash ==
  /\ up \/ call.op # "none"
  /\ crashes < MaxCrashes
  /\ up' = FALSE /\ block_bitmap' = {} /\ inode_bitmap' = {} /\ root_dir' = NoInode
  /\ call' = NoCall /\ todo' = <<>>
  /\ crashes' = crashes + 1
  /\ damaged' = (damaged \/ ~Sound(disk))
  /\ UNCHANGED <<sec_cnt, disk>>

Next ==
  \/ filesys_init \/ ide_write \/ Return \/ Crash
  \/ \E n \in Name :
       \/ file_create(n) \/ sys_mkdir(n) \/ sys_unlink(n) \/ sys_rmdir(n)
       \/ \E c \in Count : file_write(n, c)

Spec == Init /\ [][Next]_vars

-----------------------------------------------------------------------------
(* The calls that a crash may not interrupt: creation, the format, and a      *)
(* write to a file whose inode has its size and its blocks in two sectors.   *)
Fragile == {"create", "mkdir", "format", "write_split"}

(* Every call takes effect at one of its sector writes, and a crash before    *)
(* or behind that write leaves all files as the calls up to then made them,  *)
(* over any number of crashes and restarts: unless the crash came in one of   *)
(* the calls in Fragile.  A removal is not among them, although the inode it  *)
(* clears may lie in two sectors.                                           *)
Fs == INSTANCE AtomicFs WITH files <- visible(disk)

CallsAreAtomic == Fs!Spec

(* A restart finds, whenever it comes but in those calls, that nothing in use  *)
(* is marked free and no file has lost a block: mount_partition() can trust   *)
(* the bitmaps it reads.                                                    *)
MountFindsSound == ~damaged /\ call.op \notin Fragile => Sound(disk)

(* The same in the middle of a creation; refuted: behind sync_dir_entry() a   *)
(* name leads to an inode that is neither written nor marked.               *)
CreationSound == ~damaged /\ call.op \in {"create", "mkdir"} => Sound(disk)

(* The same in the middle of a write to an inode in two sectors; refuted: the  *)
(* size is on the disk before the addresses of the blocks.                  *)
SplitWriteSound == ~damaged /\ call.op = "write_split" => Sound(disk)

(* The same in the middle of a format; refuted: the superblock goes first,   *)
(* and a restart behind it mounts what was never written.                   *)
FormatSound == ~damaged /\ call.op = "format" => Sound(disk)

(* Without a crash no block or inode is lost: between calls the bitmaps in   *)
(* memory mark what the names lead to and the root directory, and nothing    *)
(* else, and the disk has the same bits.                                    *)
NothingLeaks ==
  Ready /\ crashes = 0 =>
    LET inodes == {found(disk, n).i_no : n \in Name} \cup {0}
    IN  /\ inode_bitmap = inodes /\ disk.ibits = inodes
        /\ block_bitmap = initial_bitmap(sec_cnt)
             \cup {bit(a) : a \in UNION {blocks(disk, disk.inode[i]) : i \in inodes}}
        /\ disk.bbits = block_bitmap

(* Everything is where partition_format() put it: its parts stay apart, and   *)
(* no file ever has a block outside the data area or that of the root.      *)
InsidePartition ==
  /\ LayoutSound(sec_cnt)
  /\ \A n \in Name : found(disk, n).i_no # 0 =>
       blocks(disk, disk.inode[found(disk, n).i_no]) \subseteq
         {lba(b) : b \in Bits \ (initial_bitmap(sec_cnt) \cup {0})}
=============================================================================
