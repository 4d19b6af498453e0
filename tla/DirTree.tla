------------------------------ MODULE DirTree -------------------------------
(***************************************************************************)
(* Directories as they are stored: inodes, entries in sectors, the two     *)
(* bitmaps, and the calls that search and change them (fs/dir.c, fs/fs.c,  *)
(* fs/file.c, fs/inode.c).  A path is the sequence of its names; "." and   *)
(* ".." may be among them.  i_size counts entries, not bytes.              *)
(* The contents of a block that was returned are not kept: it holds        *)
(* something that is no directory until it is allocated and written again. *)
(*                                                                         *)
(* Each call is one step: this module is about one caller at a time.       *)
(***************************************************************************)
EXTENDS Integers, Sequences, FiniteSets, FiniteSetsExt, SequencesExt

CONSTANTS
  Name,       (* names of files and directories                            *)
  NInode,     (* inode numbers 0 .. NInode - 1                             *)
  NBlock,     (* data blocks 1 .. NBlock; block 1 is the root's            *)
  PerSec,     (* entries in a sector: 21 in the code                       *)
  Direct,     (* direct blocks of an inode: 12 in the code                 *)
  Indirect,   (* addresses in an indirect table: 128                       *)
  Path        (* the paths that callers pass                               *)

ASSUME DirTreeAssumption ==
  /\ NInode \in Nat \ {0} /\ NBlock \in Nat \ {0} /\ PerSec \in Nat \ {0, 1}
  /\ Direct \in Nat \ {0} /\ Indirect \in Nat \ {0}
  /\ Name \cap {"", ".", ".."} = {} /\ Path \subseteq Seq(Name \cup {".", ".."})

VARIABLES
  part,       (* the partition: inodes, bitmaps, sectors, tables           *)
  opened,     (* inode numbers that file_table refers to                   *)
  panic       (* the ASSERT that failed, "" while none has                 *)

vars == <<part, opened, panic>>

Ino == 0 .. NInode - 1
Block == 1 .. NBlock
MaxBlocks == Direct + Indirect
Pos == 0 .. MaxBlocks * PerSec - 1          (* places for an entry          *)

Entry(name, ino, type) == [filename |-> name, i_no |-> ino, f_type |-> type]
EMPTY == Entry("", 0, "UNKNOWN")
Cleared == [k \in 0 .. PerSec - 1 |-> EMPTY]
(* What a block holds that is in no directory: data of a file, or leftovers. *)
Other == [k \in 0 .. PerSec - 1 |-> Entry("data", 1, "data")]
NoTable == [i \in Direct .. MaxBlocks - 1 |-> 0]
NewInode == [i_size |-> 0, i_sectors |-> [i \in 0 .. Direct |-> 0]]

(* The sector that sys_mkdir() and partition_format() write: "." and "..". *)
Dots(ino, parent) ==
  [Cleared EXCEPT ![0] = Entry(".", ino, "DIRECTORY"), ![1] = Entry("..", parent, "DIRECTORY")]

(* partition_format(). *)
Init ==
  /\ part = [inode |-> [i \in Ino |-> IF i = 0 THEN [i_size |-> 2, i_sectors |->
                                        [NewInode.i_sectors EXCEPT ![0] = 1]]
                                      ELSE NewInode],
             inode_bitmap |-> {0},
             block_bitmap |-> {1},
             sector |-> [b \in Block |-> IF b = 1 THEN Dots(0, 0) ELSE Other],
             table |-> [b \in Block |-> NoTable]]
  /\ opened = {} /\ panic = ""

-----------------------------------------------------------------------------
(* Operators on a partition s. *)

(* inode_bitmap_alloc(), block_bitmap_alloc(): the lowest clear bit. *)
free_inodes(s) == Ino \ s.inode_bitmap
free_blocks(s) == Block \ s.block_bitmap

(* The addresses that the searches collect from the inode and its table. *)
all_blocks(s, d) ==
  [i \in 0 .. MaxBlocks - 1 |->
     IF i < Direct THEN s.inode[d].i_sectors[i]
     ELSE IF s.inode[d].i_sectors[Direct] = 0 THEN 0
     ELSE s.table[s.inode[d].i_sectors[Direct]][i]]

entries(s, d) ==
  LET at == all_blocks(s, d)
  IN  [k \in Pos |-> LET b == at[k \div PerSec]
                     IN  IF b = 0 THEN EMPTY ELSE s.sector[b][k % PerSec]]

(* The first entry with that name; EMPTY is "not found". *)
search_dir_entry(s, d, name) ==
  LET es == entries(s, d)
      hits == {k \in Pos : es[k].filename = name}
  IN  IF hits = {} THEN EMPTY ELSE es[Min(hits)]

(* search_file(): ends at a name that is missing, at a regular file, even    *)
(* when names follow, or at the end of the path.  dir is parent_dir of the   *)
(* record, depth the number of names in searched_path.                      *)
search_file(s, path) ==
  LET go[n \in 0 .. Len(path)] ==
        IF n = 0 THEN [at |-> "DIRECTORY", ino |-> 0, dir |-> 0, depth |-> 0]
        ELSE LET r == go[n - 1]
                 e == search_dir_entry(s, r.ino, path[n])
             IN  IF r.at # "DIRECTORY" THEN r
                 ELSE IF e = EMPTY THEN [at |-> "missing", ino |-> -1, dir |-> r.ino, depth |-> n]
                 ELSE [at |-> e.f_type, ino |-> e.i_no, dir |-> r.ino, depth |-> n]
  IN  go[Len(path)]

(* sync_dir_entry(): the first free place in the direct blocks, or the       *)
(* first block that is missing, which is allocated.  The addresses in the    *)
(* table are not loaded, so behind the direct blocks one is always missing,  *)
(* and a new table is made.  An entry in a new block is written to its       *)
(* first place, and again by the code that follows.                         *)
sync_dir_entry(s, d, e) ==
  LET at(i) == s.inode[d].i_sectors[i]
      room(i) == {k \in 0 .. PerSec - 1 : s.sector[at(i)][k].f_type = "UNKNOWN"}
      i == Min({Direct} \cup {j \in 0 .. Direct - 1 : at(j) = 0 \/ room(j) # {}})
      b == Min(free_blocks(s))
      c == Min(free_blocks(s) \ {b})
      twice == [Cleared EXCEPT ![0] = e, ![1] = e]
  IN  IF i < Direct /\ at(i) # 0
        THEN [s EXCEPT !.sector[at(i)] = [@ EXCEPT ![Min(room(i))] = e],
                       !.inode[d].i_size = @ + 1]
      ELSE IF i < Direct
        THEN [s EXCEPT !.block_bitmap = @ \cup {b}, !.sector[b] = twice,
                       !.inode[d].i_sectors[i] = b, !.inode[d].i_size = @ + 2]
        ELSE [s EXCEPT !.block_bitmap = @ \cup {b, c}, !.sector[c] = twice,
                       !.table[b] = [NoTable EXCEPT ![Direct] = c],
                       !.inode[d].i_sectors[Direct] = b, !.inode[d].i_size = @ + 2]

(* The places of a sector that delete_dir_entry() counts, and those that     *)
(* hold the entry it looks for.                                             *)
counted(sec) ==
  {k \in DOMAIN sec : sec[k].f_type # "UNKNOWN" /\ sec[k].filename \notin {".", ".."}}
found(sec, ino) == {k \in counted(sec) : sec[k].i_no = ino}

(* The block with the entry of that inode, or MaxBlocks. *)
block_with(s, d, ino) ==
  LET at == all_blocks(s, d)
  IN  Min({MaxBlocks} \cup
          {i \in 0 .. MaxBlocks - 1 : at[i] # 0 /\ found(s.sector[at[i]], ino) # {}})

(* The ASSERT of delete_dir_entry() that one entry is found; the loop over   *)
(* the table does not advance, so emptying an indirect block never ends.    *)
delete_fails(s, d, ino) ==
  LET i == block_with(s, d, ino)
      sec == s.sector[all_blocks(s, d)[i]]
  IN  IF i = MaxBlocks THEN ""
      ELSE IF Cardinality(found(sec, ino)) > 1 THEN "found_twice"
      ELSE IF Cardinality(counted(sec)) = 1 /\ i >= Direct THEN "endless_loop"
      ELSE ""

(* delete_dir_entry(): the entry is cleared, or its block returned when      *)
(* nothing else is in it and it is not the first block of the directory.    *)
delete_dir_entry(s, d, ino) ==
  LET i == block_with(s, d, ino)
      b == all_blocks(s, d)[i]
      sec == s.sector[b]
      k == Min(found(sec, ino))
  IN  IF i = MaxBlocks THEN s
      ELSE IF Cardinality(counted(sec)) = 1 /\ \A j \in DOMAIN sec : sec[j].filename # "."
        THEN [s EXCEPT !.block_bitmap = @ \ {b}, !.sector[b] = Other,
                       !.inode[d].i_sectors[i] = 0, !.inode[d].i_size = @ - 1]
        ELSE [s EXCEPT !.sector[b] = [@ EXCEPT ![k] = EMPTY], !.inode[d].i_size = @ - 1]

(* Mutant of inode_release: the first block is not returned. *)
inode_release_keeps_block(s, ino) ==
  [s EXCEPT !.inode_bitmap = @ \ {ino}, !.inode[ino] = NewInode]

(* inode_release(): the blocks, the table, the number; the inode is zeroed. *)
inode_release(s, ino) ==
  LET blocks == Range(all_blocks(s, ino)) \cup {s.inode[ino].i_sectors[Direct]}
  IN  [s EXCEPT !.block_bitmap = @ \ blocks, !.inode_bitmap = @ \ {ino},
                !.sector = [b \in Block |-> IF b \in blocks THEN Other ELSE @[b]],
                !.inode[ino] = NewInode]

-----------------------------------------------------------------------------
(* The calls.  One that returns -1 changes nothing and is no step. *)
fails(why) == panic' = why /\ UNCHANGED <<part, opened>>

(* What sys_mkdir() and sys_open() with O_CREAT require: nothing is found,   *)
(* and it is the last name of the path that is missing.                     *)
may_create(r, path) == r.at = "missing" /\ r.depth = Len(path)

(* Bound: a call is made while there is room for what it may allocate; what  *)
(* the allocators do on a full bitmap is in module Bitmap.                  *)
has_room(s, blocks) == free_inodes(s) # {} /\ Cardinality(free_blocks(s)) >= blocks

(* Mutant of make_dir: ".." leads to the root. *)
make_dir_root(s, d, name) ==
  LET ino == Min(free_inodes(s))
      b   == Min(free_blocks(s))
      t   == [s EXCEPT !.inode_bitmap = @ \cup {ino}, !.block_bitmap = @ \cup {b},
                       !.sector[b] = Dots(ino, 0),
                       !.inode[ino] = [i_size |-> 2,
                                       i_sectors |-> [NewInode.i_sectors EXCEPT ![0] = b]]]
  IN  sync_dir_entry(t, d, Entry(name, ino, "DIRECTORY"))

(* sys_mkdir() after its checks. *)
make_dir(s, d, name) ==
  LET ino == Min(free_inodes(s))
      b   == Min(free_blocks(s))
      t   == [s EXCEPT !.inode_bitmap = @ \cup {ino}, !.block_bitmap = @ \cup {b},
                       !.sector[b] = Dots(ino, d),
                       !.inode[ino] = [i_size |-> 2,
                                       i_sectors |-> [NewInode.i_sectors EXCEPT ![0] = b]]]
  IN  sync_dir_entry(t, d, Entry(name, ino, "DIRECTORY"))

sys_mkdir(path) ==
  LET r == search_file(part, path) IN
  /\ panic = ""
  /\ may_create(r, path) /\ has_room(part, 3)
  /\ part' = make_dir(part, r.dir, Last(path)) /\ UNCHANGED <<opened, panic>>

(* sys_open() with O_CREAT: file_create(). *)
sys_creat(path) ==
  LET r == search_file(part, path)
      ino == Min(free_inodes(part))
      t == [part EXCEPT !.inode_bitmap = @ \cup {ino}, !.inode[ino] = NewInode]
  IN
  /\ panic = ""
  /\ may_create(r, path) /\ has_room(part, 2)
  /\ part' = sync_dir_entry(t, r.dir, Entry(Last(path), ino, "REGULAR"))
  /\ opened' = opened \cup {ino} /\ UNCHANGED panic

(* sys_open() of an existing file, and sys_close(). *)
sys_open(path) ==
  LET r == search_file(part, path) IN
  /\ panic = ""
  /\ r.at = "REGULAR" /\ r.depth = Len(path)
  /\ opened' = opened \cup {r.ino} /\ UNCHANGED <<part, panic>>

sys_close(ino) ==
  /\ panic = "" /\ ino \in opened
  /\ opened' = opened \ {ino} /\ UNCHANGED <<part, panic>>

(* file_write() to an empty file: its first block, full of other data. *)
file_write(ino) ==
  LET b == Min(free_blocks(part)) IN
  /\ panic = "" /\ ino \in opened /\ part.inode[ino].i_sectors[0] = 0
  /\ has_room(part, 1)
  /\ part' = [part EXCEPT !.block_bitmap = @ \cup {b}, !.sector[b] = Other,
                          !.inode[ino].i_sectors[0] = b, !.inode[ino].i_size = 1]
  /\ UNCHANGED <<opened, panic>>

(* Mutant of sys_unlink: an open file is removed as well. *)
sys_unlink_open(path) ==
  LET r == search_file(part, path) IN
  /\ panic = "" /\ r.at = "REGULAR"
  /\ part' = inode_release(delete_dir_entry(part, r.dir, r.ino), r.ino)
  /\ UNCHANGED <<opened, panic>>

(* sys_unlink(): not for a directory and not for an open file. *)
sys_unlink(path) ==
  LET r == search_file(part, path)
      bad == delete_fails(part, r.dir, r.ino)
  IN
  /\ panic = ""
  /\ r.ino = 0 \/ (r.at = "REGULAR" /\ r.ino \notin opened)
  /\ IF r.ino = 0 THEN fails("root")
     ELSE IF bad # "" THEN fails(bad)
     ELSE /\ part' = inode_release(delete_dir_entry(part, r.dir, r.ino), r.ino)
          /\ UNCHANGED <<opened, panic>>

dir_is_empty(s, d) == s.inode[d].i_size = 2

(* sys_rmdir() and dir_remove(), which takes it for granted that an empty    *)
(* directory has one block.                                                 *)
sys_rmdir(path) ==
  LET r == search_file(part, path)
      bad == delete_fails(part, r.dir, r.ino)
  IN
  /\ panic = ""
  /\ r.ino = 0 \/ (r.at = "DIRECTORY" /\ dir_is_empty(part, r.ino))
  /\ IF r.ino = 0 THEN fails("root")
     ELSE IF \E i \in 1 .. Direct : part.inode[r.ino].i_sectors[i] # 0 THEN fails("extra_block")
     ELSE IF bad # "" THEN fails(bad)
     ELSE /\ part' = inode_release(delete_dir_entry(part, r.dir, r.ino), r.ino)
          /\ UNCHANGED <<opened, panic>>

(* get_parent_dir_inode_nr(), with the outcome of its ASSERTs. *)
parent_fails(s, d) ==
  \/ s.inode[d].i_sectors[0] = 0
  \/ s.sector[s.inode[d].i_sectors[0]][1].f_type # "DIRECTORY"
get_parent_dir_inode_nr(s, d) == s.sector[s.inode[d].i_sectors[0]][1].i_no

(* Mutant of get_child_dir_name: the type of an entry is looked at, not its   *)
(* number.                                                                  *)
get_child_dir_name_by_type(s, p, c) ==
  LET es == entries(s, p) IN es[Min({k \in Pos \ {0, 1} : es[k].f_type = "DIRECTORY"})].filename

(* get_child_dir_name(): the first entry with that inode number. *)
get_child_dir_name(s, p, c) ==
  LET es == entries(s, p) IN es[Min({k \in Pos : es[k].i_no = c})].filename

(* The loop of sys_getcwd(), and the reversal of its path. *)
RECURSIVE getcwd(_, _)
getcwd(s, d) ==
  LET p == get_parent_dir_inode_nr(s, d)
  IN  IF d = 0 THEN <<>> ELSE Append(getcwd(s, p), get_child_dir_name(s, p, d))

Next ==
  \/ \E path \in Path :
       sys_mkdir(path) \/ sys_creat(path) \/ sys_open(path) \/ sys_unlink(path) \/ sys_rmdir(path)
  \/ \E ino \in Ino : sys_close(ino) \/ file_write(ino)

Spec == Init /\ [][Next]_vars

-----------------------------------------------------------------------------
TypeOK ==
  /\ part.inode \in [Ino -> [i_size : Nat, i_sectors : [0 .. Direct -> {0} \cup Block]]]
  /\ part.inode_bitmap \subseteq Ino /\ part.block_bitmap \subseteq Block
  /\ opened \subseteq Ino

(* The places of the entries of a directory other than "." and "..". *)
children(d) ==
  LET es == entries(part, d)
  IN  {k \in Pos : es[k].f_type # "UNKNOWN" /\ es[k].filename \notin {".", ".."}}

(* What hangs under the root, found from the root down by names: the         *)
(* directory, the place in it, the path and the entry.                      *)
RECURSIVE hanging(_, _, _)
hanging(d, path, levels) ==
  LET es == entries(part, d)
      here == {[dir |-> d, pos |-> k, path |-> Append(path, es[k].filename), e |-> es[k]] :
                 k \in children(d)}
  IN  here \cup (IF levels = 0 THEN {}
                 ELSE UNION {hanging(x.e.i_no, x.path, levels - 1) :
                               x \in {y \in here : y.e.f_type = "DIRECTORY"}})
Links == hanging(0, <<>>, NInode)

Dirs(links) == {0} \cup {x.e.i_no : x \in {y \in links : y.e.f_type = "DIRECTORY"}}

(* Every inode number in use other than the root's is that of exactly one    *)
(* entry of one directory, and every entry leads to an inode in use; names   *)
(* in a directory differ; "." is the directory and ".." the one above.      *)
TreeWellFormed ==
  LET links == Links
  IN  /\ {x.e.i_no : x \in links} = part.inode_bitmap \ {0}
      /\ \A x, y \in links : x.e.i_no = y.e.i_no \/ x.path = y.path => x = y
      /\ \A x \in links : x.e.f_type = "DIRECTORY" =>
           /\ search_dir_entry(part, x.e.i_no, ".").i_no = x.e.i_no
           /\ search_dir_entry(part, x.e.i_no, "..").i_no = x.dir

(* i_size of a directory is the number of its entries, which is what         *)
(* dir_is_empty() goes by.                                                  *)
SizeCountsEntries ==
  \A d \in Dirs(Links) : part.inode[d].i_size = Cardinality(children(d)) + 2

(* The blocks marked in the bitmap are those of the inodes in use, and no    *)
(* block belongs to two of them: none is lost and none is shared.           *)
BlocksAccounted ==
  LET blocks(i) == (Range(all_blocks(part, i)) \cup {part.inode[i].i_sectors[Direct]}) \ {0}
  IN  /\ part.block_bitmap = UNION {blocks(i) : i \in part.inode_bitmap}
      /\ \A i, j \in part.inode_bitmap : i # j => blocks(i) \cap blocks(j) = {}

(* The reference: the paths that lead somewhere, each with its inode number  *)
(* and type.                                                                *)
Reached == {<<<<>>, 0, "DIRECTORY">>} \cup {<<x.path, x.e.i_no, x.e.f_type>> : x \in Links}

Names == {p \in Path : Range(p) \subseteq Name}

(* When search_file() has gone through all names of a path, it has found     *)
(* what the path leads to, and -1 if that is nothing.                       *)
SearchCorrect ==
  LET reached == Reached
  IN  \A p \in Names : LET r == search_file(part, p)
                       IN  r.depth = Len(p) =>
                             IF r.ino = -1 THEN \A x \in reached : x[1] # p
                             ELSE <<p, r.ino, r.at>> \in reached

(* sys_getcwd() in a directory, climbing from it by ".." and by inode        *)
(* numbers, trips no ASSERT and gives the path that leads to it.            *)
GetcwdCorrect ==
  \A x \in Links : x.e.f_type = "DIRECTORY" =>
    ~parent_fails(part, x.e.i_no) /\ getcwd(part, x.e.i_no) = x.path

(* The calls implement the tree of module FileTree: the paths that lead      *)
(* somewhere change by adding to a directory and by removing leaves only,    *)
(* and a file that is open is not removed.                                  *)
Tree == INSTANCE FileTree WITH
  tree <- {<<x[1], x[3]>> : x \in Reached},
  open <- {x[1] : x \in {y \in Reached : y[2] \in opened}}

ImplementsTree == Tree!Spec

(* "搜索文件 pathname, 若找到则返回其 inode 号, 否则返回 -1" (search_file): what it      *)
(* finds exists.                                                            *)
SearchFindsOnlyExisting ==
  \A p \in Names : search_file(part, p).ino # -1 => \E x \in Reached : x[1] = p

(* ASSERT(dir_entry_found == NULL) (delete_dir_entry): an inode has one      *)
(* entry in a sector of its directory.                                      *)
DeleteFindsOne == panic # "found_twice"

(* "删除空目录, 成功时返回 0, 失败时返回 -1" (sys_rmdir): it answers for every path,     *)
(* and so does sys_unlink(), which has the same ASSERT(inode_no != 0).       *)
RemoveAnswers == panic # "root"

(* "在父目录 parent_dir 中删除 child_dir" (dir_remove): an entry never leads to an    *)
(* inode that is not in use.                                                *)
EntriesLeadSomewhere ==
  \A x \in Links : x.e.i_no \in part.inode_bitmap
=============================================================================
