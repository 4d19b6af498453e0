----------------------------- MODULE OpenFiles ------------------------------
(***************************************************************************)
(* The tables behind an open file: fd_table of each process, the global    *)
(* file_table, and the inodes in memory on the list open_inodes; opened    *)
(* and created by sys_open(), closed by sys_close(), copied by sys_fork()  *)
(* (fs/file.c, fs/inode.c, fs/fs.c, userprog/fork.c).                      *)
(*                                                                         *)
(* A system call runs with interrupts off, so calls interleave where one   *)
(* waits for the disk: in inode_open() when the inode is not on the list,  *)
(* and in file_create().  All files are in one sector of one directory; the *)
(* search of a path is in module DirTree.                                  *)
(***************************************************************************)
EXTENDS Integers, Sequences, FiniteSets, FiniteSetsExt, SequencesExt

CONSTANTS
  Proc, Initial,   (* the processes, and those that exist at the start     *)
  Ino, Existing,   (* inode numbers, and those of the files on the disk    *)
  Slot,            (* indices of file_table: MAX_FILE_OPEN                 *)
  Fd,              (* indices of fd_table: MAX_FILES_OPEN_PER_PROC         *)
  Obj,             (* addresses a struct inode may have                    *)
  Flag,            (* subset of {"r", "w"}: O_RDONLY, and one that writes  *)
  MaxWaiting,      (* bound: calls that may wait for the disk at a time    *)
  NONE, KERNEL

ASSUME OpenFilesAssumption ==
  /\ Slot \subseteq Nat \ {0} /\ Fd \subseteq Nat /\ Obj \subseteq Nat \ {0}
  /\ Flag \subseteq {"r", "w"} /\ Existing \subseteq Ino /\ Initial \subseteq Proc
  /\ IsFiniteSet(Slot) /\ IsFiniteSet(Fd)
  /\ MaxWaiting \in Nat /\ NONE \notin Proc \cup Ino /\ KERNEL \notin Proc

VARIABLES
  alive,        (* the processes that exist                                *)
  files,        (* inode numbers that a path leads to                      *)
  inode,        (* the struct inode at each address                        *)
  open_inodes,  (* the list of inodes in memory                            *)
  file_table,   (* [fd_inode, fd_flag] per slot; fd_inode = 0 is NULL      *)
  fd_table,     (* per process: a slot or -1                               *)
  call,         (* the call of a process that waits for the disk           *)
  inherited,    (* ghost: a fork has copied a descriptor that was open     *)
  fault         (* why the machine stopped, "" while it runs               *)

vars == <<alive, files, inode, open_inodes, file_table, fd_table, call, inherited, fault>>

NULL == 0
FREE == [i_no |-> NONE, i_open_cnts |-> 0, write_deny |-> FALSE, heap |-> NONE]
NoCall == [at |-> "none", ino |-> NONE, flag |-> "r", slot |-> NULL, obj |-> NULL,
           io_buf |-> {}]

Waiting == {p \in alive : call[p].at # "none"}
Ready(p) == p \in alive /\ call[p].at = "none" /\ fault = ""
fails(why) ==
  fault' = why /\ UNCHANGED <<alive, files, inode, open_inodes, file_table, fd_table, call, inherited>>

Init ==
  /\ alive = Initial
  /\ files = Existing
  /\ inode = [o \in Obj |-> FREE]
  /\ open_inodes = <<>>
  /\ file_table = [s \in Slot |-> [fd_inode |-> NULL, fd_flag |-> "r"]]
  /\ fd_table = [p \in Proc |-> [fd \in Fd |-> -1]]
  /\ call = [p \in Proc |-> NoCall]
  /\ inherited = FALSE
  /\ fault = ""

-----------------------------------------------------------------------------
(* get_free_slot_in_global(): the first slot without an inode, NULL if none. *)
free_slots == {s \in Slot : file_table[s].fd_inode = NULL}
get_free_slot_in_global == IF free_slots = {} THEN NULL ELSE Min(free_slots)

(* pcb_fd_install() into a descriptor table: the first entry that is free;   *)
(* without one the call answers -1 and the table stays as it is.            *)
pcb_fd_install(table, slot) ==
  LET free == {fd \in Fd : table[fd] = -1}
  IN  IF free = {} THEN table ELSE [table EXCEPT ![Min(free)] = slot]

(* sys_malloc(sizeof(struct inode)); the heap never runs out here. *)
free_memory == {o \in Obj : inode[o] = FREE /\ \A p \in Proc : call[p].obj # o}
sys_malloc == Min(free_memory)

(* The list search of inode_open(). *)
cached(ino) == {i \in DOMAIN open_inodes : inode[open_inodes[i]].i_no = ino}

(* Mutant of file_opened: an inode that was busy gets another reference in   *)
(* the table without being counted.                                         *)
file_opened_uncounted(p, slot, obj, flag, nodes) ==
  /\ file_table' = [file_table EXCEPT ![slot] = [fd_inode |-> obj, fd_flag |-> flag]]
  /\ inode' = [nodes EXCEPT ![obj].i_open_cnts = 1]
  /\ fd_table' = [fd_table EXCEPT ![p] = pcb_fd_install(@, slot)]

(* file_open() from the return of inode_open() on, with nodes the inodes as  *)
(* it leaves them.  A second writer is turned away, and the slot stays taken *)
(* then, as it does when the process has no free descriptor.                *)
file_opened(p, slot, obj, flag, nodes) ==
  /\ file_table' = [file_table EXCEPT ![slot] = [fd_inode |-> obj, fd_flag |-> flag]]
  /\ IF flag = "w" /\ nodes[obj].write_deny
       THEN inode' = nodes /\ UNCHANGED fd_table
       ELSE /\ inode' = [nodes EXCEPT ![obj].write_deny = @ \/ flag = "w"]
            /\ fd_table' = [fd_table EXCEPT ![p] = pcb_fd_install(@, slot)]

(* sys_open() of a file that exists: file_open() up to the point where       *)
(* inode_open() waits for the inode, or to the end if it is on the list.    *)
sys_open(p, ino, flag) ==
  LET slot == get_free_slot_in_global IN
  /\ Ready(p) /\ ino \in files /\ Cardinality(Waiting) < MaxWaiting
  /\ \/ slot = NULL /\ UNCHANGED vars
     \/ /\ slot # NULL /\ cached(ino) # {}
        /\ LET obj == open_inodes[Min(cached(ino))]
           IN  file_opened(p, slot, obj, flag, [inode EXCEPT ![obj].i_open_cnts = @ + 1])
        /\ UNCHANGED <<alive, files, open_inodes, call, inherited, fault>>
     \/ /\ slot # NULL /\ cached(ino) = {} /\ free_memory # {}
        /\ call' = [call EXCEPT ![p] = [at |-> "open", ino |-> ino, flag |-> flag,
                                        slot |-> slot, obj |-> sys_malloc, io_buf |-> {}]]
        /\ UNCHANGED <<alive, files, inode, open_inodes, file_table, fd_table, inherited, fault>>

(* The inode has been read: inode_open() puts it on the list. *)
inode_read(p) ==
  LET c == call[p]
      new == [i_no |-> c.ino, i_open_cnts |-> 1, write_deny |-> FALSE, heap |-> KERNEL]
  IN
  /\ p \in alive /\ c.at = "open" /\ fault = ""
  /\ open_inodes' = <<c.obj>> \o open_inodes
  /\ file_opened(p, c.slot, c.obj, c.flag, [inode EXCEPT ![c.obj] = new])
  /\ call' = [call EXCEPT ![p] = NoCall]
  /\ UNCHANGED <<alive, files, inherited, fault>>

(* sys_open() with O_CREAT: file_create() up to the first wait.  The inode   *)
(* bitmap gives a number that no other call was given; the inode comes from  *)
(* the heap of the calling process.                                         *)
file_create(p, ino, flag) ==
  LET slot == get_free_slot_in_global IN
  /\ Ready(p) /\ ino \notin files /\ Cardinality(Waiting) < MaxWaiting
  /\ \A q \in Waiting : call[q].ino # ino
  /\ IF slot = NULL THEN UNCHANGED vars
     ELSE /\ free_memory # {}
          /\ inode' = [inode EXCEPT ![sys_malloc] =
               [i_no |-> ino, i_open_cnts |-> 0, write_deny |-> FALSE, heap |-> p]]
          /\ file_table' = [file_table EXCEPT ![slot] = [fd_inode |-> sys_malloc, fd_flag |-> flag]]
          /\ call' = [call EXCEPT ![p] = [at |-> "entry", ino |-> ino, flag |-> flag,
                                          slot |-> slot, obj |-> sys_malloc, io_buf |-> {}]]
          /\ UNCHANGED <<alive, files, open_inodes, fd_table, inherited, fault>>

(* sync_dir_entry() reads the sector of the directory, and waits again to     *)
(* write it back with the new entry.                                        *)
entry_read(p) ==
  /\ p \in alive /\ call[p].at = "entry" /\ fault = ""
  /\ call' = [call EXCEPT ![p].at = "sync", ![p].io_buf = files]
  /\ UNCHANGED <<alive, files, inode, open_inodes, file_table, fd_table, inherited, fault>>

(* The directory entry is on the disk; the inodes and the bitmap follow. *)
entry_synced(p) ==
  /\ p \in alive /\ call[p].at = "sync" /\ fault = ""
  /\ files' = call[p].io_buf \cup {call[p].ino}
  /\ call' = [call EXCEPT ![p].at = "create"]
  /\ UNCHANGED <<alive, inode, open_inodes, file_table, fd_table, inherited, fault>>

(* The end of file_create(). *)
file_created(p) ==
  LET c == call[p] IN
  /\ p \in alive /\ c.at = "create" /\ fault = ""
  /\ open_inodes' = <<c.obj>> \o open_inodes
  /\ inode' = [inode EXCEPT ![c.obj].i_open_cnts = 1]
  /\ fd_table' = [fd_table EXCEPT ![p] = pcb_fd_install(@, c.slot)]
  /\ call' = [call EXCEPT ![p] = NoCall]
  /\ UNCHANGED <<alive, files, file_table, inherited, fault>>

-----------------------------------------------------------------------------
(* list_remove(): the element is unlinked from the list it is on. *)
list_remove(list, o) ==
  LET at == {i \in DOMAIN list : list[i] = o}
  IN  IF at = {} THEN list ELSE RemoveAt(list, Min(at))

(* file_close() clears write_deny whoever set it; inode_close() frees the    *)
(* inode with the last reference.                                           *)
inode_close(obj) ==
  IF inode[obj].i_open_cnts = 1
    THEN /\ inode' = [inode EXCEPT ![obj] = FREE]
         /\ open_inodes' = list_remove(open_inodes, obj)
    ELSE /\ inode' = [inode EXCEPT ![obj].i_open_cnts = @ - 1, ![obj].write_deny = FALSE]
         /\ UNCHANGED open_inodes

(* Mutant of sys_close: the entry of fd_table is not cleared. *)
sys_close_keeps_fd(p, fd) ==
  LET slot == fd_table[p][fd] IN
  /\ Ready(p) /\ slot # -1
  /\ IF file_table[slot].fd_inode = NULL THEN fails("null_inode")
     ELSE /\ inode_close(file_table[slot].fd_inode)
          /\ file_table' = [file_table EXCEPT ![slot].fd_inode = NULL]
          /\ UNCHANGED <<alive, files, fd_table, call, inherited, fault>>

(* sys_close() of a descriptor that the process has.  A slot that was        *)
(* emptied meanwhile makes file_close() go through a NULL pointer; to free   *)
(* an inode that is not in the kernel's heap fails an ASSERT of sys_free(). *)
sys_close(p, fd) ==
  LET slot == fd_table[p][fd]
      obj == file_table[slot].fd_inode
  IN
  /\ Ready(p) /\ slot # -1
  /\ IF obj = NULL THEN fails("null_inode")
     ELSE IF inode[obj].i_open_cnts = 1 /\ inode[obj].heap # KERNEL THEN fails("user_heap")
     ELSE /\ inode_close(obj)
          /\ file_table' = [file_table EXCEPT ![slot].fd_inode = NULL]
          /\ fd_table' = [fd_table EXCEPT ![p][fd] = -1]
          /\ UNCHANGED <<alive, files, call, inherited, fault>>

(* Mutant of update_inode_open_cnts: the count is set instead of raised. *)
update_inode_open_cnts_set(p) ==
  [o \in Obj |-> IF \E fd \in Fd : fd_table[p][fd] # -1 /\ file_table[fd_table[p][fd]].fd_inode = o
                 THEN [inode[o] EXCEPT !.i_open_cnts = 1] ELSE inode[o]]

(* update_inode_open_cnts(): every descriptor of the child counts. *)
update_inode_open_cnts(p) ==
  [o \in Obj |-> [inode[o] EXCEPT !.i_open_cnts = @ +
     Cardinality({fd \in Fd : fd_table[p][fd] # -1 /\ file_table[fd_table[p][fd]].fd_inode = o})]]

(* sys_fork(): the child gets a copy of fd_table, and with it the slots. *)
sys_fork(p, q) ==
  /\ Ready(p) /\ q \in Proc \ alive
  /\ IF \E fd \in Fd : fd_table[p][fd] # -1 /\ file_table[fd_table[p][fd]].fd_inode = NULL
       THEN fails("null_inode")
       ELSE /\ alive' = alive \cup {q}
            /\ fd_table' = [fd_table EXCEPT ![q] = fd_table[p]]
            /\ inode' = update_inode_open_cnts(p)
            /\ inherited' = (inherited \/ \E fd \in Fd : fd_table[p][fd] # -1)
            /\ UNCHANGED <<files, open_inodes, file_table, call, fault>>

(* The machine has stopped. *)
Stopped == fault # "" /\ UNCHANGED vars

Next ==
  \/ \E p \in Proc :
       \/ \E ino \in Ino, flag \in Flag : sys_open(p, ino, flag) \/ file_create(p, ino, flag)
       \/ inode_read(p) \/ entry_read(p) \/ entry_synced(p) \/ file_created(p)
       \/ \E fd \in Fd : sys_close(p, fd)
       \/ \E q \in Proc : sys_fork(p, q)
  \/ Stopped

Spec == Init /\ [][Next]_vars

-----------------------------------------------------------------------------
TypeOK ==
  /\ alive \subseteq Proc /\ files \subseteq Ino
  /\ inode \in [Obj -> [i_no : Ino \cup {NONE}, i_open_cnts : Int, write_deny : BOOLEAN,
                        heap : Proc \cup {KERNEL, NONE}]]
  /\ open_inodes \in Seq(Obj)
  /\ file_table \in [Slot -> [fd_inode : Obj \cup {NULL}, fd_flag : Flag \cup {"r"}]]
  /\ fd_table \in [Proc -> [Fd -> Slot \cup {-1}]]

slots_of(o) == {s \in Slot : file_table[s].fd_inode = o}
listed == ToSet(open_inodes)

(* The inodes that no call is still working on. *)
settled == {o \in Obj : \A p \in Proc : call[p].obj # o}

(* As long as no descriptor is inherited, i_open_cnts of an inode is the     *)
(* number of slots of file_table that refer to it, through opens, closes     *)
(* and opens that fail half way: the inode is freed with the last            *)
(* reference, not before and not never.                                     *)
CountMatchesTable ==
  ~inherited => \A o \in settled : inode[o].i_open_cnts = Cardinality(slots_of(o))

(* At most one struct inode in memory stands for an inode number, and an     *)
(* inode is on the list as long as it is counted.                           *)
OneInodePerFile ==
  ~inherited =>
    /\ \A i, j \in DOMAIN open_inodes :
         inode[open_inodes[i]].i_no = inode[open_inodes[j]].i_no => i = j
    /\ listed = {o \in Obj : inode[o].i_open_cnts > 0}

(* As long as none is inherited, a descriptor that a process has leads to a  *)
(* slot that is in use and that no other descriptor leads to.               *)
OwnSlot ==
  ~inherited =>
    \A p, q \in alive : \A fd, ge \in Fd :
      fd_table[p][fd] # -1 =>
        /\ file_table[fd_table[p][fd]].fd_inode # NULL
        /\ fd_table[p][fd] = fd_table[q][ge] => p = q /\ fd = ge

(* Even when descriptors are inherited, no slot refers to an inode that has  *)
(* been freed: every slot of an inode is counted, and an inode that is       *)
(* counted is on the list.                                                  *)
SlotsCounted ==
  \A s \in Slot :
    LET o == file_table[s].fd_inode
    IN  o \in settled =>
          o \in listed /\ inode[o].i_open_cnts >= Cardinality(slots_of(o))

writers(ino) ==
  {d \in alive \X Fd :
     LET slot == fd_table[d[1]][d[2]] IN
     /\ slot # -1 /\ file_table[slot].fd_flag = "w" /\ file_table[slot].fd_inode # NULL
     /\ inode[file_table[slot].fd_inode].i_no = ino}

(* "将目录项 p_de 写入父目录 parent_dir 中" (sync_dir_entry): a file that has been        *)
(* created is in its directory.                                             *)
EntriesKept == \A o \in listed : inode[o].i_no \in files

(* "写文件不能并行, 进程写文件前检查此标识" (struct inode, write_deny): a file is open  *)
(* for writing through one descriptor at a time.                            *)
OneWriter == \A ino \in Ino : Cardinality(writers(ino)) <= 1

(* "关闭文件描述符 fd 指向的文件, 成功返回 0, 否则返回 -1" (sys_close): a process can      *)
(* close a descriptor that it has.                                          *)
CloseAnswers == fault # "null_inode"

(* "释放 inode 时也要确保释放的是内核内存池" (inode_close): the inode it frees came      *)
(* from the kernel's heap.                                                  *)
FreesKernelMemory == fault # "user_heap"
=============================================================================
