------------------------------- MODULE Memory -------------------------------
(***************************************************************************)
(* kernel/memory.c: the two pools of physical pages, the virtual addresses *)
(* and page tables of the kernel and of the processes, and the heap on top *)
(* of them (arenas, free lists), as sys_malloc(), sys_free(), the start of *)
(* a process, sys_fork() and the loading of a program use them (userprog/  *)
(* process.c, fork.c, exec.c).                                             *)
(*                                                                         *)
(* System calls run with interrupts off, and sys_malloc() and sys_free()   *)
(* hold the lock of their pool, so each is one step, and so is the         *)
(* allocation of a segment in execv().  start_process() runs with         *)
(* interrupts on: get_a_page() is cut where it has looked for a free page  *)
(* of the kernel's pool, whose lock it does not hold, and not yet taken it.*)
(*                                                                         *)
(* An address is v * PG_SIZE + offset in the space of its owner.           *)
(***************************************************************************)
EXTENDS Integers, Sequences, FiniteSets, FiniteSetsExt, SequencesExt

CONSTANTS
  Proc, KERNEL,    (* processes, and the kernel: the owners of a heap       *)
  NK, NU,          (* physical pages 1 .. NK of the kernel, then NU of users *)
  NV,              (* virtual pages 0 .. NV - 1 of a process                *)
  PT,              (* virtual pages under one page table: 1024 in the code  *)
  PG_SIZE,         (* bytes of a page: 4096                                 *)
  ARENA,           (* sizeof(struct arena): 12                              *)
  block_size,      (* the sizes of the descriptors, ascending: 16 .. 1024   *)
  PcbPages,        (* kernel pages that a process takes                     *)
  Size,            (* the sizes that are asked for                          *)
  MaxLive,         (* bound: blocks in use at a time                        *)
  Segment,         (* <<first page, pages>> of the segments of programs     *)
  Preempt,         (* whether a clock tick may hit get_a_page()             *)
  ForkHeap,        (* whether a child frees small blocks of its parent      *)
  ExecHeap         (* whether a segment may come to lie on pages of the heap *)

ASSUME MemoryAssumption ==
  /\ NK \in Nat \ {0} /\ NU \in Nat \ {0} /\ NV \in Nat \ {0, 1} /\ PT \in Nat \ {0}
  /\ PG_SIZE \in Nat /\ ARENA \in Nat /\ block_size \in Seq(Nat \ {0}) /\ Len(block_size) > 0
  /\ PcbPages \in Nat \ {0} /\ Size \subseteq Nat \ {0} /\ MaxLive \in Nat
  /\ Segment \subseteq (0 .. NV - 1) \X (1 .. NV)
  /\ {Preempt, ForkHeap, ExecHeap} \subseteq BOOLEAN /\ KERNEL \notin Proc

VARIABLES
  mem,          (* pools, virtual addresses and page tables                 *)
  arena,        (* struct arena at the start of a page, per owner           *)
  free_list,    (* per owner and descriptor: addresses of free blocks       *)
  live,         (* ghost: the blocks handed out, <<owner, address, size>>   *)
  image,        (* ghost: the pages of a process that programs were loaded to *)
  start,        (* the process whose stack get_a_page() is installing       *)
  panic         (* the ASSERT that failed, "" while none has                *)

vars == <<mem, arena, free_list, live, image, start, panic>>

Owner == Proc \cup {KERNEL}
KPage == 1 .. NK
UPage == NK + 1 .. NK + NU
pages(o) == IF o = KERNEL THEN KPage ELSE UPage
vpages(o) == IF o = KERNEL THEN 0 .. NK - 1 ELSE 0 .. NV - 1
Stack == NV - 1                               (* USER_STACK3_VADDR          *)
Desc == DOMAIN block_size
NoArena == [desc |-> 0, cnt |-> 0, large |-> FALSE, home |-> KERNEL]
NoStart == [p |-> KERNEL, at |-> "none", page |-> 0, table |-> 0]

(* block_desc_init(), and sizes above the largest block are served in pages. *)
blocks_per_arena(d) == (PG_SIZE - ARENA) \div block_size[d]
max_block == block_size[Len(block_size)]

Init ==
  /\ mem = [used |-> {},                                   (* the pools     *)
            vaddr |-> [o \in Owner |-> {}],                (* vaddr_bitmap  *)
            pte |-> [o \in Owner |-> [v \in vpages(o) |-> 0]],
            pde |-> [p \in Proc |-> [t \in 0 .. (NV - 1) \div PT |-> 0]]]
  /\ arena = [o \in Owner |-> [v \in vpages(o) |-> NoArena]]
  /\ free_list = [o \in Owner |-> [d \in Desc |-> <<>>]]
  /\ live = {} /\ image = [p \in Proc |-> {}] /\ start = NoStart /\ panic = ""

-----------------------------------------------------------------------------
(* palloc(): the lowest free page of a pool. *)
nth_free(s, pool, i) == SetToSortSeq(pool \ s.used, <)[i]

(* Mutant of vaddr_get: the bitmap is not looked at. *)
vaddr_get_first(s, o, cnt) == 0

(* vaddr_get(): the lowest run of cnt free virtual pages; -1 is NULL. *)
vaddr_get(s, o, cnt) ==
  LET runs == {v \in vpages(o) : v + cnt - 1 \in vpages(o)
                                 /\ (v .. v + cnt - 1) \cap s.vaddr[o] = {}}
  IN  IF runs = {} THEN -1 ELSE Min(runs)

(* The page tables that page_table_add() has to make for pages: the kernel   *)
(* has all of its own.                                                      *)
new_tables(s, o, run) ==
  IF o = KERNEL THEN {} ELSE {t \in {w \div PT : w \in run} : s.pde[o][t] = 0}

(* Bound: there are free pages for a call; on a full pool bitmap_scan()      *)
(* fails an ASSERT, which is in module Bitmap.                              *)
enough(s, o, run) ==
  /\ Cardinality(pages(o) \ s.used) >= Cardinality(run)
  /\ Cardinality(KPage \ s.used) >= Cardinality(new_tables(s, o, run))

(* malloc_page() at the run that vaddr_get() found: a physical page from the *)
(* owner's pool and, if need be, a page table from the kernel's for each.   *)
malloc_page(s, o, run) ==
  LET new == new_tables(s, o, run)
      page(w) == nth_free(s, pages(o), Cardinality({x \in run : x <= w}))
      table(t) == nth_free(s, KPage, Cardinality({u \in new : u <= t}))
  IN  [s EXCEPT !.vaddr[o] = @ \cup run,
                !.used = @ \cup {page(w) : w \in run} \cup {table(t) : t \in new},
                !.pte[o] = [w \in DOMAIN @ |-> IF w \in run THEN page(w) ELSE @[w]],
                !.pde = [p \in Proc |-> [t \in DOMAIN @[p] |->
                           IF p = o /\ t \in new THEN table(t) ELSE @[p][t]]]]

(* mfree_page(): pfree(), page_table_pte_remove() and vaddr_remove(). *)
mfree_page(s, o, v, cnt) ==
  LET run == v .. v + cnt - 1
  IN  [s EXCEPT !.used = @ \ {s.pte[o][w] : w \in run}, !.vaddr[o] = @ \ run,
                !.pte[o] = [w \in DOMAIN @ |-> IF w \in run THEN 0 ELSE @[w]]]

(* The ASSERT of page_table_add(): nothing is mapped there yet. *)
pte_present(s, o, run) == \E w \in run : s.pte[o][w] # 0

-----------------------------------------------------------------------------
(* A process runs once its stack is there; while get_a_page() holds the lock *)
(* of the users' pool, and unless a tick may come, nobody else runs.        *)
Runs(o) ==
  /\ panic = ""
  /\ o = KERNEL => start.at # "taking" \/ Preempt
  /\ o \in Proc => start.at # "taking" /\ Stack \in mem.vaddr[o]

fails(why) == panic' = why /\ UNCHANGED <<mem, arena, free_list, live, image, start>>

(* Mutant of arena2block: the header of the arena is not skipped. *)
arena2block_no_header(v, d, idx) == v * PG_SIZE + idx * block_size[d]

arena2block(v, d, idx) == v * PG_SIZE + ARENA + idx * block_size[d]
block2arena(a) == a \div PG_SIZE
arena_blocks(v, d) == [i \in 1 .. blocks_per_arena(d) |-> arena2block(v, d, i - 1)]

(* sys_malloc() of more than the largest block: whole pages. *)
page_cnt(size) == (size + ARENA + PG_SIZE - 1) \div PG_SIZE

sys_malloc_large(o, size) ==
  LET cnt == page_cnt(size)
      v == vaddr_get(mem, o, cnt)
      run == v .. v + cnt - 1
  IN
  /\ Runs(o) /\ Cardinality(live) < MaxLive
  /\ size > max_block /\ v # -1 /\ enough(mem, o, run)
  /\ IF pte_present(mem, o, run) THEN fails("pte_present")
     ELSE /\ mem' = malloc_page(mem, o, run)
          /\ arena' = [arena EXCEPT ![o][v] =
                         [desc |-> 0, cnt |-> cnt, large |-> TRUE, home |-> o]]
          /\ live' = live \cup {<<o, v * PG_SIZE + ARENA, size>>}
          /\ UNCHANGED <<free_list, image, start, panic>>

(* The first descriptor whose blocks are large enough. *)
desc_idx(size) == Min({d \in Desc : size <= block_size[d]})

(* list_pop() of a free list, and the block is in use. *)
take(o, d, list, size, arenas) ==
  LET a == Head(list)
  IN  /\ free_list' = [free_list EXCEPT ![o][d] = Tail(list)]
      /\ arena' = [arenas EXCEPT ![o][block2arena(a)].cnt = @ - 1]
      /\ live' = live \cup {<<o, a, size>>}
      /\ UNCHANGED <<image, start, panic>>

(* sys_malloc() of a block, from the free list or from a new arena. *)
sys_malloc(o, size) ==
  LET d == desc_idx(size)
      list == free_list[o][d]
      v == vaddr_get(mem, o, 1)
  IN
  /\ Runs(o) /\ Cardinality(live) < MaxLive /\ size <= max_block
  /\ IF list # <<>> THEN take(o, d, list, size, arena) /\ UNCHANGED mem
     ELSE /\ v # -1 /\ enough(mem, o, {v})
          /\ IF pte_present(mem, o, {v}) THEN fails("pte_present")
             ELSE /\ mem' = malloc_page(mem, o, {v})
                  /\ take(o, d, arena_blocks(v, d), size,
                          [arena EXCEPT ![o][v] =
                             [desc |-> d, cnt |-> blocks_per_arena(d), large |-> FALSE,
                              home |-> o]])

(* Mutant of sys_free_block: the blocks of the arena stay on the list. *)
sys_free_block_keeps_list(o, a) ==
  LET v == block2arena(a)
      d == arena[o][v].desc
      done == arena[o][v].cnt + 1 = blocks_per_arena(d)
  IN  /\ free_list' = [free_list EXCEPT ![o][d] = Append(@, a)]
      /\ mem' = IF done THEN mfree_page(mem, o, v, 1) ELSE mem
      /\ arena' = [arena EXCEPT ![o][v] = IF done THEN NoArena ELSE [@ EXCEPT !.cnt = @ + 1]]
      /\ UNCHANGED panic

(* sys_free() of a block: back to the list of the descriptor that the arena  *)
(* names, the parent's in a child's copy of an arena; when all blocks of the *)
(* arena are free they are taken off the list and the page is returned.     *)
sys_free_block(o, a) ==
  LET v == block2arena(a)
      d == arena[o][v].desc
      home == arena[o][v].home
      list == Append(free_list[home][d], a)
      mine == ToSet(arena_blocks(v, d))
      done == arena[o][v].cnt + 1 = blocks_per_arena(d)
  IN  IF done /\ ~(mine \subseteq ToSet(list))
        THEN panic' = "not_free" /\ UNCHANGED <<mem, arena, free_list>>
        ELSE /\ free_list' = [free_list EXCEPT ![home][d] =
                  IF done THEN SelectSeq(list, LAMBDA b : b \notin mine) ELSE list]
             /\ mem' = IF done THEN mfree_page(mem, o, v, 1) ELSE mem
             /\ arena' = [arena EXCEPT ![o][v] =
                  IF done THEN NoArena ELSE [@ EXCEPT !.cnt = @ + 1]]
             /\ UNCHANGED panic

(* sys_free() of a block that was handed out. *)
sys_free(o, b) ==
  LET v == block2arena(b[2])
      a == arena[o][v]
  IN
  /\ Runs(o) /\ b \in live /\ b[1] = o
  /\ ForkHeap \/ a.large \/ a.home = o
  /\ IF a.large
       THEN /\ mem' = mfree_page(mem, o, v, a.cnt)
            /\ arena' = [arena EXCEPT ![o][v] = NoArena]
            /\ UNCHANGED <<free_list, panic>>
       ELSE sys_free_block(o, b[2])
  /\ live' = live \ {b}
  /\ UNCHANGED <<image, start>>

(* process_execute(): pcb, bitmap and page directory, from the kernel. *)
process_execute(p) ==
  LET v == vaddr_get(mem, KERNEL, PcbPages)
      run == v .. v + PcbPages - 1
  IN
  /\ Runs(KERNEL) /\ start = NoStart /\ Stack \notin mem.vaddr[p]
  /\ v # -1 /\ enough(mem, KERNEL, run)
  /\ mem' = malloc_page(mem, KERNEL, run)
  /\ start' = [NoStart EXCEPT !.p = p, !.at = "ready"]
  /\ UNCHANGED <<arena, free_list, live, image, panic>>

(* start_process(): get_a_page() takes a page of the users' pool for the     *)
(* stack and looks for one of the kernel's for the page table.              *)
get_a_page ==
  /\ panic = "" /\ start.at = "ready" /\ UPage \ mem.used # {} /\ KPage \ mem.used # {}
  /\ mem' = [mem EXCEPT !.vaddr[start.p] = @ \cup {Stack},
                        !.used = @ \cup {nth_free(mem, UPage, 1)}]
  /\ start' = [start EXCEPT !.at = "taking", !.page = nth_free(mem, UPage, 1),
                            !.table = nth_free(mem, KPage, 1)]
  /\ UNCHANGED <<arena, free_list, live, image, panic>>

(* It marks the page that it found and installs the table and the stack. *)
page_table_add ==
  /\ panic = "" /\ start.at = "taking"
  /\ mem' = [mem EXCEPT !.used = @ \cup {start.table},
                        !.pde[start.p][Stack \div PT] = start.table,
                        !.pte[start.p][Stack] = start.page]
  /\ start' = NoStart
  /\ UNCHANGED <<arena, free_list, live, image, panic>>

(* Mutant of copy_process: the child starts with an empty bitmap. *)
copy_process_no_bitmap(s, p, c) ==
  [malloc_page(s, c, s.vaddr[p]) EXCEPT !.vaddr[c] = {}]

(* copy_process(): the bitmap is copied, and get_a_page_without_opvaddrbitmap() *)
(* gives the child a page for each that is marked in it.                    *)
copy_process(s, p, c) == malloc_page(s, c, s.vaddr[p])

(* sys_fork(): kernel pages as for any process, and one behind the pcb as a  *)
(* buffer while pages are copied.  The child has the blocks of its parent, in arenas *)
(* that still name the descriptors of the parent, and empty free lists.     *)
sys_fork(p, c) ==
  LET v == vaddr_get(mem, KERNEL, PcbPages + 1)
      run == v .. v + PcbPages
      s == malloc_page(mem, KERNEL, run)
  IN
  /\ Runs(p) /\ start.p # c /\ Stack \notin mem.vaddr[c]
  /\ v # -1 /\ enough(mem, KERNEL, run) /\ enough(s, c, mem.vaddr[p])
  /\ mem' = mfree_page(copy_process(s, p, c), KERNEL, v + 1, 1)
  /\ arena' = [arena EXCEPT ![c] = arena[p]]
  /\ live' = live \cup {<<c, b[2], b[3]>> : b \in {x \in live : x[1] = p}}
  /\ image' = [image EXCEPT ![c] = image[p]]
  /\ UNCHANGED <<free_list, start, panic>>

(* segment_load(), called by load() for execv(): a page that is not mapped is *)
(* taken with get_a_page(), whose ASSERT leaves out the first page of the     *)
(* space; one that is mapped is written over.  What the process had before   *)
(* stays.                                                                   *)
segment_load(p, first, cnt) ==
  LET run == first .. first + cnt - 1
      new == {w \in run : mem.pte[p][w] = 0}
  IN
  /\ Runs(p) /\ ~(run \subseteq image[p]) /\ enough(mem, p, new)
  /\ ExecHeap \/ \A b \in live : b[1] = p =>
                   run \cap (b[2] \div PG_SIZE .. (b[2] + b[3] - 1) \div PG_SIZE) = {}
  /\ IF 0 \in new THEN fails("bit_idx")
     ELSE /\ mem' = malloc_page(mem, p, new)
          /\ image' = [image EXCEPT ![p] = @ \cup run]
          /\ UNCHANGED <<arena, free_list, live, start, panic>>

(* The addresses that sys_malloc() can hand out. *)
BlockAddress ==
  {arena2block(v, d, i) : v \in 0 .. Max({NK, NV}) - 1, d \in Desc,
                          i \in 0 .. blocks_per_arena(1) - 1}

Next ==
  \/ \E o \in Owner :
       \/ \E size \in Size : sys_malloc(o, size) \/ sys_malloc_large(o, size)
       \/ \E a \in BlockAddress, size \in Size : sys_free(o, <<o, a, size>>)
  \/ \E p \in Proc :
       \/ process_execute(p)
       \/ \E c \in Proc : sys_fork(p, c)
       \/ \E seg \in Segment : segment_load(p, seg[1], seg[2])
  \/ get_a_page
  \/ page_table_add

Spec == Init /\ [][Next]_vars

-----------------------------------------------------------------------------
(* The bytes of a block lie in mapped pages of its owner, behind the header  *)
(* of its arena, in no other block, and not where a program was loaded: no   *)
(* two callers share a byte.                                                *)
BlocksDisjoint ==
  LET bytes(b) == b[2] .. b[2] + b[3] - 1
  IN  /\ \A b \in live : \A x \in bytes(b) : mem.pte[b[1]][x \div PG_SIZE] # 0
      /\ \A b \in live : \A v \in vpages(b[1]) : arena[b[1]][v] # NoArena =>
           bytes(b) \cap (v * PG_SIZE .. v * PG_SIZE + ARENA - 1) = {}
      /\ \A b, c \in live : b # c /\ b[1] = c[1] => bytes(b) \cap bytes(c) = {}
      /\ \A b \in live : b[1] \in Proc =>
           \A x \in bytes(b) : x \div PG_SIZE \notin image[b[1]]

(* Every block of an arena is on the free list of its descriptor once or in  *)
(* use, cnt counts the free ones, and an arena without a block in use does   *)
(* not keep its page: the heap neither loses memory nor gives it twice.  The *)
(* arenas that a child has from its parent are not on its lists.            *)
HeapAccounted ==
  \A o \in Owner :
    /\ \A d \in Desc :
         LET list == free_list[o][d] IN
         /\ IsInjective(list)
         /\ ToSet(list) \subseteq
              UNION {ToSet(arena_blocks(v, d)) : v \in {w \in vpages(o) : arena[o][w].desc = d
                                                              /\ arena[o][w].home = o}}
    /\ \A v \in vpages(o) :
         LET a == arena[o][v]
             blocks == ToSet(arena_blocks(v, a.desc))
             free == blocks \cap ToSet(free_list[o][a.desc])
         IN  a.desc # 0 /\ a.home = o =>
                           /\ a.cnt = Cardinality(free)
                           /\ a.cnt < blocks_per_arena(a.desc)
                           /\ blocks \ free = blocks \cap {b[2] : b \in {c \in live : c[1] = o}}

(* A physical page that is marked in a pool is mapped at one virtual page or *)
(* holds one page table, and a page that is not marked is neither: pages are *)
(* not lost and not shared, and they come from the right pool.  The bitmap   *)
(* of virtual addresses marks the pages that are mapped and no others, in    *)
(* the kernel, in every process and in a child that has just been copied.   *)
PagesOnce ==
  LET mapped == {<<o, v>> \in Owner \X (0 .. NK + NV) :
                   v \in vpages(o) /\ mem.pte[o][v] # 0}
      tables == {<<p, t>> \in Proc \X (0 .. (NV - 1) \div PT) : mem.pde[p][t] # 0}
      page(x) == mem.pte[x[1]][x[2]]
      table(x) == mem.pde[x[1]][x[2]]
      taking == IF start.at = "taking" THEN {start.page} ELSE {}
      unmapped(o) == IF start.at = "taking" /\ start.p = o THEN {Stack} ELSE {}
  IN  /\ mem.used = {page(x) : x \in mapped} \cup {table(x) : x \in tables} \cup taking
      /\ Cardinality(mem.used) = Cardinality(mapped) + Cardinality(tables) + Cardinality(taking)
      /\ \A x \in mapped : page(x) \in pages(x[1])
      /\ \A x \in tables : table(x) \in KPage
      /\ \A o \in Owner : {x[2] : x \in {y \in mapped : y[1] = o}} = mem.vaddr[o] \ unmapped(o)

(* No ASSERT fails: a new page is not mapped yet, and the blocks of an arena *)
(* that is returned are all on the free list.                               *)
NoPanic == panic = ""
=============================================================================
