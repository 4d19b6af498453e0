-------------------------- MODULE OpenFilesProofs ---------------------------
(***************************************************************************)
(* Proofs about module OpenFiles, for any number of processes, files,      *)
(* slots and descriptors and of calls that wait for the disk at a time:    *)
(* no slot of file_table ever refers to an inode that has been freed.      *)
(*                                                                         *)
(* A slot can be overwritten by a call that chose it before another did,   *)
(* and a descriptor can lead to a slot of somebody else, so that neither    *)
(* counts nor slots belong to descriptors.  What stays is a bound: an       *)
(* inode is counted at least once for each slot that refers to it.  The     *)
(* invariant adds what each waiting call knows of the inode it works on,    *)
(* which is not on the list and is nobody else's.                          *)
(***************************************************************************)
EXTENDS OpenFiles, FiniteSetTheorems, SequenceTheorems, WellFoundedInduction, TLAPS

Record == [i_no : Ino \cup {NONE}, i_open_cnts : Int, write_deny : BOOLEAN,
           heap : Proc \cup {KERNEL, NONE}]
Entry == [fd_inode : Obj \cup {NULL}, fd_flag : {"r", "w"}]
Call == [at : {"none", "open", "entry", "sync", "create"}, ino : Ino \cup {NONE},
         flag : {"r", "w"}, slot : Slot \cup {NULL}, obj : Obj \cup {NULL},
         io_buf : SUBSET Ino]

Typed ==
  /\ alive \subseteq Proc /\ files \subseteq Ino
  /\ inode \in [Obj -> Record]
  /\ open_inodes \in Seq(Obj)
  /\ file_table \in [Slot -> Entry]
  /\ fd_table \in [Proc -> [Fd -> Slot \cup {-1}]]
  /\ call \in [Proc -> Call]

Shape ==
  \A p \in Proc :
    IF call[p].at = "none" THEN call[p].obj = NULL
    ELSE call[p].obj \in Obj /\ call[p].slot \in Slot /\ call[p].ino \in Ino

OnList(o) == \E i \in DOMAIN open_inodes : open_inodes[i] = o

(* What the call of p that waits for the disk may rely on. *)
Own(p, o, s) ==
  call[p].obj = o /\ call[p].slot = s =>
    /\ ~OnList(o)
    /\ \A q \in Proc \ {p} : call[q].obj # o
    /\ call[p].at = "open" => slots_of(o) = {}
    /\ call[p].at # "open" => /\ inode[o].heap # KERNEL /\ inode[o].i_no # NONE
                              /\ slots_of(o) \subseteq {s}

Owns == \A p \in Proc, o \in Obj, s \in Slot : Own(p, o, s)

List ==
  /\ \A i, j \in DOMAIN open_inodes : open_inodes[i] = open_inodes[j] => i = j
  /\ \A o \in Obj : OnList(o) => inode[o].i_no # NONE

Counted(o) ==
  /\ inode[o].i_open_cnts >= Cardinality(slots_of(o))
  /\ slots_of(o) # {} => OnList(o)

Counts == \A o \in settled : Counted(o)

OpenInv == Typed /\ Shape /\ Owns /\ List /\ Counts

-----------------------------------------------------------------------------
(* A set of numbers that is not empty has its minimum in it: what a search   *)
(* for the first free entry finds is free.                                  *)
LEMMA MinIn ==
  ASSUME NEW S, S \subseteq Nat, S # {}
  PROVE  Min(S) \in S /\ \A x \in S : Min(S) <= x
<1>1. IsWellFoundedOn(OpToRel(<, Nat), Nat)
  BY NatLessThanWellFounded, Zenon
<1>2. \E x \in S : \A y \in S : <<y, x>> \notin OpToRel(<, Nat)
  BY <1>1, WFMin, Zenon
<1>3. PICK x \in S : \A y \in S : <<y, x>> \notin OpToRel(<, Nat)
  BY <1>2, Zenon
<1>4. \A y \in S : <<y, x>> \notin {ss \in Nat \X Nat : ss[1] < ss[2]}
  BY <1>3 DEF OpToRel
<1>5. \A y \in S : x <= y
  <2>1. TAKE y \in S
  <2>2. x \in Nat /\ y \in Nat
    OBVIOUS
  <2>3. ~(y < x)
    BY <1>4, <2>2, Zenon
  <2> QED
    BY <2>2, <2>3
<1> QED
  BY <1>5, Zenon DEF Min

(* get_free_slot_in_global() answers a slot without an inode, or NULL. *)
LEMMA FreeSlot ==
  get_free_slot_in_global # NULL =>
    /\ get_free_slot_in_global \in Slot
    /\ file_table[get_free_slot_in_global].fd_inode = NULL
<1> SUFFICES ASSUME get_free_slot_in_global # NULL
             PROVE  get_free_slot_in_global \in free_slots
  BY DEF free_slots
<1>1. free_slots \subseteq Nat
  BY OpenFilesAssumption, Zenon DEF free_slots
<1> QED
  BY <1>1, MinIn, Zenon DEF get_free_slot_in_global

(* sys_malloc() answers an address that nothing uses. *)
LEMMA FreeMemory ==
  free_memory # {} =>
    /\ sys_malloc \in Obj /\ inode[sys_malloc] = FREE
    /\ \A p \in Proc : call[p].obj # sys_malloc
<1> SUFFICES ASSUME free_memory # {}
             PROVE  sys_malloc \in free_memory
  BY DEF free_memory
<1>1. free_memory \subseteq Nat
  BY OpenFilesAssumption, Zenon DEF free_memory
<1> QED
  BY <1>1, MinIn, Zenon DEF sys_malloc

(* pcb_fd_install() puts the slot into one entry that was free, or into none. *)
LEMMA Installs ==
  ASSUME NEW table \in [Fd -> Slot \cup {-1}], NEW slot \in Slot
  PROVE  /\ pcb_fd_install(table, slot) \in [Fd -> Slot \cup {-1}]
         /\ \/ pcb_fd_install(table, slot) = table
            \/ \E fd \in Fd : /\ table[fd] = -1
                              /\ pcb_fd_install(table, slot) = [table EXCEPT ![fd] = slot]
<1> DEFINE free == {fd \in Fd : table[fd] = -1}
<1>1. CASE free = {}
  BY <1>1 DEF pcb_fd_install
<1>2. CASE free # {}
  <2>1. free \subseteq Nat
    BY OpenFilesAssumption, Zenon
  <2>2. Min(free) \in free
    BY <1>2, <2>1, MinIn
  <2>3. pcb_fd_install(table, slot) = [table EXCEPT ![Min(free)] = slot]
    BY <1>2 DEF pcb_fd_install
  <2> QED
    BY <2>2, <2>3
<1> QED
  BY <1>1, <1>2

(* list_remove() leaves out one element of the list and nothing else. *)
LEMMA Removes ==
  ASSUME NEW list \in Seq(Obj), NEW o,
         \A i, j \in DOMAIN list : list[i] = list[j] => i = j
  PROVE  /\ list_remove(list, o) \in Seq(Obj)
         /\ \A i \in DOMAIN list_remove(list, o) :
              /\ list_remove(list, o)[i] # o
              /\ \E k \in DOMAIN list : list_remove(list, o)[i] = list[k]
              /\ \A j \in DOMAIN list_remove(list, o) :
                   list_remove(list, o)[i] = list_remove(list, o)[j] => i = j
         /\ \A k \in DOMAIN list : list[k] # o =>
              \E i \in DOMAIN list_remove(list, o) : list_remove(list, o)[i] = list[k]
<1> DEFINE at == {i \in DOMAIN list : list[i] = o}
<1>1. CASE at = {}
  BY <1>1 DEF list_remove
<1>2. CASE at # {}
  <2>1. at \subseteq Nat
    OBVIOUS
  <2> DEFINE m == Min(at)
             short == list_remove(list, o)
  <2>2. m \in 1 .. Len(list) /\ list[m] = o
    BY <1>2, <2>1, MinIn
  <2>3. short = SubSeq(list, 1, m - 1) \o SubSeq(list, m + 1, Len(list))
    BY <1>2, Zenon DEF list_remove, RemoveAt
  <2> HIDE DEF m, short
  <2>4. /\ short \in Seq(Obj) /\ Len(short) = Len(list) - 1
        /\ \A i \in 1 .. Len(short) : short[i] = IF i < m THEN list[i] ELSE list[i + 1]
    <3> DEFINE a == SubSeq(list, 1, m - 1)
               b == SubSeq(list, m + 1, Len(list))
    <3>1. a \in Seq(Obj) /\ Len(a) = m - 1 /\ \A i \in 1 .. Len(a) : a[i] = list[i]
      BY <2>2, SubSeqProperties
    <3>2. /\ b \in Seq(Obj) /\ Len(b) = Len(list) - m
          /\ \A i \in 1 .. Len(b) : b[i] = list[m + i]
      BY <2>2, SubSeqProperties
    <3> HIDE DEF a, b
    <3>3. /\ short \in Seq(Obj) /\ Len(short) = Len(a) + Len(b)
          /\ \A i \in 1 .. Len(short) :
               short[i] = IF i <= Len(a) THEN a[i] ELSE b[i - Len(a)]
      <4>1. short = a \o b
        BY <2>3 DEF a, b
      <4>2. /\ a \o b \in Seq(Obj) /\ Len(a \o b) = Len(a) + Len(b)
            /\ \A i \in 1 .. Len(a) + Len(b) :
                 (a \o b)[i] = IF i <= Len(a) THEN a[i] ELSE b[i - Len(a)]
        BY <3>1, <3>2, ConcatProperties, ZenonT(30)
      <4> QED
        BY <4>1, <4>2
    <3>4. short \in Seq(Obj) /\ Len(short) = Len(list) - 1 /\ m \in Nat /\ Len(list) \in Nat
      BY <2>2, <3>1, <3>2, <3>3
    <3>5. ASSUME NEW i \in 1 .. Len(short)
          PROVE  short[i] = IF i < m THEN list[i] ELSE list[i + 1]
      <4>1. CASE i < m
        <5>1. i \in 1 .. Len(a) /\ i <= Len(a)
          BY <4>1, <3>1, <3>4, SMT, Z3
        <5> QED
          BY <4>1, <5>1, <3>1, <3>3
      <4>2. CASE ~(i < m)
        <5>1. ~(i <= Len(a)) /\ i - Len(a) \in 1 .. Len(b) /\ m + (i - Len(a)) = i + 1
          BY <4>2, <3>1, <3>2, <3>4, SMT, Z3
        <5>2. b[i - Len(a)] = list[m + (i - Len(a))]
          BY <5>1, <3>2, SMT, Z3
        <5> QED
          BY <4>2, <5>1, <5>2, <3>3, SMT, Z3
      <4> QED
        BY <4>1, <4>2
    <3> QED
      BY <3>4, <3>5
  <2>5. \A i \in 1 .. Len(short) :
          \E k \in 1 .. Len(list) : k # m /\ k = (IF i < m THEN i ELSE i + 1) /\ short[i] = list[k]
    BY <2>2, <2>4, SMT, Z3
  <2>6. \A k \in 1 .. Len(list) : list[k] # o =>
          \E i \in 1 .. Len(short) : short[i] = list[k]
    <3>1. TAKE k \in 1 .. Len(list)
    <3>2. HAVE list[k] # o
    <3>3. k # m /\ k \in Nat /\ m \in Nat /\ Len(list) \in Nat
      BY <2>2, <3>2, SMT, Z3
    <3>4. CASE k < m
      <4>1. k \in 1 .. Len(short)
        BY <2>2, <2>4, <3>3, <3>4, SMT, Z3
      <4>2. short[k] = list[k]
        BY <2>4, <3>4, <4>1, Zenon
      <4> QED
        BY <4>1, <4>2, Zenon
    <3>5. CASE ~(k < m)
      <4>1. k - 1 \in 1 .. Len(short) /\ ~(k - 1 < m) /\ (k - 1) + 1 = k
        BY <2>2, <2>4, <3>3, <3>5, SMT, Z3
      <4>2. short[k - 1] = list[(k - 1) + 1]
        BY <2>4, <4>1, Zenon
      <4> QED
        BY <4>1, <4>2, Zenon
    <3> QED
      BY <3>4, <3>5, Zenon
  <2>7. DOMAIN short = 1 .. Len(short) /\ DOMAIN list = 1 .. Len(list)
    BY <2>4, SMT, Z3
  <2>8. \A i \in DOMAIN short : short[i] # o /\ \E k \in DOMAIN list : short[i] = list[k]
    BY <2>2, <2>5, <2>7, SMT, Z3
  <2>9. \A i, j \in DOMAIN short : short[i] = short[j] => i = j
    <3>1. TAKE i, j \in DOMAIN short
    <3>2. HAVE short[i] = short[j]
    <3>3. PICK k \in 1 .. Len(list) : k = (IF i < m THEN i ELSE i + 1) /\ k # m /\ short[i] = list[k]
      BY <2>5, <2>7, Zenon
    <3>4. PICK l \in 1 .. Len(list) : l = (IF j < m THEN j ELSE j + 1) /\ l # m /\ short[j] = list[l]
      BY <2>5, <2>7, Zenon
    <3>5. k = l
      BY <2>7, <3>2, <3>3, <3>4, Zenon
    <3>6. i \in Nat /\ j \in Nat /\ m \in Nat
      BY <2>2, <2>4, <2>7, SMT, Z3
    <3> QED
      BY <3>3, <3>4, <3>5, <3>6, SMT, Z3
  <2>10. \A k \in DOMAIN list : list[k] # o => \E i \in DOMAIN short : short[i] = list[k]
    BY <2>6, <2>7, Zenon
  <2> QED
    BY <2>4, <2>8, <2>9, <2>10, Zenon DEF short
<1> QED
  BY <1>1, <1>2

-----------------------------------------------------------------------------
(* No inode is at address NULL, and NONE is no inode number. *)
LEMMA Names ==
  /\ \A o \in Obj : o # NULL
  /\ NULL \notin Obj /\ NONE \notin Ino /\ KERNEL \notin Proc
  /\ IsFiniteSet(Slot) /\ IsFiniteSet(Fd) /\ \A f \in Flag : f \in {"r", "w"}
  BY OpenFilesAssumption DEF NULL

(* The slots of an inode can be counted. *)
LEMMA SlotCount ==
  ASSUME NEW o, NEW slot
  PROVE  /\ IsFiniteSet(slots_of(o)) /\ Cardinality(slots_of(o)) \in Nat
         /\ Cardinality(slots_of(o)) = 0 <=> slots_of(o) = {}
         /\ slot \notin slots_of(o) =>
              Cardinality(slots_of(o) \cup {slot}) = Cardinality(slots_of(o)) + 1
         /\ slot \in slots_of(o) =>
              Cardinality(slots_of(o) \ {slot}) = Cardinality(slots_of(o)) - 1
<1>1. slots_of(o) \in SUBSET Slot
  BY DEF slots_of
<1>2. IsFiniteSet(slots_of(o))
  BY <1>1, Names, FS_Subset, SMT, Z3
<1>3. Cardinality(slots_of(o)) \in Nat
  BY <1>2, FS_CardinalityType, SMT, Z3
<1>4. Cardinality(slots_of(o)) = 0 <=> slots_of(o) = {}
  BY <1>2, FS_EmptySet, SMT, Z3
<1>5. slot \notin slots_of(o) =>
        Cardinality(slots_of(o) \cup {slot}) = Cardinality(slots_of(o)) + 1
  BY <1>2, FS_AddElement, SMT, Z3
<1>6. slot \in slots_of(o) =>
        Cardinality(slots_of(o) \ {slot}) = Cardinality(slots_of(o)) - 1
  BY <1>2, FS_RemoveElement, SMT, Z3
<1> QED
  BY <1>2, <1>3, <1>4, <1>5, <1>6, Zenon

(* A waiting call of q that keeps its inode as it was. *)
LEMMA OwnKept ==
  ASSUME OpenInv, NEW q \in Proc, NEW o \in Obj, NEW s \in Slot, call'[q] = call[q],
         call[q].obj = o =>
           /\ \A r \in Proc \ {q} : call'[r].obj = o => call[r].obj = o
           /\ OnList(o)' => OnList(o)
           /\ slots_of(o)' \subseteq slots_of(o)
           /\ inode'[o].heap = inode[o].heap /\ inode'[o].i_no = inode[o].i_no
  PROVE  Own(q, o, s)'
<1>1. Own(q, o, s)
  BY DEF OpenInv, Owns
<1>2. SUFFICES ASSUME call[q].obj = o, call[q].slot = s
               PROVE  /\ ~OnList(o)'
                      /\ \A r \in Proc \ {q} : call'[r].obj # o
                      /\ call[q].at = "open" => slots_of(o)' = {}
                      /\ call[q].at # "open" => /\ inode'[o].heap # KERNEL /\ inode'[o].i_no # NONE
                                                /\ slots_of(o)' \subseteq {s}
  BY Zenon DEF Own
<1>3. /\ ~OnList(o) /\ \A r \in Proc \ {q} : call[r].obj # o
      /\ call[q].at = "open" => slots_of(o) = {}
      /\ call[q].at # "open" => /\ inode[o].heap # KERNEL /\ inode[o].i_no # NONE
                                /\ slots_of(o) \subseteq {s}
  BY <1>1, <1>2, Zenon DEF Own
<1> QED
  BY <1>2, <1>3

(* An inode that loses slots or references it did not have to have. *)
LEMMA CountedKept ==
  ASSUME Typed, Typed', NEW o \in Obj, Counted(o), slots_of(o)' \subseteq slots_of(o),
         inode'[o].i_open_cnts >= inode[o].i_open_cnts, OnList(o) => OnList(o)'
  PROVE  Counted(o)'
<1>1. slots_of(o)' \in SUBSET slots_of(o)
  OBVIOUS
<1>2. Cardinality(slots_of(o)') <= Cardinality(slots_of(o))
  BY <1>1, SlotCount, FS_Subset, Zenon
<1>3. Cardinality(slots_of(o)') \in Nat /\ Cardinality(slots_of(o)) \in Nat
  <2>1. IsFiniteSet(slots_of(o)')
    BY <1>1, SlotCount, FS_Subset, Zenon
  <2> QED
    BY <2>1, SlotCount, FS_CardinalityType, Zenon
<1>4. inode'[o].i_open_cnts \in Int /\ inode[o].i_open_cnts \in Int
  BY DEF Typed, Record
<1>5. inode'[o].i_open_cnts >= Cardinality(slots_of(o)')
  <2>1. inode[o].i_open_cnts >= Cardinality(slots_of(o))
    BY DEF Counted
  <2>2. ASSUME NEW a \in Int, NEW b \in Int, NEW c \in Int, NEW d \in Int, a >= b, b >= c, d <= c
        PROVE  a >= d
    BY <2>2
  <2> QED
    BY <1>2, <1>3, <1>4, <2>1, <2>2
<1>6. slots_of(o)' # {} => OnList(o)'
  BY Zenon DEF Counted
<1> QED
  BY <1>5, <1>6, Zenon DEF Counted

(* A slot gets an inode, whatever it had before. *)
LEMMA SlotTaken ==
  ASSUME Typed, NEW slot \in Slot, NEW obj \in Obj, NEW flag \in {"r", "w"},
         file_table' = [file_table EXCEPT ![slot] = [fd_inode |-> obj, fd_flag |-> flag]]
  PROVE  /\ file_table' \in [Slot -> Entry]
         /\ slots_of(obj)' = slots_of(obj) \cup {slot}
         /\ \A o \in Obj \ {obj} : slots_of(o)' \subseteq slots_of(o)
<1>1. file_table' \in [Slot -> Entry]
  BY DEF Typed, Entry
<1>2. \A s \in Slot : file_table'[s].fd_inode = IF s = slot THEN obj ELSE file_table[s].fd_inode
  BY DEF Typed
<1> QED
  BY <1>1, <1>2, SMT, Z3 DEF slots_of

(* pcb_fd_install() into the table of p. *)
LEMMA InstallStep ==
  ASSUME Typed, NEW p \in Proc, NEW slot \in Slot,
         fd_table' = [fd_table EXCEPT ![p] = pcb_fd_install(@, slot)]
  PROVE  fd_table' \in [Proc -> [Fd -> Slot \cup {-1}]]
<1>1. PICK t \in [Fd -> Slot \cup {-1}] : t = fd_table[p]
  BY DEF Typed
<1> DEFINE u == pcb_fd_install(t, slot)
<1>2. fd_table' = [fd_table EXCEPT ![p] = u]
  BY <1>1, SMT, Z3 DEF Typed
<1>3. u \in [Fd -> Slot \cup {-1}]
  BY Installs, SMT, Z3
<1> HIDE DEF u
<1> QED
  BY <1>2, <1>3, SMT, Z3 DEF Typed

(* An inode changes, the others stay. *)
LEMMA NodeSet ==
  ASSUME NEW nodes \in [Obj -> Record], NEW obj \in Obj, NEW r \in Record
  PROVE  /\ [nodes EXCEPT ![obj] = r] \in [Obj -> Record]
         /\ [nodes EXCEPT ![obj] = r][obj] = r
         /\ \A o \in Obj \ {obj} : [nodes EXCEPT ![obj] = r][o] = nodes[o]
  OBVIOUS

(* file_open() after inode_open(): the slot is taken, and inodes are but for *)
(* write_deny as inode_open() left them.                                    *)
LEMMA Opened ==
  ASSUME Typed, NEW p \in Proc, NEW slot \in Slot, NEW obj \in Obj, NEW flag \in {"r", "w"},
         NEW nodes \in [Obj -> Record], file_opened(p, slot, obj, flag, nodes)
  PROVE  /\ inode' \in [Obj -> Record]
         /\ \A o \in Obj : /\ inode'[o].i_open_cnts = nodes[o].i_open_cnts
                           /\ inode'[o].heap = nodes[o].heap /\ inode'[o].i_no = nodes[o].i_no
         /\ file_table' = [file_table EXCEPT ![slot] = [fd_inode |-> obj, fd_flag |-> flag]]
         /\ fd_table' \in [Proc -> [Fd -> Slot \cup {-1}]]
<1>1. file_table' = [file_table EXCEPT ![slot] = [fd_inode |-> obj, fd_flag |-> flag]]
  BY DEF file_opened
<1>2. CASE flag = "w" /\ nodes[obj].write_deny
  BY <1>1, <1>2 DEF file_opened, Typed
<1>3. CASE ~(flag = "w" /\ nodes[obj].write_deny)
  <2>1. inode' = [nodes EXCEPT ![obj].write_deny = @ \/ flag = "w"]
    BY <1>3 DEF file_opened
  <2>2. /\ inode' \in [Obj -> Record]
        /\ \A o \in Obj : /\ inode'[o].i_open_cnts = nodes[o].i_open_cnts
                          /\ inode'[o].heap = nodes[o].heap /\ inode'[o].i_no = nodes[o].i_no
    BY <2>1, Zenon DEF Record
  <2>3. fd_table' \in [Proc -> [Fd -> Slot \cup {-1}]]
    BY <1>3, InstallStep DEF file_opened
  <2> QED
    BY <1>1, <2>2, <2>3
<1> QED
  BY <1>2, <1>3

-----------------------------------------------------------------------------
LEMMA Stutter ==
  ASSUME OpenInv, UNCHANGED <<alive, files, inode, open_inodes, file_table, fd_table, call>>
  PROVE  OpenInv'
<1>1. Typed' /\ Shape' /\ List' /\ Counts'
  BY DEF OpenInv, Typed, Shape, List, OnList, Counts, Counted, settled, slots_of
<1>2. Owns'
  BY DEF OpenInv, Owns, Own, OnList, slots_of
<1> QED
  BY <1>1, <1>2 DEF OpenInv

(* An address that sys_malloc() answers has no slots and is not listed. *)
LEMMA FreshMemory ==
  ASSUME OpenInv, NEW o \in Obj, free_memory # {}, o = sys_malloc
  PROVE  o \in settled /\ slots_of(o) = {} /\ ~OnList(o)
<1>1. inode[o] = FREE /\ \A p \in Proc : call[p].obj # o
  BY FreeMemory, SMT, Z3
<1>2. o \in settled /\ inode[o].i_open_cnts = 0 /\ inode[o].i_no = NONE
  BY <1>1, SMT, Z3 DEF settled, FREE
<1>3. 0 >= Cardinality(slots_of(o))
  BY <1>2, SMT, Z3 DEF OpenInv, Counts, Counted
<1>4. Cardinality(slots_of(o)) = 0
  <2>1. Cardinality(slots_of(o)) \in Nat
    BY SlotCount, Zenon
  <2> QED
    BY <1>3, <2>1
<1>5. ~OnList(o)
  BY <1>2, SMT, Z3 DEF OpenInv, List
<1> QED
  BY <1>2, <1>4, <1>5, SlotCount, Zenon

(* sys_open() of a file whose inode is on the list. *)
LEMMA OpensListed ==
  ASSUME OpenInv, NEW p \in Proc, NEW slot \in Slot, NEW obj \in Obj,
         NEW flag \in {"r", "w"}, file_table[slot].fd_inode = NULL, OnList(obj),
         file_opened(p, slot, obj, flag, [inode EXCEPT ![obj].i_open_cnts = @ + 1]),
         UNCHANGED <<alive, files, open_inodes, call>>
  PROVE  OpenInv'
<1>1. Typed /\ Shape /\ Owns /\ List /\ Counts
  BY DEF OpenInv
<1>2. PICK r \in Record : r = inode[obj]
  BY <1>1, SMT, Z3 DEF Typed
<1>3. PICK n \in Record : n = [r EXCEPT !.i_open_cnts = r.i_open_cnts + 1]
                          /\ n.i_open_cnts = r.i_open_cnts + 1 /\ n.heap = r.heap /\ n.i_no = r.i_no
  <2>1. r.i_open_cnts + 1 \in Int
    BY DEF Record
  <2>2. PICK k \in Int : k = r.i_open_cnts + 1
    BY <2>1
  <2> DEFINE m == [r EXCEPT !.i_open_cnts = k]
  <2>3. m \in Record /\ m.i_open_cnts = k /\ m.heap = r.heap /\ m.i_no = r.i_no
    BY Zenon DEF Record
  <2> QED
    BY <2>2, <2>3, Zenon
<1>4. PICK old \in [Obj -> Record] : old = inode
  BY <1>1 DEF Typed
<1>5. PICK nodes \in [Obj -> Record] :
        /\ nodes = [inode EXCEPT ![obj].i_open_cnts = @ + 1]
        /\ nodes[obj] = n /\ \A o \in Obj \ {obj} : nodes[o] = inode[o]
  <2>1. [inode EXCEPT ![obj].i_open_cnts = @ + 1] = [old EXCEPT ![obj] = n]
    BY <1>2, <1>3, <1>4, Zenon
  <2>2. /\ [old EXCEPT ![obj] = n] \in [Obj -> Record] /\ [old EXCEPT ![obj] = n][obj] = n
        /\ \A o \in Obj \ {obj} : [old EXCEPT ![obj] = n][o] = old[o]
    BY NodeSet, Zenon
  <2> QED
    BY <1>4, <2>1, <2>2, Zenon
<1>6. /\ inode' \in [Obj -> Record]
      /\ \A o \in Obj : /\ inode'[o].i_open_cnts = nodes[o].i_open_cnts
                        /\ inode'[o].heap = nodes[o].heap /\ inode'[o].i_no = nodes[o].i_no
      /\ file_table' = [file_table EXCEPT ![slot] = [fd_inode |-> obj, fd_flag |-> flag]]
      /\ fd_table' \in [Proc -> [Fd -> Slot \cup {-1}]]
  <2>1. file_opened(p, slot, obj, flag, nodes)
    BY <1>5, Zenon
  <2> QED
    BY <1>1, <2>1, Opened, Zenon
<1>7. /\ file_table' \in [Slot -> Entry]
      /\ slots_of(obj)' = slots_of(obj) \cup {slot}
      /\ \A o \in Obj \ {obj} : slots_of(o)' \subseteq slots_of(o)
  BY <1>1, <1>6, SlotTaken, Zenon
<1>8. Typed' /\ Shape' /\ settled' = settled /\ \A o : OnList(o)' <=> OnList(o)
  BY <1>1, <1>6, <1>7, SMT, Z3 DEF Typed, Shape, settled, OnList
<1>9. \A o \in Obj : inode'[o].heap = inode[o].heap /\ inode'[o].i_no = inode[o].i_no
  BY <1>2, <1>3, <1>5, <1>6, SMT, Z3
<1>10. Owns'
  <2>1. SUFFICES ASSUME NEW q \in Proc, NEW o \in Obj, NEW s \in Slot  PROVE Own(q, o, s)'
    BY Zenon DEF Owns
  <2>2. call[q].obj = o /\ call[q].slot = s => o # obj
    BY <1>1, Zenon DEF Owns, Own
  <2>3. CASE call[q].slot = s
    BY <1>7, <1>8, <1>9, <2>2, <2>3, OwnKept, SMT, Z3
  <2>4. CASE call[q].slot # s
    BY <2>4, SMT, Z3 DEF Own
  <2> QED
    BY <2>3, <2>4
<1>11. List'
  BY <1>1, <1>8, <1>9, SMT, Z3 DEF List
<1>12. ASSUME NEW o \in settled  PROVE Counted(o)'
  <2>1. o \in Obj /\ Counted(o)
    BY <1>1, <1>12 DEF Counts, settled
  <2>2. CASE o = obj
    <3>1. slot \notin slots_of(obj)
      BY Names, SMT, Z3 DEF slots_of
    <3>2. Cardinality(slots_of(obj)') = Cardinality(slots_of(obj)) + 1
      BY <1>7, <3>1, SlotCount, Zenon
    <3>3. inode'[obj].i_open_cnts = inode[obj].i_open_cnts + 1
      BY <1>2, <1>3, <1>5, <1>6, SMT, Z3
    <3>4. inode[obj].i_open_cnts \in Int /\ Cardinality(slots_of(obj)) \in Nat
      <4>1. Cardinality(slots_of(obj)) \in Nat
        BY SlotCount, Zenon
      <4> QED
        BY <1>1, <4>1 DEF Typed, Record
    <3>5. inode'[obj].i_open_cnts >= Cardinality(slots_of(obj)')
      <4>1. inode[obj].i_open_cnts >= Cardinality(slots_of(obj))
        BY <2>1, <2>2, Zenon DEF Counted
      <4> QED
        BY <3>2, <3>3, <3>4, <4>1, SMT, Z3
    <3> QED
      BY <1>8, <2>2, <3>5, Zenon DEF Counted
  <2>3. CASE o # obj
    <3>1. inode'[o].i_open_cnts = inode[o].i_open_cnts /\ inode[o].i_open_cnts \in Int
      BY <1>1, <1>5, <1>6, <2>1, <2>3, SMT, Z3 DEF Typed, Record
    <3>2. inode'[o].i_open_cnts >= inode[o].i_open_cnts
      BY <3>1, SMT, Z3
    <3> QED
      BY <1>1, <1>7, <1>8, <2>1, <2>3, <3>2, CountedKept, SMT, Z3
  <2> QED
    BY <2>2, <2>3
<1> QED
  BY <1>8, <1>10, <1>11, <1>12, Zenon DEF OpenInv, Counts

(* sys_open() of a file whose inode must be read: the call waits for it. *)
LEMMA OpenWaits ==
  ASSUME OpenInv, NEW p \in Proc, NEW ino \in Ino, NEW flag \in {"r", "w"},
         NEW slot \in Slot, NEW obj \in Obj, call[p].at = "none",
         obj \in settled, slots_of(obj) = {}, ~OnList(obj),
         call' = [call EXCEPT ![p] = [at |-> "open", ino |-> ino, flag |-> flag,
                                      slot |-> slot, obj |-> obj, io_buf |-> {}]],
         UNCHANGED <<alive, files, inode, open_inodes, file_table, fd_table>>
  PROVE  OpenInv'
<1>1. Typed /\ Shape /\ Owns /\ List /\ Counts /\ \A q \in Proc : call[q].obj # obj
  BY DEF OpenInv, settled
<1>2. /\ call' \in [Proc -> Call]
      /\ call'[p].at = "open" /\ call'[p].slot = slot /\ call'[p].obj = obj
      /\ call'[p].ino = ino
      /\ \A q \in Proc \ {p} : call'[q] = call[q]
  BY <1>1, SMT, Z3 DEF Typed, Call
<1>3. Typed' /\ Shape' /\ \A o : (OnList(o)' <=> OnList(o)) /\ slots_of(o)' = slots_of(o)
  BY <1>1, <1>2, SMT, Z3 DEF Typed, Shape, OnList, slots_of
<1>4. Owns'
  <2>1. SUFFICES ASSUME NEW q \in Proc, NEW o \in Obj, NEW s \in Slot  PROVE Own(q, o, s)'
    BY Zenon DEF Owns
  <2>2. CASE q = p
    BY <1>1, <1>2, <1>3, <2>2, SMT, Z3 DEF Own
  <2>3. CASE q # p
    BY <1>1, <1>2, <1>3, <2>3, OwnKept, SMT, Z3
  <2> QED
    BY <2>2, <2>3
<1>5. List'
  BY <1>1, <1>3, SMT, Z3 DEF List
<1>6. \A o \in settled' : o \in settled
  BY <1>1, <1>2, Names, SMT, Z3 DEF settled, Shape
<1>7. Counts'
  BY <1>1, <1>3, <1>6, SMT, Z3 DEF Counts, Counted
<1> QED
  BY <1>3, <1>4, <1>5, <1>7, Zenon DEF OpenInv

LEMMA Opens ==
  ASSUME OpenInv, NEW p \in Proc, NEW ino \in Ino, NEW flag \in Flag, sys_open(p, ino, flag)
  PROVE  OpenInv'
<1>1. Typed
  BY DEF OpenInv
<1>2. flag \in {"r", "w"} /\ call[p].at = "none"
  BY Names, Zenon DEF sys_open, Ready
<1>3. CASE UNCHANGED vars
  BY <1>3, Stutter, SMT, Z3 DEF vars
<1>4. ASSUME get_free_slot_in_global # NULL, cached(ino) # {},
             file_opened(p, get_free_slot_in_global, open_inodes[Min(cached(ino))], flag,
                         [inode EXCEPT ![open_inodes[Min(cached(ino))]].i_open_cnts = @ + 1]),
             UNCHANGED <<alive, files, open_inodes, call, inherited, fault>>
      PROVE  OpenInv'
  <2>1. PICK slot \in Slot : slot = get_free_slot_in_global /\ file_table[slot].fd_inode = NULL
    BY <1>4, FreeSlot, SMT, Z3
  <2>2. cached(ino) \subseteq Nat
    BY <1>1, SMT, Z3 DEF cached, Typed
  <2>3. Min(cached(ino)) \in cached(ino)
    BY <1>4, <2>2, MinIn, SMT, Z3
  <2>4. PICK i \in DOMAIN open_inodes : i = Min(cached(ino))
    BY <2>3, Zenon DEF cached
  <2>5. PICK obj \in Obj : obj = open_inodes[i]
    BY <1>1 DEF Typed
  <2>6. file_opened(p, slot, obj, flag, [inode EXCEPT ![obj].i_open_cnts = @ + 1])
    <3>1. open_inodes[Min(cached(ino))] = obj
      BY <2>4, <2>5
    <3> QED
      BY <1>4, <2>1, <3>1, Zenon
  <2>7. OnList(obj)
    BY <2>5, Zenon DEF OnList
  <2> QED
    BY <1>2, <1>4, <2>1, <2>6, <2>7, OpensListed, Zenon
<1>5. ASSUME get_free_slot_in_global # NULL, free_memory # {},
             call' = [call EXCEPT ![p] = [at |-> "open", ino |-> ino, flag |-> flag,
                       slot |-> get_free_slot_in_global, obj |-> sys_malloc, io_buf |-> {}]],
             UNCHANGED <<alive, files, inode, open_inodes, file_table, fd_table, inherited, fault>>
      PROVE  OpenInv'
  <2>1. PICK slot \in Slot : slot = get_free_slot_in_global
    BY <1>5, FreeSlot
  <2>2. PICK obj \in Obj : obj = sys_malloc
    BY <1>5, FreeMemory, SMT, Z3
  <2>3. obj \in settled /\ slots_of(obj) = {} /\ ~OnList(obj)
    BY <1>5, <2>2, FreshMemory, Zenon
  <2>4. call' = [call EXCEPT ![p] = [at |-> "open", ino |-> ino, flag |-> flag,
                                     slot |-> slot, obj |-> obj, io_buf |-> {}]]
    BY <1>5, <2>1, <2>2, SMT, Z3
  <2>5. UNCHANGED <<alive, files, inode, open_inodes, file_table, fd_table>>
    BY <1>5, SMT, Z3
  <2> QED
    BY <1>2, <2>3, <2>4, <2>5, OpenWaits, Zenon
<1> QED
  BY <1>3, <1>4, <1>5, SMT, Z3 DEF sys_open

(* The inode that a call worked on comes to the front of the list: nothing   *)
(* else moves, and the call is over.                                        *)
LEMMA Settles ==
  ASSUME OpenInv, NEW p \in Proc, NEW slot \in Slot, NEW obj \in Obj,
         call[p].obj = obj, call[p].slot = slot, call' = [call EXCEPT ![p] = NoCall],
         open_inodes' = <<obj>> \o open_inodes, Typed',
         inode'[obj].i_open_cnts = 1, inode'[obj].i_no # NONE, slots_of(obj)' \subseteq {slot},
         \A o \in Obj \ {obj} :
           /\ slots_of(o)' \subseteq slots_of(o) /\ inode'[o].heap = inode[o].heap
           /\ inode'[o].i_open_cnts = inode[o].i_open_cnts /\ inode'[o].i_no = inode[o].i_no
  PROVE  OpenInv'
<1>1. Typed /\ Shape /\ Owns /\ List /\ Counts
  BY DEF OpenInv
<1>2. Own(p, obj, slot)
  BY <1>1, Zenon DEF Owns
<1>3. ~OnList(obj) /\ \A q \in Proc \ {p} : call[q].obj # obj
  BY <1>2, Zenon DEF Own
<1>4. /\ call'[p].at = "none" /\ call'[p].obj = NULL
      /\ \A q \in Proc \ {p} : call'[q] = call[q]
  BY <1>1, SMT, Z3 DEF Typed, NoCall
<1>5. /\ \A o : OnList(o)' <=> OnList(o) \/ o = obj
      /\ \A i, j \in DOMAIN open_inodes' : open_inodes'[i] = open_inodes'[j] => i = j
  <2>1. /\ DOMAIN open_inodes' = 1 .. Len(open_inodes) + 1 /\ DOMAIN open_inodes = 1 .. Len(open_inodes)
        /\ Len(open_inodes) \in Nat
        /\ open_inodes'[1] = obj /\ \A i \in DOMAIN open_inodes : open_inodes'[i + 1] = open_inodes[i]
    BY <1>1, SMT, Z3 DEF Typed
  <2>2. \A i \in DOMAIN open_inodes' : i = 1 \/ (i - 1 \in DOMAIN open_inodes /\ open_inodes'[i] = open_inodes[i - 1])
    BY <2>1, SMT, Z3
  <2>3. \A i \in DOMAIN open_inodes : open_inodes[i] # obj
    BY <1>3, Zenon DEF OnList
  <2>4. \A i, j \in DOMAIN open_inodes' : open_inodes'[i] = open_inodes'[j] => i = j
    BY <1>1, <2>1, <2>2, <2>3, SMT, Z3 DEF List
  <2>5. ASSUME NEW o  PROVE OnList(o)' <=> OnList(o) \/ o = obj
    <3>1. ASSUME OnList(o)'  PROVE OnList(o) \/ o = obj
      <4>1. PICK i \in DOMAIN open_inodes' : open_inodes'[i] = o
        BY <3>1, Zenon DEF OnList
      <4>2. CASE i = 1
        BY <2>1, <4>1, <4>2, Zenon
      <4>3. CASE i - 1 \in DOMAIN open_inodes /\ open_inodes'[i] = open_inodes[i - 1]
        BY <4>1, <4>3, Zenon DEF OnList
      <4> QED
        BY <2>2, <4>1, <4>2, <4>3, Zenon
    <3>2. OnList(o) => OnList(o)'
      BY <2>1, SMT, Z3 DEF OnList
    <3>3. OnList(obj)'
      BY <2>1, SMT, Z3 DEF OnList
    <3> QED
      BY <3>1, <3>2, <3>3, Zenon
  <2> QED
    BY <2>4, <2>5, Zenon
<1>6. Shape'
  BY <1>1, <1>4, SMT, Z3 DEF Shape
<1>7. Owns'
  <2>1. SUFFICES ASSUME NEW q \in Proc, NEW o \in Obj, NEW s \in Slot  PROVE Own(q, o, s)'
    BY Zenon DEF Owns
  <2>2. CASE q = p
    BY <1>4, <2>2, Names, SMT, Z3 DEF Own
  <2>3. CASE q # p
    <3>1. call[q].obj = o => o # obj
      BY <1>3, <2>3, Zenon
    <3>2. \A r \in Proc \ {q} : call'[r].obj = o => call[r].obj = o
      BY <1>4, Names, Zenon
    <3> QED
      BY <1>4, <1>5, <2>3, <3>1, <3>2, OwnKept, SMT, Z3
  <2> QED
    BY <2>2, <2>3
<1>8. List'
  <2>1. ASSUME NEW o \in Obj, OnList(o)'  PROVE inode'[o].i_no # NONE
    <3>1. CASE o = obj
      BY <3>1, Zenon
    <3>2. CASE o # obj
      <4>1. OnList(o)
        BY <1>5, <2>1, <3>2, Zenon
      <4>2. inode[o].i_no # NONE
        BY <1>1, <4>1, Zenon DEF List
      <4>3. inode'[o].i_no = inode[o].i_no
        BY <3>2, Zenon
      <4> QED
        BY <4>2, <4>3, Zenon
    <3> QED
      BY <3>1, <3>2, Zenon
  <2> QED
    BY <1>5, <2>1, Zenon DEF List
<1>9. ASSUME NEW o \in settled'  PROVE Counted(o)'
  <2>0. o \in Obj
    BY <1>9 DEF settled
  <2>1. CASE o = obj
    <3>1. Cardinality(slots_of(obj)') \in {0, 1}
      <4>1. slots_of(obj)' = {} \/ slots_of(obj)' = {slot}
        BY SMT, Z3
      <4>2. Cardinality({}) = 0
        BY FS_EmptySet
      <4>3. Cardinality({slot}) = 1
        BY FS_Singleton, Zenon
      <4> QED
        BY <4>1, <4>2, <4>3, Zenon
    <3>2. inode'[obj].i_open_cnts >= Cardinality(slots_of(obj)')
      BY <3>1, SMT, Z3
    <3> QED
      BY <1>5, <2>1, <3>2, Zenon DEF Counted
  <2>2. CASE o # obj
    <3>1. o \in settled
      BY <1>4, <1>9, <2>0, <2>2, SMT, Z3 DEF settled
    <3>2. Counted(o)
      BY <1>1, <3>1, Zenon DEF Counts
    <3>3. inode[o].i_open_cnts \in Int
      BY <1>1, <2>0, SMT, Z3 DEF Typed, Record
    <3>4. inode'[o].i_open_cnts >= inode[o].i_open_cnts
      BY <2>0, <2>2, <3>3, SMT, Z3
    <3> QED
      BY <1>1, <1>5, <2>0, <2>2, <3>2, <3>4, CountedKept, SMT, Z3
  <2> QED
    BY <2>1, <2>2
<1> QED
  BY <1>6, <1>7, <1>8, <1>9, Zenon DEF OpenInv, Counts

(* The end of inode_open() and file_open(). *)
LEMMA InodeRead ==
  ASSUME OpenInv, NEW p \in Proc, inode_read(p)
  PROVE  OpenInv'
<1>1. Typed /\ Shape /\ Owns /\ call[p].at = "open" /\ call[p] \in Call
  BY Zenon DEF OpenInv, Typed, inode_read
<1>2. call[p].obj \in Obj /\ call[p].slot \in Slot /\ call[p].ino \in Ino
  BY <1>1, SMT, Z3 DEF Shape
<1>3. PICK slot \in Slot : slot = call[p].slot
  BY <1>2
<1>4. PICK obj \in Obj : obj = call[p].obj
  BY <1>2
<1>5. PICK flag \in {"r", "w"} : flag = call[p].flag
  BY <1>1 DEF Call
<1>6. slots_of(obj) = {}
  <2>1. Own(p, obj, slot)
    BY <1>1, Zenon DEF Owns
  <2> QED
    BY <1>1, <1>3, <1>4, <2>1, Zenon DEF Own
<1>7. PICK node \in Record : /\ node = [i_no |-> call[p].ino, i_open_cnts |-> 1,
                                        write_deny |-> FALSE, heap |-> KERNEL]
                             /\ node.i_open_cnts = 1 /\ node.i_no # NONE
  <2> DEFINE new == [i_no |-> call[p].ino, i_open_cnts |-> 1,
                     write_deny |-> FALSE, heap |-> KERNEL]
  <2>1. new \in Record /\ new.i_open_cnts = 1 /\ new.i_no # NONE
    BY <1>2, Names DEF Record
  <2> QED
    BY <2>1, Zenon
<1>8. PICK nodes \in [Obj -> Record] :
        /\ nodes = [inode EXCEPT ![obj] = node] /\ nodes[obj] = node
        /\ \A o \in Obj \ {obj} : nodes[o] = inode[o]
  <2>1. PICK old \in [Obj -> Record] : old = inode
    BY <1>1 DEF Typed
  <2>2. /\ [old EXCEPT ![obj] = node] \in [Obj -> Record] /\ [old EXCEPT ![obj] = node][obj] = node
        /\ \A o \in Obj \ {obj} : [old EXCEPT ![obj] = node][o] = old[o]
    BY NodeSet, Zenon
  <2> QED
    BY <2>1, <2>2, Zenon
<1>9. /\ call' = [call EXCEPT ![p] = NoCall] /\ open_inodes' = <<obj>> \o open_inodes
      /\ alive' = alive /\ files' = files /\ file_opened(p, slot, obj, flag, nodes)
  BY <1>3, <1>4, <1>5, <1>7, <1>8, Zenon DEF inode_read
<1>10. /\ inode' \in [Obj -> Record]
       /\ \A o \in Obj : /\ inode'[o].i_open_cnts = nodes[o].i_open_cnts
                         /\ inode'[o].heap = nodes[o].heap /\ inode'[o].i_no = nodes[o].i_no
       /\ file_table' = [file_table EXCEPT ![slot] = [fd_inode |-> obj, fd_flag |-> flag]]
       /\ fd_table' \in [Proc -> [Fd -> Slot \cup {-1}]]
  BY <1>1, <1>9, Opened, Zenon
<1>11. /\ file_table' \in [Slot -> Entry]
       /\ slots_of(obj)' = slots_of(obj) \cup {slot}
       /\ \A o \in Obj \ {obj} : slots_of(o)' \subseteq slots_of(o)
  BY <1>1, <1>10, SlotTaken, Zenon
<1>12. Typed'
  <2>1. open_inodes' \in Seq(Obj) /\ call' \in [Proc -> Call]
    BY <1>1, <1>9, SMT, Z3 DEF Typed, NoCall, Call
  <2> QED
    BY <1>1, <1>9, <1>10, <1>11, <2>1, Zenon DEF Typed
<1>13. inode'[obj].i_open_cnts = 1 /\ inode'[obj].i_no # NONE /\ slots_of(obj)' \subseteq {slot}
  BY <1>6, <1>7, <1>8, <1>10, <1>11, SMT, Z3
<1>14. \A o \in Obj \ {obj} :
         /\ slots_of(o)' \subseteq slots_of(o) /\ inode'[o].heap = inode[o].heap
         /\ inode'[o].i_open_cnts = inode[o].i_open_cnts /\ inode'[o].i_no = inode[o].i_no
  BY <1>8, <1>10, <1>11, Zenon
<1> QED
  BY <1>3, <1>4, <1>9, <1>12, <1>13, <1>14, Settles, Zenon

(* The end of file_create(): the inode is counted and listed. *)
LEMMA Created ==
  ASSUME OpenInv, NEW p \in Proc, file_created(p)
  PROVE  OpenInv'
<1>1. Typed /\ Shape /\ Owns /\ call[p].at = "create"
  BY Zenon DEF OpenInv, file_created
<1>2. call[p].obj \in Obj /\ call[p].slot \in Slot
  BY <1>1, SMT, Z3 DEF Shape
<1>3. PICK slot \in Slot : slot = call[p].slot
  BY <1>2
<1>4. PICK obj \in Obj : obj = call[p].obj
  BY <1>2
<1>5. slots_of(obj) \subseteq {slot} /\ inode[obj].i_no # NONE
  <2>1. Own(p, obj, slot)
    BY <1>1, Zenon DEF Owns
  <2>2. call[p].at # "open"
    BY <1>1
  <2> QED
    BY <1>3, <1>4, <2>1, <2>2, Zenon DEF Own
<1>6. /\ inode' = [inode EXCEPT ![obj].i_open_cnts = 1]
      /\ call' = [call EXCEPT ![p] = NoCall] /\ open_inodes' = <<obj>> \o open_inodes
      /\ fd_table' = [fd_table EXCEPT ![p] = pcb_fd_install(@, slot)]
      /\ alive' = alive /\ files' = files /\ file_table' = file_table
  BY <1>3, <1>4, Zenon DEF file_created
<1>7. /\ inode' \in [Obj -> Record]
      /\ inode'[obj].i_open_cnts = 1 /\ inode'[obj].i_no = inode[obj].i_no
      /\ \A o \in Obj \ {obj} : inode'[o] = inode[o]
  <2>1. PICK r \in Record : r = inode[obj]
    BY <1>1, SMT, Z3 DEF Typed
  <2>2. PICK old \in [Obj -> Record] : old = inode
    BY <1>1 DEF Typed
  <2> DEFINE n == [r EXCEPT !.i_open_cnts = 1]
  <2>3. n \in Record /\ n.i_open_cnts = 1 /\ n.i_no = r.i_no
    BY DEF Record
  <2>4. inode' = [old EXCEPT ![obj] = n]
    BY <1>6, <2>1, <2>2, Zenon
  <2> HIDE DEF n
  <2>5. /\ [old EXCEPT ![obj] = n] \in [Obj -> Record] /\ [old EXCEPT ![obj] = n][obj] = n
        /\ \A o \in Obj \ {obj} : [old EXCEPT ![obj] = n][o] = old[o]
    BY <2>3, NodeSet, Zenon
  <2> QED
    BY <2>1, <2>2, <2>3, <2>4, <2>5, Zenon
<1>8. Typed'
  <2>1. open_inodes' \in Seq(Obj) /\ call' \in [Proc -> Call]
    BY <1>1, <1>6, SMT, Z3 DEF Typed, NoCall, Call
  <2>2. fd_table' \in [Proc -> [Fd -> Slot \cup {-1}]]
    BY <1>1, <1>6, InstallStep, Zenon
  <2> QED
    BY <1>1, <1>6, <1>7, <2>1, <2>2, Zenon DEF Typed
<1>9. \A o : slots_of(o)' = slots_of(o)
  BY <1>6, SMT, Z3 DEF slots_of
<1>10. inode'[obj].i_no # NONE /\ slots_of(obj)' \subseteq {slot}
  BY <1>5, <1>7, <1>9, SMT, Z3
<1>11. \A o \in Obj \ {obj} :
         /\ slots_of(o)' \subseteq slots_of(o) /\ inode'[o].heap = inode[o].heap
         /\ inode'[o].i_open_cnts = inode[o].i_open_cnts /\ inode'[o].i_no = inode[o].i_no
  BY <1>7, <1>9, SMT, Z3
<1> QED
  BY <1>3, <1>4, <1>6, <1>7, <1>8, <1>10, <1>11, Settles, Zenon

(* file_create() up to its first wait: the slot and the inode are taken, and *)
(* the inode is not counted yet.                                            *)
LEMMA CreateWaits ==
  ASSUME OpenInv, NEW p \in Proc, NEW ino \in Ino, NEW flag \in {"r", "w"},
         NEW slot \in Slot, NEW obj \in Obj, call[p].at = "none",
         obj \in settled, slots_of(obj) = {}, ~OnList(obj),
         inode' = [inode EXCEPT ![obj] = [i_no |-> ino, i_open_cnts |-> 0,
                                          write_deny |-> FALSE, heap |-> p]],
         file_table' = [file_table EXCEPT ![slot] = [fd_inode |-> obj, fd_flag |-> flag]],
         call' = [call EXCEPT ![p] = [at |-> "entry", ino |-> ino, flag |-> flag,
                                      slot |-> slot, obj |-> obj, io_buf |-> {}]],
         UNCHANGED <<alive, files, open_inodes, fd_table>>
  PROVE  OpenInv'
<1>1. Typed /\ Shape /\ Owns /\ List /\ Counts /\ \A q \in Proc : call[q].obj # obj
  BY DEF OpenInv, settled
<1>2. /\ call' \in [Proc -> Call]
      /\ call'[p].at = "entry" /\ call'[p].slot = slot /\ call'[p].obj = obj
      /\ call'[p].ino = ino
      /\ \A q \in Proc \ {p} : call'[q] = call[q]
  BY <1>1, SMT, Z3 DEF Typed, Call
<1>3. /\ inode' \in [Obj -> Record] /\ inode'[obj].heap # KERNEL /\ inode'[obj].i_no # NONE
      /\ \A o \in Obj \ {obj} : inode'[o] = inode[o]
  <2> DEFINE n == [i_no |-> ino, i_open_cnts |-> 0, write_deny |-> FALSE, heap |-> p]
  <2>1. n \in Record /\ n.heap # KERNEL /\ n.i_no # NONE
    BY Names, SMT, Z3 DEF Record
  <2>2. PICK old \in [Obj -> Record] : old = inode
    BY <1>1 DEF Typed
  <2> HIDE DEF n
  <2>3. /\ [old EXCEPT ![obj] = n] \in [Obj -> Record] /\ [old EXCEPT ![obj] = n][obj] = n
        /\ \A o \in Obj \ {obj} : [old EXCEPT ![obj] = n][o] = old[o]
    BY <2>1, NodeSet, Zenon
  <2>4. inode' = [old EXCEPT ![obj] = n]
    BY <2>2, Zenon DEF n
  <2> QED
    BY <2>1, <2>2, <2>3, <2>4, Zenon
<1>4. /\ file_table' \in [Slot -> Entry]
      /\ slots_of(obj)' = slots_of(obj) \cup {slot}
      /\ \A o \in Obj \ {obj} : slots_of(o)' \subseteq slots_of(o)
  BY <1>1, SlotTaken, Zenon
<1>5. Typed' /\ Shape' /\ \A o : OnList(o)' <=> OnList(o)
  BY <1>1, <1>2, <1>3, <1>4, SMT, Z3 DEF Typed, Shape, OnList
<1>6. Owns'
  <2>1. SUFFICES ASSUME NEW q \in Proc, NEW o \in Obj, NEW s \in Slot  PROVE Own(q, o, s)'
    BY Zenon DEF Owns
  <2>2. CASE q = p
    <3>1. call'[p].at # "open"
      BY <1>2
    <3>2. \A r \in Proc \ {p} : call'[r].obj # obj
      BY <1>1, <1>2, Zenon
    <3>3. slots_of(obj)' \subseteq {slot}
      BY <1>4, Zenon
    <3> QED
      BY <1>2, <1>3, <1>5, <2>2, <3>1, <3>2, <3>3, Zenon DEF Own
  <2>3. CASE q # p
    <3>1. call[q].obj = o => o # obj
      BY <1>1, Zenon
    <3>2. call[q].obj = o => \A r \in Proc \ {q} : call'[r].obj = o => call[r].obj = o
      BY <1>2, <3>1, Zenon
    <3> QED
      BY <1>2, <1>3, <1>4, <1>5, <2>3, <3>1, <3>2, OwnKept, SMT, Z3
  <2> QED
    BY <2>2, <2>3
<1>7. List'
  BY <1>1, <1>3, <1>5, SMT, Z3 DEF List
<1>8. ASSUME NEW o \in settled'  PROVE Counted(o)'
  <2>1. o \in Obj /\ o # obj /\ o \in settled
    BY <1>1, <1>2, <1>8, Names, SMT, Z3 DEF settled, Shape
  <2>2. Counted(o) /\ inode[o].i_open_cnts \in Int /\ inode'[o] = inode[o]
    BY <1>1, <1>3, <2>1, SMT, Z3 DEF Counts, Typed, Record
  <2>3. inode'[o].i_open_cnts >= inode[o].i_open_cnts
    BY <2>2, SMT, Z3
  <2> QED
    BY <1>1, <1>4, <1>5, <2>1, <2>2, <2>3, CountedKept, SMT, Z3
<1> QED
  BY <1>5, <1>6, <1>7, <1>8, Zenon DEF OpenInv, Counts

LEMMA Creates ==
  ASSUME OpenInv, NEW p \in Proc, NEW ino \in Ino, NEW flag \in Flag, file_create(p, ino, flag)
  PROVE  OpenInv'
<1>1. flag \in {"r", "w"} /\ call[p].at = "none"
  BY Names, Zenon DEF file_create, Ready
<1>2. CASE get_free_slot_in_global = NULL
  BY <1>2, Stutter, SMT, Z3 DEF file_create, vars
<1>3. CASE get_free_slot_in_global # NULL
  <2>1. PICK slot \in Slot : slot = get_free_slot_in_global
    BY <1>3, FreeSlot, SMT, Z3
  <2>2. free_memory # {}
    BY <1>3, SMT, Z3 DEF file_create
  <2>3. PICK obj \in Obj : obj = sys_malloc
    BY <2>2, FreeMemory, SMT, Z3
  <2>4. obj \in settled /\ slots_of(obj) = {} /\ ~OnList(obj)
    BY <2>2, <2>3, FreshMemory, Zenon
  <2>5. /\ inode' = [inode EXCEPT ![obj] = [i_no |-> ino, i_open_cnts |-> 0,
                                            write_deny |-> FALSE, heap |-> p]]
        /\ file_table' = [file_table EXCEPT ![slot] = [fd_inode |-> obj, fd_flag |-> flag]]
        /\ call' = [call EXCEPT ![p] = [at |-> "entry", ino |-> ino, flag |-> flag,
                                        slot |-> slot, obj |-> obj, io_buf |-> {}]]
        /\ UNCHANGED <<alive, files, open_inodes, fd_table>>
    BY <1>3, <2>1, <2>3, SMT, Z3 DEF file_create
  <2> QED
    BY <1>1, <2>4, <2>5, CreateWaits, Zenon
<1> QED
  BY <1>2, <1>3

(* The waits of file_create() for the directory entry. *)
LEMMA EntrySteps ==
  ASSUME OpenInv, NEW p \in Proc, entry_read(p) \/ entry_synced(p)
  PROVE  OpenInv'
<1>1. Typed /\ Shape /\ Owns /\ List /\ Counts
  BY SMT, Z3 DEF OpenInv
<1>2. /\ UNCHANGED <<alive, inode, open_inodes, file_table, fd_table>>
      /\ call[p] \in Call /\ call[p].at \in {"entry", "sync"}
  BY <1>1, Zenon DEF entry_read, entry_synced, Typed
<1>3. /\ call' \in [Proc -> Call] /\ files' \subseteq Ino
      /\ call'[p].at \in {"sync", "create"}
      /\ call'[p].slot = call[p].slot /\ call'[p].obj = call[p].obj
      /\ call'[p].ino = call[p].ino
      /\ \A q \in Proc \ {p} : call'[q] = call[q]
  <2>1. CASE entry_read(p)
    <3>1. PICK c \in Call : c = call[p]
      BY <1>2, SMT, Z3
    <3>2. PICK f \in SUBSET Ino : f = files
      BY <1>1, SMT, Z3 DEF Typed
    <3> DEFINE d == [c EXCEPT !.at = "sync", !.io_buf = f]
    <3>3. d \in Call /\ d.at = "sync" /\ d.slot = c.slot /\ d.obj = c.obj /\ d.ino = c.ino
      BY Zenon DEF Call
    <3>4. call' = [call EXCEPT ![p] = d] /\ files' = files
      BY <1>1, <2>1, <3>1, <3>2, Zenon DEF entry_read, Typed
    <3> HIDE DEF d
    <3> QED
      BY <1>1, <3>1, <3>2, <3>3, <3>4, SMT, Z3 DEF Typed
  <2>2. CASE entry_synced(p)
    <3>1. call[p].ino \in Ino
      BY <1>1, <1>2, SMT, Z3 DEF Shape
    <3> QED
      BY <1>1, <1>2, <2>2, <3>1, Zenon DEF entry_synced, Typed, Call
  <2> QED
    BY <2>1, <2>2, SMT, Z3
<1>4. Typed' /\ Shape' /\ settled' = settled
  <2>1. Typed'
    BY <1>1, <1>2, <1>3, Zenon DEF Typed
  <2>2. \A q \in Proc : /\ call'[q].obj = call[q].obj /\ call'[q].slot = call[q].slot
                        /\ call'[q].ino = call[q].ino
                        /\ (call'[q].at = "none" <=> call[q].at = "none")
    BY <1>2, <1>3, SMT, Z3
  <2>3. Shape'
    BY <1>1, <2>2, SMT, Z3 DEF Shape
  <2>4. settled' = settled
    BY <2>2, Zenon DEF settled
  <2> QED
    BY <2>1, <2>3, <2>4
<1>5. \A o : slots_of(o)' = slots_of(o) /\ (OnList(o)' <=> OnList(o))
  BY <1>2, SMT, Z3 DEF slots_of, OnList
<1>6. Owns'
  <2>1. SUFFICES ASSUME NEW q \in Proc, NEW o \in Obj, NEW s \in Slot  PROVE Own(q, o, s)'
    BY Zenon DEF Owns
  <2>2. \A r \in Proc : call'[r].obj = call[r].obj /\ call'[r].slot = call[r].slot
                        /\ (call'[r].at = "open" <=> call[r].at = "open")
    BY <1>2, <1>3, SMT, Z3
  <2>3. Own(q, o, s)
    BY <1>1, Zenon DEF Owns
  <2> QED
    BY <1>2, <1>5, <2>2, <2>3, SMT, Z3 DEF Own
<1>7. List' /\ Counts'
  BY <1>1, <1>2, <1>4, <1>5, SMT, Z3 DEF List, Counts, Counted
<1> QED
  BY <1>4, <1>6, <1>7, Zenon DEF OpenInv

(* A slot is emptied. *)
LEMMA SlotFreed ==
  ASSUME Typed, NEW slot \in Slot, NEW obj \in Obj, file_table[slot].fd_inode = obj,
         file_table' = [file_table EXCEPT ![slot].fd_inode = NULL]
  PROVE  /\ file_table' \in [Slot -> Entry]
         /\ slots_of(obj)' = slots_of(obj) \ {slot}
         /\ \A o \in Obj \ {obj} : slots_of(o)' = slots_of(o)
<1>1. PICK r \in Entry : r = file_table[slot]
  BY DEF Typed
<1> DEFINE n == [r EXCEPT !.fd_inode = NULL]
<1>2. n \in Entry /\ n.fd_inode = NULL
  BY Zenon DEF Entry
<1>3. file_table' = [file_table EXCEPT ![slot] = n]
  BY <1>1, Zenon
<1> HIDE DEF n
<1>4. /\ file_table' \in [Slot -> Entry]
      /\ \A s \in Slot \ {slot} : file_table'[s] = file_table[s]
      /\ file_table'[slot].fd_inode = NULL
  BY <1>2, <1>3, SMT, Z3 DEF Typed
<1> QED
  BY <1>4, Names, SMT, Z3 DEF slots_of

(* Which inodes inode_close() changes, and how. *)
LEMMA InodeClosed ==
  ASSUME OpenInv, NEW obj \in Obj, inode_close(obj)
  PROVE  /\ inode' \in [Obj -> Record] /\ \A o \in Obj \ {obj} : inode'[o] = inode[o]
         /\ inode'[obj].i_open_cnts = inode[obj].i_open_cnts - 1
         /\ inode[obj].i_open_cnts # 1 =>
              /\ inode'[obj].heap = inode[obj].heap /\ inode'[obj].i_no = inode[obj].i_no
              /\ open_inodes' = open_inodes
         /\ inode[obj].i_open_cnts = 1 => ~OnList(obj)'
         /\ open_inodes' \in Seq(Obj)
         /\ \A o \in Obj \ {obj} : OnList(o)' <=> OnList(o)
         /\ \A i, j \in DOMAIN open_inodes' : open_inodes'[i] = open_inodes'[j] => i = j
<1>1. Typed /\ \A i, j \in DOMAIN open_inodes : open_inodes[i] = open_inodes[j] => i = j
  BY DEF OpenInv, List
<1>2. PICK r \in Record : r = inode[obj]
  BY <1>1, SMT, Z3 DEF Typed
<1>3. PICK old \in [Obj -> Record] : old = inode
  BY <1>1 DEF Typed
<1>4. CASE inode[obj].i_open_cnts = 1
  <2>1. FREE \in Record /\ FREE.i_open_cnts = 0
    BY DEF FREE, Record
  <2>2. inode' = [inode EXCEPT ![obj] = FREE] /\ open_inodes' = list_remove(open_inodes, obj)
    BY <1>4, SMT, Z3 DEF inode_close
  <2>3. /\ inode' \in [Obj -> Record] /\ inode'[obj].i_open_cnts = 0
        /\ \A o \in Obj \ {obj} : inode'[o] = inode[o]
    BY <1>1, <2>1, <2>2, SMT, Z3 DEF Typed
  <2>4. PICK list \in Seq(Obj) : list = open_inodes
    BY <1>1, SMT, Z3 DEF Typed
  <2>5. /\ open_inodes' \in Seq(Obj)
        /\ \A i \in DOMAIN open_inodes' :
             /\ open_inodes'[i] # obj
             /\ \E k \in DOMAIN open_inodes : open_inodes'[i] = open_inodes[k]
             /\ \A j \in DOMAIN open_inodes' : open_inodes'[i] = open_inodes'[j] => i = j
        /\ \A k \in DOMAIN open_inodes : open_inodes[k] # obj =>
             \E i \in DOMAIN open_inodes' : open_inodes'[i] = open_inodes[k]
    <3> DEFINE new == list_remove(list, obj)
    <3>1. \A i, j \in DOMAIN list : list[i] = list[j] => i = j
      BY <1>1, <2>4, Zenon
    <3>2. /\ new \in Seq(Obj)
          /\ \A i \in DOMAIN new :
               /\ new[i] # obj
               /\ \E k \in DOMAIN list : new[i] = list[k]
               /\ \A j \in DOMAIN new : new[i] = new[j] => i = j
          /\ \A k \in DOMAIN list : list[k] # obj => \E i \in DOMAIN new : new[i] = list[k]
      BY <3>1, Removes, SMT, Z3
    <3>3. open_inodes' = new
      BY <2>2, <2>4, Zenon
    <3> HIDE DEF new
    <3>4. /\ open_inodes' \in Seq(Obj) /\ \A i \in DOMAIN open_inodes' : open_inodes'[i] # obj
          /\ \A i, j \in DOMAIN open_inodes' : open_inodes'[i] = open_inodes'[j] => i = j
      BY <3>2, <3>3
    <3>5. \A i \in DOMAIN open_inodes' : \E k \in DOMAIN open_inodes : open_inodes'[i] = open_inodes[k]
      BY <2>4, <3>2, <3>3
    <3>6. \A k \in DOMAIN open_inodes : open_inodes[k] # obj =>
            \E i \in DOMAIN open_inodes' : open_inodes'[i] = open_inodes[k]
      BY <2>4, <3>2, <3>3
    <3> QED
      BY <3>4, <3>5, <3>6, Zenon
  <2>6. ~OnList(obj)' /\ \A o \in Obj \ {obj} : OnList(o)' <=> OnList(o)
    <3>1. ~OnList(obj)'
      BY <2>5, SMT, Z3 DEF OnList
    <3>2. ASSUME NEW o \in Obj \ {obj}  PROVE OnList(o)' <=> OnList(o)
      BY <2>5, <3>2, SMT, Z3 DEF OnList
    <3> QED
      BY <3>1, <3>2, Zenon
  <2> QED
    BY <1>4, <2>3, <2>5, <2>6
<1>5. CASE inode[obj].i_open_cnts # 1
  <2>1. PICK k \in Int : k = r.i_open_cnts - 1
    BY DEF Record
  <2> DEFINE u == [r EXCEPT !.i_open_cnts = k, !.write_deny = FALSE]
  <2>2. u \in Record /\ u.i_open_cnts = k /\ u.heap = r.heap /\ u.i_no = r.i_no
    BY Zenon DEF Record
  <2>3. inode' = [old EXCEPT ![obj] = u] /\ open_inodes' = open_inodes
    BY <1>1, <1>2, <1>3, <1>5, <2>1, Zenon DEF inode_close, Typed
  <2> HIDE DEF u
  <2>4. /\ [old EXCEPT ![obj] = u] \in [Obj -> Record] /\ [old EXCEPT ![obj] = u][obj] = u
        /\ \A o \in Obj \ {obj} : [old EXCEPT ![obj] = u][o] = old[o]
    BY <2>2, NodeSet, Zenon
  <2>5. /\ inode' \in [Obj -> Record] /\ \A o \in Obj \ {obj} : inode'[o] = inode[o]
        /\ inode'[obj].i_open_cnts = inode[obj].i_open_cnts - 1
        /\ inode'[obj].heap = inode[obj].heap /\ inode'[obj].i_no = inode[obj].i_no
    BY <1>2, <1>3, <2>1, <2>2, <2>3, <2>4, Zenon
  <2>6. open_inodes' \in Seq(Obj) /\ \A o : OnList(o)' <=> OnList(o)
    BY <1>1, <2>3, Zenon DEF Typed, OnList
  <2> QED
    BY <1>1, <1>5, <2>3, <2>5, <2>6, Zenon
<1> QED
  BY <1>4, <1>5

(* sys_close() that gets through: the slot is empty, the descriptor is free, *)
(* and the inode is counted down, or freed if it is not one that a call      *)
(* still works on.                                                          *)
LEMMA Closed ==
  ASSUME OpenInv, NEW p \in Proc, NEW fd \in Fd, NEW slot \in Slot, NEW obj \in Obj,
         file_table[slot].fd_inode = obj, inode_close(obj),
         inode[obj].i_open_cnts = 1 => inode[obj].heap = KERNEL,
         file_table' = [file_table EXCEPT ![slot].fd_inode = NULL],
         fd_table' = [fd_table EXCEPT ![p][fd] = -1],
         UNCHANGED <<alive, files, call>>
  PROVE  OpenInv'
<1>1. Typed /\ Shape /\ Owns /\ List /\ Counts
  BY SMT, Z3 DEF OpenInv
<1>2. /\ file_table' \in [Slot -> Entry]
      /\ slots_of(obj)' = slots_of(obj) \ {slot}
      /\ \A o \in Obj \ {obj} : slots_of(o)' = slots_of(o)
  BY <1>1, SlotFreed, Zenon
<1>3. slot \in slots_of(obj)
  BY SMT, Z3 DEF slots_of
<1>4. /\ inode' \in [Obj -> Record] /\ \A o \in Obj \ {obj} : inode'[o] = inode[o]
      /\ inode'[obj].i_open_cnts = inode[obj].i_open_cnts - 1
      /\ inode[obj].i_open_cnts # 1 =>
           /\ inode'[obj].heap = inode[obj].heap /\ inode'[obj].i_no = inode[obj].i_no
           /\ open_inodes' = open_inodes
      /\ inode[obj].i_open_cnts = 1 => ~OnList(obj)'
      /\ open_inodes' \in Seq(Obj)
      /\ \A o \in Obj \ {obj} : OnList(o)' <=> OnList(o)
      /\ \A i, j \in DOMAIN open_inodes' : open_inodes'[i] = open_inodes'[j] => i = j
  BY InodeClosed, Zenon
<1>5. fd_table' \in [Proc -> [Fd -> Slot \cup {-1}]]
  BY <1>1 DEF Typed
<1>6. Typed' /\ Shape' /\ settled' = settled
  BY <1>1, <1>2, <1>4, <1>5, Zenon DEF Typed, Shape, settled
<1>7. OnList(obj)' => OnList(obj) /\ inode'[obj].i_no = inode[obj].i_no
  BY <1>4, Zenon DEF OnList
<1>8. Owns'
  <2>1. SUFFICES ASSUME NEW q \in Proc, NEW o \in Obj, NEW s \in Slot  PROVE Own(q, o, s)'
    BY Zenon DEF Owns
  <2>2. CASE o # obj
    BY <1>2, <1>4, <2>2, OwnKept, SMT, Z3
  <2>3. CASE o = obj /\ call[q].obj = obj /\ call[q].slot = s
    <3>1. Own(q, obj, s)
      BY <1>1, Zenon DEF Owns
    <3>2. inode[obj].heap # KERNEL
      BY <1>3, <2>3, <3>1, Zenon DEF Own
    <3>3. /\ inode'[obj].heap = inode[obj].heap /\ inode'[obj].i_no = inode[obj].i_no
          /\ slots_of(obj)' \subseteq slots_of(obj)
      BY <1>2, <1>4, <3>2, Zenon
    <3> QED
      BY <1>7, <2>3, <3>3, OwnKept, Zenon
  <2>4. CASE ~(call[q].obj = o /\ call[q].slot = s)
    BY <2>4, Zenon DEF Own
  <2> QED
    BY <2>2, <2>3, <2>4, Zenon
<1>9. List'
  BY <1>1, <1>4, <1>7, SMT, Z3 DEF List
<1>10. ASSUME NEW o \in settled  PROVE Counted(o)'
  <2>1. o \in Obj /\ Counted(o) /\ inode[o].i_open_cnts \in Int
    BY <1>1, <1>10, SMT, Z3 DEF Counts, settled, Typed, Record
  <2>2. CASE o # obj
    <3>1. inode'[o].i_open_cnts >= inode[o].i_open_cnts
      BY <1>4, <2>1, <2>2, SMT, Z3
    <3> QED
      BY <1>1, <1>2, <1>4, <1>6, <2>1, <2>2, <3>1, CountedKept, SMT, Z3
  <2>3. CASE o = obj
    <3>1. /\ Cardinality(slots_of(obj)) \in Nat
          /\ Cardinality(slots_of(obj) \ {slot}) = Cardinality(slots_of(obj)) - 1
      BY <1>3, SlotCount, Zenon
    <3>2. inode[obj].i_open_cnts >= Cardinality(slots_of(obj)) /\ OnList(obj)
      BY <1>3, <2>1, <2>3, Zenon DEF Counted
    <3>3. inode'[obj].i_open_cnts >= Cardinality(slots_of(obj)')
      BY <1>2, <1>4, <2>1, <2>3, <3>1, <3>2, SMT, Z3
    <3>4. CASE inode[obj].i_open_cnts # 1
      <4>1. OnList(obj)'
        BY <1>4, <3>2, <3>4, Zenon DEF OnList
      <4> QED
        BY <2>3, <3>3, <4>1, Zenon DEF Counted
    <3>5. CASE inode[obj].i_open_cnts = 1
      <4>1. Cardinality(slots_of(obj) \ {slot}) <= 0 /\ Cardinality(slots_of(obj) \ {slot}) + 1 \in Nat
        BY <3>1, <3>2, <3>5
      <4>2. IsFiniteSet(slots_of(obj) \ {slot})
        BY SlotCount, FS_RemoveElement, Zenon
      <4>3. Cardinality(slots_of(obj) \ {slot}) \in Nat
        BY <4>2, FS_CardinalityType, Zenon
      <4>4. Cardinality(slots_of(obj) \ {slot}) = 0
        BY <4>1, <4>3
      <4>5. slots_of(obj) \ {slot} = {}
        BY <4>2, <4>4, FS_EmptySet
      <4> QED
        BY <1>2, <2>3, <3>3, <4>5, Zenon DEF Counted
    <3> QED
      BY <3>4, <3>5
  <2> QED
    BY <2>2, <2>3
<1> QED
  BY <1>6, <1>8, <1>9, <1>10, Zenon DEF OpenInv, Counts

LEMMA Closes ==
  ASSUME OpenInv, NEW p \in Proc, NEW fd \in Fd, sys_close(p, fd)
  PROVE  OpenInv'
<1>1. Typed /\ fd_table[p][fd] # -1
  BY SMT, Z3 DEF OpenInv, sys_close
<1>2. PICK slot \in Slot : slot = fd_table[p][fd]
  BY <1>1, SMT, Z3 DEF Typed
<1>3. CASE UNCHANGED <<alive, files, inode, open_inodes, file_table, fd_table, call>>
  BY <1>3, Stutter, SMT, Z3
<1>4. ASSUME file_table[slot].fd_inode # NULL, inode_close(file_table[slot].fd_inode),
             ~(/\ inode[file_table[slot].fd_inode].i_open_cnts = 1
               /\ inode[file_table[slot].fd_inode].heap # KERNEL),
             file_table' = [file_table EXCEPT ![slot].fd_inode = NULL],
             fd_table' = [fd_table EXCEPT ![p][fd] = -1],
             UNCHANGED <<alive, files, call>>
      PROVE  OpenInv'
  <2>1. PICK obj \in Obj : obj = file_table[slot].fd_inode
    BY <1>1, <1>4 DEF Typed, Entry
  <2>2. inode_close(obj) /\ (inode[obj].i_open_cnts = 1 => inode[obj].heap = KERNEL)
    BY <1>4, <2>1, Zenon
  <2> QED
    BY <1>4, <2>1, <2>2, Closed, Zenon
<1> QED
  BY <1>2, <1>3, <1>4, SMT, Z3 DEF sys_close, fails

(* sys_fork(): inodes are counted up, and stay what they are. *)
LEMMA Forks ==
  ASSUME OpenInv, NEW p \in Proc, NEW q \in Proc, sys_fork(p, q)
  PROVE  OpenInv'
<1>1. Typed /\ Shape /\ Owns /\ List /\ Counts
  BY Zenon DEF OpenInv
<1>2. CASE UNCHANGED <<alive, files, inode, open_inodes, file_table, fd_table, call>>
  BY <1>2, Stutter
<1>3. ASSUME alive' = alive \cup {q}, fd_table' = [fd_table EXCEPT ![q] = fd_table[p]],
             inode' = update_inode_open_cnts(p),
             UNCHANGED <<files, open_inodes, file_table, call>>
      PROVE  OpenInv'
  <2>1. ASSUME NEW o \in Obj
        PROVE  /\ inode'[o] \in Record /\ inode'[o].i_open_cnts >= inode[o].i_open_cnts
               /\ inode'[o].heap = inode[o].heap /\ inode'[o].i_no = inode[o].i_no
    <3> DEFINE F == {fd \in Fd : fd_table[p][fd] # -1 /\ file_table[fd_table[p][fd]].fd_inode = o}
    <3>1. PICK r \in Record : r = inode[o]
      BY <1>1, SMT, Z3 DEF Typed
    <3>2. F \in SUBSET Fd
      OBVIOUS
    <3>3. IsFiniteSet(F)
      BY <3>2, Names, FS_Subset, Zenon
    <3>4. PICK n \in Nat : n = Cardinality(F)
      BY <3>3, FS_CardinalityType, Zenon
    <3>5. PICK k \in Int : k = r.i_open_cnts + n /\ k >= r.i_open_cnts
      BY DEF Record
    <3>6. inode'[o] = [r EXCEPT !.i_open_cnts = k]
      BY <1>3, <3>1, <3>4, <3>5, Zenon DEF update_inode_open_cnts
    <3>7. LET u == [r EXCEPT !.i_open_cnts = k]
          IN  u \in Record /\ u.i_open_cnts = k /\ u.heap = r.heap /\ u.i_no = r.i_no
      BY Zenon DEF Record
    <3> QED
      BY <3>1, <3>5, <3>6, <3>7, Zenon
  <2>2. inode' \in [Obj -> Record]
    <3>1. inode' = [o \in Obj |-> inode'[o]]
      BY <1>3, Zenon DEF update_inode_open_cnts
    <3> QED
      BY <2>1, <3>1, Zenon
  <2>3. fd_table' \in [Proc -> [Fd -> Slot \cup {-1}]]
    BY <1>1, <1>3 DEF Typed
  <2>4. Typed' /\ Shape' /\ settled' = settled
    BY <1>1, <1>3, <2>2, <2>3, SMT, Z3 DEF Typed, Shape, settled
  <2>5. \A o : slots_of(o)' = slots_of(o) /\ (OnList(o)' <=> OnList(o))
    BY <1>3, SMT, Z3 DEF slots_of, OnList
  <2>6. Owns'
    BY <1>1, <1>3, <2>1, <2>5, OwnKept, SMT, Z3 DEF Owns
  <2>7. List'
    BY <1>1, <1>3, <2>1, <2>5, SMT, Z3 DEF List
  <2>8. Counts'
    <3>1. ASSUME NEW o \in settled  PROVE Counted(o)'
      <4>1. o \in Obj /\ Counted(o)
        BY <1>1, <3>1, Zenon DEF Counts, settled
      <4> QED
        BY <1>1, <2>1, <2>4, <2>5, <4>1, CountedKept, SMT, Z3
    <3> QED
      BY <2>4, <3>1, Zenon DEF Counts
  <2> QED
    BY <2>4, <2>6, <2>7, <2>8, Zenon DEF OpenInv
<1> QED
  BY <1>2, <1>3, Zenon DEF sys_fork, fails

LEMMA OpenStep ==
  ASSUME OpenInv, [Next]_vars
  PROVE  OpenInv'
<1>1. CASE UNCHANGED vars
  BY <1>1, Stutter, SMT, Z3 DEF vars
<1>2. ASSUME NEW p \in Proc, entry_read(p) \/ entry_synced(p)
      PROVE  OpenInv'
  BY <1>2, EntrySteps, Zenon
<1> QED
  BY <1>1, <1>2, Opens, Creates, InodeRead, Created, Closes, Forks, Zenon DEF Next, Stopped

LEMMA OpenInit ==
  ASSUME Init
  PROVE  OpenInv
<1>1. Typed
  <2>1. FREE \in Record
    BY SMT, Z3 DEF FREE, Record
  <2>2. NoCall \in Call
    BY SMT, Z3 DEF NoCall, Call
  <2>3. inode \in [Obj -> Record] /\ call \in [Proc -> Call]
    BY <2>1, <2>2, Zenon DEF Init
  <2>4. file_table \in [Slot -> Entry]
    BY Zenon DEF Init, Entry
  <2>5. fd_table \in [Proc -> [Fd -> Slot \cup {-1}]]
    BY Zenon DEF Init
  <2>6. open_inodes \in Seq(Obj)
    BY EmptySeq, Zenon DEF Init
  <2> QED
    BY <2>3, <2>4, <2>5, <2>6, OpenFilesAssumption, Zenon DEF Init, Typed
<1>2. \A p \in Proc : call[p].at = "none" /\ call[p].obj = NULL
  BY Zenon DEF Init, NoCall
<1>3. Shape /\ Owns
  BY <1>2, Names, Zenon DEF Shape, Owns, Own
<1>4. \A i \in DOMAIN open_inodes : FALSE
  <2>1. open_inodes \in Seq(Obj) /\ Len(open_inodes) = 0
    BY EmptySeq, Zenon DEF Init
  <2>2. DOMAIN open_inodes = 1 .. 0
    BY <2>1, LenProperties, SMT, Z3
  <2> QED
    BY <2>2, SMT, Z3
<1>5. List
  BY <1>4, Zenon DEF List, OnList
<1>6. ASSUME NEW o \in Obj  PROVE Counted(o)
  <2>1. slots_of(o) = {}
    BY Names, Zenon DEF Init, slots_of
  <2>2. inode[o].i_open_cnts = 0
    BY Zenon DEF Init, FREE
  <2>3. Cardinality({}) = 0
    BY FS_EmptySet
  <2> QED
    BY <2>1, <2>2, <2>3, SMT, Z3 DEF Counted
<1> QED
  BY <1>1, <1>3, <1>5, <1>6, Zenon DEF OpenInv, Counts, settled

-----------------------------------------------------------------------------
(* However opens, creations, closes and forks of any number of processes      *)
(* interleave at their waits for the disk, and though descriptors are shared *)
(* and slots are lost, a slot of file_table never refers to an inode that    *)
(* inode_close() has freed: the inode is on open_inodes and is counted at    *)
(* least once per slot.                                                     *)
THEOREM SlotsAreCounted == Spec => []SlotsCounted
<1>1. Init => OpenInv
  BY OpenInit
<1>2. OpenInv /\ [Next]_vars => OpenInv'
  BY OpenStep
<1>3. OpenInv => SlotsCounted
  <2>1. SUFFICES ASSUME OpenInv, NEW s \in Slot, file_table[s].fd_inode \in settled
                 PROVE  /\ file_table[s].fd_inode \in listed
                        /\ inode[file_table[s].fd_inode].i_open_cnts >=
                             Cardinality(slots_of(file_table[s].fd_inode))
    BY Zenon DEF SlotsCounted
  <2>2. PICK o \in settled : o = file_table[s].fd_inode
    BY <2>1
  <2>3. Counted(o)
    BY <2>1, Zenon DEF OpenInv, Counts
  <2>4. s \in slots_of(o)
    BY <2>2, Zenon DEF slots_of
  <2>5. OnList(o) /\ inode[o].i_open_cnts >= Cardinality(slots_of(o))
    BY <2>3, <2>4, Zenon DEF Counted
  <2>6. o \in listed
    BY <2>5, Zenon DEF OnList, listed, ToSet
  <2> QED
    BY <2>2, <2>5, <2>6, Zenon
<1> QED
  BY <1>1, <1>2, <1>3, PTL DEF Spec
=============================================================================
