--------------------------- MODULE IoQueueProofs ---------------------------
(***************************************************************************)
(* The keyboard buffer implements a bounded queue, for every number of       *)
(* slots, every set of readers and every set of characters.                 *)
(***************************************************************************)
EXTENDS IoQueue, ThreadsProofs

(* The indices are slots and the slots hold characters. *)
RingInv == buf \in [Slot -> Char] /\ head \in Slot /\ tail \in Slot

(* A sum of two indices is reduced by going round the ring once. *)
LEMMA Wrap ==
  ASSUME NEW x \in Nat, x < 2 * bufsize
  PROVE  x % bufsize = IF x < bufsize THEN x ELSE x - bufsize
<1>. DEFINE q == x \div bufsize
            r == x % bufsize
<1>1. bufsize \in Nat \ {0}
  BY IoQueueAssumption
<1>2. q \in Nat /\ r \in 0 .. bufsize - 1 /\ x = q * bufsize + r
  BY <1>1
<1>3. CASE q = 0
  BY <1>1, <1>2, <1>3
<1>4. CASE q = 1
  BY <1>1, <1>2, <1>4
<1>5. CASE q >= 2
  <2>1. q * bufsize >= 2 * bufsize
    BY <1>1, <1>2, <1>5
  <2>. QED  BY <1>1, <1>2, <2>1
<1>. QED  BY <1>2, <1>3, <1>4, <1>5

(* next_pos() is the slot behind, and slot 0 behind the last one. *)
LEMMA NextPos ==
  ASSUME NEW p \in Slot
  PROVE  /\ next_pos(p) \in Slot
         /\ next_pos(p) = IF p = bufsize - 1 THEN 0 ELSE p + 1
<1>. DEFINE x == p + 1
<1>1. bufsize \in Nat \ {0} /\ x \in Nat /\ x < 2 * bufsize
  BY IoQueueAssumption DEF Slot
<1>2. x % bufsize = IF x < bufsize THEN x ELSE x - bufsize
  <2>. HIDE DEF x
  <2>. QED  BY <1>1, Wrap
<1>3. next_pos(p) = x % bufsize
  BY DEF next_pos
<1>. QED  BY <1>1, <1>2, <1>3 DEF Slot

(* How many characters are in a ring with these indices, and where the i-th   *)
(* of them is.                                                              *)
Size(h, t) == IF t <= h THEN h - t ELSE h + bufsize - t
Place(t, i) == IF t + i - 1 < bufsize THEN t + i - 1 ELSE t + i - 1 - bufsize
Ring(b, h, t) == [i \in 1 .. Size(h, t) |-> b[Place(t, i)]]

LEMMA SizeAndPlace ==
  ASSUME NEW h \in Slot, NEW t \in Slot
  PROVE  /\ Size(h, t) \in 0 .. bufsize - 1
         /\ \A i \in 1 .. bufsize : Place(t, i) \in Slot
  BY IoQueueAssumption DEF Size, Place, Slot

(* The characters in the ring, without the remainders. *)
LEMMA ContentsAre == RingInv => contents = Ring(buf, head, tail)
<1>. SUFFICES ASSUME RingInv  PROVE contents = Ring(buf, head, tail)
  OBVIOUS
<1>1. bufsize \in Nat \ {0} /\ head \in 0 .. bufsize - 1 /\ tail \in 0 .. bufsize - 1
  BY IoQueueAssumption DEF RingInv, Slot
<1>2. (head + bufsize - tail) % bufsize = Size(head, tail)
  <2>. DEFINE x == head + bufsize - tail
  <2>1. x \in Nat /\ x < 2 * bufsize
    BY <1>1
  <2>2. x % bufsize = IF x < bufsize THEN x ELSE x - bufsize
    <3>. HIDE DEF x
    <3>. QED  BY <2>1, Wrap
  <2>. QED  BY <1>1, <2>2 DEF Size
<1>3. ASSUME NEW i \in 1 .. Size(head, tail)
      PROVE  (tail + i - 1) % bufsize = Place(tail, i)
  <2>. DEFINE x == tail + i - 1
  <2>1. x \in Nat /\ x < 2 * bufsize
    BY <1>1, SizeAndPlace DEF RingInv
  <2>2. x % bufsize = IF x < bufsize THEN x ELSE x - bufsize
    <3>. HIDE DEF x
    <3>. QED  BY <2>1, Wrap
  <2>. QED  BY <1>1, <2>1, <2>2 DEF Place
<1>. QED  BY <1>2, <1>3 DEF contents, Ring

LEMMA ContentsAreNext == (RingInv => contents = Ring(buf, head, tail))'
  BY ContentsAre, PTL

LEMMA RingIsSeq ==
  ASSUME NEW b \in [Slot -> Char], NEW h \in Slot, NEW t \in Slot
  PROVE  Ring(b, h, t) \in Seq(Char) /\ Len(Ring(b, h, t)) = Size(h, t)
<1>1. Size(h, t) \in Nat /\ \A i \in 1 .. Size(h, t) : b[Place(t, i)] \in Char
  BY SizeAndPlace, IoQueueAssumption
<1>. QED  BY <1>1 DEF Ring

(* ioqueue_putchar() on a ring that is not full appends. *)
LEMMA PutAppends ==
  ASSUME NEW b \in [Slot -> Char], NEW h \in Slot, NEW t \in Slot, NEW c \in Char,
         next_pos(h) # t
  PROVE  /\ Size(h, t) < bufsize - 1
         /\ Ring([b EXCEPT ![h] = c], next_pos(h), t) = Append(Ring(b, h, t), c)
<1>. DEFINE old == Ring(b, h, t)
            new == Ring([b EXCEPT ![h] = c], next_pos(h), t)
            size == Size(h, t)
<1>1. bufsize \in Nat \ {0, 1} /\ size \in Nat
  BY IoQueueAssumption, SizeAndPlace
<1>2. Size(next_pos(h), t) = size + 1 /\ size < bufsize - 1
  <2>1. next_pos(h) = IF h = bufsize - 1 THEN 0 ELSE h + 1
    BY NextPos
  <2>2. h \in 0 .. bufsize - 1 /\ t \in 0 .. bufsize - 1
    BY DEF Slot
  <2>. QED  BY <1>1, <2>1, <2>2 DEF Size
<1>3. /\ old \in Seq(Char) /\ Len(old) = size
      /\ new \in Seq(Char) /\ Len(new) = size + 1
  <2>1. next_pos(h) \in Slot /\ [b EXCEPT ![h] = c] \in [Slot -> Char]
    BY NextPos
  <2>2. Len(new) = Size(next_pos(h), t) /\ new \in Seq(Char)
    BY <2>1, RingIsSeq, Zenon
  <2>. QED  BY <1>2, <2>2, RingIsSeq
<1>4. Place(t, size + 1) = h
  BY <1>1, <1>2 DEF Size, Place, Slot
<1>5. \A i \in 1 .. size : Place(t, i) # h
  BY <1>1, <1>2 DEF Size, Place, Slot
<1>6. ASSUME NEW i \in 1 .. size + 1
      PROVE  new[i] = Append(old, c)[i]
  <2>1. new[i] = [b EXCEPT ![h] = c][Place(t, i)]
    BY <1>2, <1>6 DEF Ring
  <2>2. Place(t, i) \in Slot
    BY <1>1, <1>2, <1>6, SizeAndPlace
  <2>3. CASE i \in 1 .. size
    <3>1. new[i] = b[Place(t, i)]
      BY <1>5, <2>1, <2>2, <2>3
    <3>2. old[i] = b[Place(t, i)]
      BY <2>3 DEF Ring
    <3>3. Append(old, c)[i] = old[i]
      BY <1>3, <2>3
    <3>. QED  BY <3>1, <3>2, <3>3
  <2>4. CASE i = size + 1
    <3>1. new[i] = c
      BY <1>4, <2>1, <2>4
    <3>2. Append(old, c)[i] = c
      BY <1>3, <2>4
    <3>. QED  BY <3>1, <3>2
  <2>5. i \in 1 .. size \/ i = size + 1
    BY <1>1
  <2>. QED  BY <2>3, <2>4, <2>5, Zenon
<1>7. Append(old, c) \in Seq(Char) /\ Len(Append(old, c)) = size + 1
  BY <1>3
<1>8. new = Append(old, c)
  BY <1>3, <1>6, <1>7, SameSeq, Zenon
<1>. QED  BY <1>2, <1>8, Zenon

(* ioqueue_getchar() on a ring that is not empty takes the first one. *)
LEMMA GetTakes ==
  ASSUME NEW b \in [Slot -> Char], NEW h \in Slot, NEW t \in Slot, h # t
  PROVE  /\ Ring(b, h, t) # <<>>
         /\ b[t] = Head(Ring(b, h, t))
         /\ Ring(b, h, next_pos(t)) = Tail(Ring(b, h, t))
<1>. DEFINE old == Ring(b, h, t)
            new == Ring(b, h, next_pos(t))
            size == Size(h, t)
<1>1. bufsize \in Nat \ {0, 1} /\ size \in Nat \ {0}
  BY IoQueueAssumption, SizeAndPlace DEF Size, Slot
<1>2. Size(h, next_pos(t)) = size - 1
  <2>1. next_pos(t) = IF t = bufsize - 1 THEN 0 ELSE t + 1
    BY NextPos
  <2>2. h \in 0 .. bufsize - 1 /\ t \in 0 .. bufsize - 1
    BY DEF Slot
  <2>. QED  BY <1>1, <2>1, <2>2 DEF Size
<1>3. /\ old \in Seq(Char) /\ Len(old) = size
      /\ new \in Seq(Char) /\ Len(new) = size - 1
  BY <1>2, RingIsSeq, NextPos
<1>4. old # <<>>
  BY <1>1, <1>3
<1>5. Head(old) = b[t]
  <2>1. Place(t, 1) = t
    BY <1>1 DEF Place, Slot
  <2>2. old[1] = b[Place(t, 1)]
    BY <1>1 DEF Ring
  <2>. QED  BY <1>3, <1>4, <2>1, <2>2
<1>6. /\ Tail(old) \in Seq(Char) /\ Len(Tail(old)) = size - 1
      /\ \A i \in 1 .. size - 1 : Tail(old)[i] = old[i + 1]
  BY <1>3, <1>4, SeqTail
<1>7. ASSUME NEW i \in 1 .. size - 1
      PROVE  new[i] = Tail(old)[i]
  <2>1. i + 1 \in 1 .. size
    BY <1>1, <1>7
  <2>2. Place(next_pos(t), i) = Place(t, i + 1)
    <3>1. next_pos(t) = IF t = bufsize - 1 THEN 0 ELSE t + 1
      BY NextPos
    <3>2. t \in 0 .. bufsize - 1 /\ i \in Nat /\ i < bufsize
      BY <1>1, <1>7, SizeAndPlace DEF Slot
    <3>. QED  BY <1>1, <3>1, <3>2 DEF Place
  <2>3. new[i] = b[Place(next_pos(t), i)]
    BY <1>2, <1>7 DEF Ring
  <2>4. old[i + 1] = b[Place(t, i + 1)]
    BY <2>1 DEF Ring
  <2>. QED  BY <1>6, <1>7, <2>2, <2>3, <2>4
<1>8. new = Tail(old)
  BY <1>3, <1>6, <1>7, SameSeq
<1>. QED  BY <1>4, <1>5, <1>8

-----------------------------------------------------------------------------
LEMMA RingInit == Init => RingInv
  BY IoQueueAssumption DEF Init, RingInv, Slot

(* What a step does to the ring and to what has been read: a key is stored,    *)
(* a character is taken, a read() returns, or nothing.                      *)
Stored ==
  /\ ~ioqueue_full
  /\ \E c \in Char : buf' = [buf EXCEPT ![head] = c]
  /\ head' = next_pos(head) /\ UNCHANGED <<tail, got>>

Taken(r) ==
  /\ ~ioqueue_empty
  /\ got' = [got EXCEPT ![r] = Append(@, buf[tail])]
  /\ tail' = next_pos(tail) /\ UNCHANGED <<buf, head>>

Returned(r) == got' = [got EXCEPT ![r] = <<>>] /\ UNCHANGED <<buf, head, tail>>

LEMMA Steps ==
  ASSUME [Next]_vars
  PROVE  \/ Stored
         \/ \E r \in Reader : Taken(r) \/ Returned(r)
         \/ UNCHANGED <<buf, head, tail, got>>
<1>1. ASSUME NEW t \in Reader, getchar_empty(t) \/ ioqueue_wait(t) \/ getchar_woken(t)
      PROVE  UNCHANGED <<buf, head, tail, got>>
  BY <1>1 DEF getchar_empty, ioqueue_wait, getchar_woken, queueVars, readVars
<1>2. ASSUME NEW t \in Reader, getchar(t)  PROVE Taken(t)
  BY <1>2 DEF getchar, Taken
<1>3. ASSUME NEW t \in Reader, read_done(t)  PROVE Returned(t)
  BY <1>3 DEF read_done, Returned, queueVars
<1>4. ASSUME NEW t \in Thread, Fork(t) \/ sys_read(t)
      PROVE  UNCHANGED <<buf, head, tail, got>>
  BY <1>4 DEF Fork, sys_read, queueVars, readVars
<1>5. CASE intr_keyboard_handler
  <2>1. CASE ioqueue_full
    BY <1>5, <2>1 DEF intr_keyboard_handler, queueVars, readVars
  <2>2. CASE ~ioqueue_full
    <3>1. PICK c \in Char : ioqueue_putchar(c)
      BY <1>5, <2>2 DEF intr_keyboard_handler
    <3>2. UNCHANGED got
      BY <1>5 DEF intr_keyboard_handler, readVars
    <3>. QED  BY <2>2, <3>1, <3>2, Zenon DEF ioqueue_putchar, Stored
  <2>. QED  BY <2>1, <2>2
<1>6. Timer \/ intr_hd_handler \/ idle_block => UNCHANGED <<buf, head, tail, got>>
  BY Zenon DEF Timer, intr_hd_handler, idle_block, queueVars, readVars
<1>9. MainWaits \/ MainDone \/ Spin => UNCHANGED <<buf, head, tail, got>>
  BY Zenon DEF MainWaits, MainDone, Spin, vars, queueVars, readVars
<1>7. UNCHANGED <<queueVars, readVars>> => UNCHANGED <<buf, head, tail, got>>
  BY DEF queueVars, readVars
<1>8. UNCHANGED vars => UNCHANGED <<queueVars, readVars>>
  BY DEF vars
<1>. QED  BY <1>1, <1>2, <1>3, <1>4, <1>5, <1>6, <1>7, <1>8, <1>9 DEF Next, KernelStep

LEMMA RingNext ==
  ASSUME RingInv, [Next]_vars
  PROVE  RingInv'
<1>1. CASE Stored
  BY <1>1, NextPos DEF Stored, RingInv
<1>2. ASSUME NEW r \in Reader, Taken(r)  PROVE RingInv'
  BY <1>2, NextPos DEF Taken, RingInv
<1>3. ASSUME NEW r \in Reader, Returned(r)  PROVE RingInv'
  BY <1>3 DEF Returned, RingInv
<1>4. CASE UNCHANGED <<buf, head, tail, got>>
  BY <1>4 DEF RingInv
<1>. QED  BY <1>1, <1>2, <1>3, <1>4, Steps

(* The wrapping indices, the keys that are dropped and the readers that take   *)
(* characters behave as the bounded queue of KeyQueue for every bufsize: a   *)
(* key that finds room is given to one reader, once, in the order of typing. *)
THEOREM RingIsQueue == Spec => ImplementsQueue
<1>1. Init => Queue!Init
  <2>. SUFFICES ASSUME Init  PROVE Queue!Init
    OBVIOUS
  <2>1. RingInv /\ Size(head, tail) = 0
    BY RingInit, IoQueueAssumption DEF Init, Size
  <2>2. contents \in Seq(Char) /\ Len(contents) = 0
    BY <2>1, ContentsAre, RingIsSeq DEF RingInv
  <2>3. contents = <<>>
    BY <2>2
  <2>. QED  BY <2>3 DEF Init, Queue!Init
<1>2. RingInv /\ RingInv' /\ [Next]_vars => [Queue!Next]_<<contents, got>>
  <2>. SUFFICES ASSUME RingInv, RingInv', [Next]_vars
                PROVE  [Queue!Next]_<<contents, got>>
    OBVIOUS
  <2>1. contents = Ring(buf, head, tail) /\ contents' = Ring(buf', head', tail')
    <3>1. contents = Ring(buf, head, tail)
      BY ContentsAre
    <3>2. contents' = Ring(buf, head, tail)'
      BY ContentsAreNext
    <3>. QED  BY <3>1, <3>2 DEF Ring, Size, Place
  <2>2. CASE Stored
    <3>1. PICK c \in Char : buf' = [buf EXCEPT ![head] = c]
      BY <2>2, Zenon DEF Stored
    <3>2. /\ Size(head, tail) < bufsize - 1
          /\ Ring([buf EXCEPT ![head] = c], next_pos(head), tail) = Append(Ring(buf, head, tail), c)
      <4>1. next_pos(head) # tail
        BY <2>2 DEF Stored, ioqueue_full
      <4>2. buf \in [Slot -> Char] /\ head \in Slot /\ tail \in Slot
        BY DEF RingInv
      <4>. QED  BY <4>1, <4>2, PutAppends, Zenon
    <3>3. Len(contents) < bufsize - 1
      BY <2>1, <3>2, RingIsSeq, Zenon DEF RingInv
    <3>4. contents' = Append(contents, c) /\ UNCHANGED got
      BY <2>1, <2>2, <3>1, <3>2, Zenon DEF Stored
    <3>. QED  BY <3>3, <3>4 DEF Queue!Next, Queue!Type
  <2>3. ASSUME NEW r \in Reader, Taken(r)  PROVE Queue!Next
    <3>1. /\ contents # <<>> /\ buf[tail] = Head(contents)
          /\ Ring(buf, head, next_pos(tail)) = Tail(contents)
      BY <2>1, <2>3, GetTakes DEF Taken, RingInv, ioqueue_empty
    <3>2. contents' = Tail(contents) /\ got' = [got EXCEPT ![r] = Append(@, Head(contents))]
      BY <2>1, <2>3, <3>1 DEF Taken
    <3>. QED  BY <3>1, <3>2, Zenon DEF Queue!Next, Queue!Take
  <2>4. ASSUME NEW r \in Reader, Returned(r)  PROVE Queue!Next
    <3>1. contents' = contents /\ got' = [got EXCEPT ![r] = <<>>]
      BY <2>1, <2>4 DEF Returned
    <3>. QED  BY <3>1, Zenon DEF Queue!Next, Queue!Return
  <2>5. CASE UNCHANGED <<buf, head, tail, got>>
    BY <2>1, <2>5
  <2>. QED  BY <2>2, <2>3, <2>4, <2>5, Steps
<1>. QED  BY <1>1, <1>2, RingInit, RingNext, PTL DEF Spec, ImplementsQueue, Queue!Spec, Queue!vars

-----------------------------------------------------------------------------
(* Where a reader is while it has the lock of the buffer, and where it is     *)
(* recorded as its holder.                                                  *)
Inside == {"la_holder", "la_repeat", "ioq_wait", "ioq_woken", "lock_release", "lr_repeat", "sema_up"}
Holding == {"la_repeat", "ioq_wait", "ioq_woken", "lock_release"}
Point == SyncPoint \cup {"user", "main", "spin", "idle", "hlt", "getchar", "ioq_wait", "ioq_woken"}

Typed ==
  /\ SyncTypeOK
  /\ pc \in [Thread -> Point]
  /\ arg \in [Thread -> {kbd_lock, disk_done, NULL}]
  /\ ret \in [Thread -> {"user", "main", "ioq_wait", "getchar"}]
  /\ consumer \in Reader \cup {NULL}

(* Readers use the lock in ioqueue_getchar() only, and main waits for the disk. *)
FrameOK(t) ==
  /\ pc[t] \in SyncPoint =>
       \/ t \in Reader /\ arg[t] = kbd_lock
       \/ /\ t = main_thread /\ arg[t] = disk_done /\ pc[t] \in {"sema_down", "sema_wait"}
          /\ ret[t] = "main"
  /\ pc[t] \in {"getchar", "ioq_wait", "ioq_woken"} => t \in Reader
  /\ pc[t] \in {"lock_acquire", "sema_down", "sema_wait", "la_holder", "la_repeat"} /\ t \in Reader =>
       ret[t] = "ioq_wait"
  /\ pc[t] \in {"lock_release", "lr_repeat", "sema_up"} => ret[t] = "getchar"
  /\ pc[t] \in {"main", "spin"} => t = main_thread

FrameInv == \A t \in Thread : FrameOK(t)

(* One thread at a time is inside, and the fields of the lock say where. *)
LockInv ==
  /\ value[kbd_lock] = 1 => holder_repeat_nr[kbd_lock] = 0
  /\ \A t, u \in Thread : pc[t] \in Inside /\ pc[u] \in Inside => t = u
  /\ \A t \in Thread :
       /\ pc[t] \in Inside => value[kbd_lock] = 0
       /\ holder[kbd_lock] = t <=> pc[t] \in Holding
       /\ pc[t] \in {"la_holder", "la_repeat", "sema_up"} => holder_repeat_nr[kbd_lock] = 0
       /\ pc[t] \in {"ioq_wait", "ioq_woken", "lock_release"} => holder_repeat_nr[kbd_lock] = 1

(* The reader asleep in ioqueue_wait() is the one that is recorded. *)
SleepInv ==
  /\ \A r \in Reader : pc[r] = "ioq_woken" /\ status[r] = "BLOCKED" => consumer = r
  /\ consumer # NULL => pc[consumer] = "ioq_woken" /\ status[consumer] = "BLOCKED"

(* When main is asleep, the disk interrupt will find it in the waiting list. *)
DiskInv ==
  pc[main_thread] = "sema_wait" /\ status[main_thread] = "BLOCKED" =>
    value[disk_done] = 0 /\ elem_find(waiters[disk_done], main_thread)

SleepersInv == SchedInv /\ Typed /\ FrameInv /\ LockInv /\ TagInOneList /\ SleepInv /\ DiskInv

(* What the constants are. *)
LEMMA Names ==
  /\ Lock \cup Sema = {kbd_lock, disk_done} /\ Lock = {kbd_lock} /\ kbd_lock # disk_done
  /\ NULL \notin Thread /\ NULL # kbd_lock /\ NULL # disk_done
  /\ Reader \subseteq Thread /\ main_thread \in Thread /\ idle_thread \in Thread
  /\ main_thread \notin Reader /\ idle_thread \notin Reader /\ idle_thread # main_thread
  /\ NULL \notin Reader
BY ThreadAssumption, SyncAssumption, IoQueueAssumption, Zenon

(* Nothing of another thread moves. *)
Alone(t) ==
  \A u \in Thread \ {t} : pc'[u] = pc[u] /\ arg'[u] = arg[u] /\ ret'[u] = ret[u]

(* The thread at the CPU waits for nothing. *)
LEMMA CurrentRuns ==
  ASSUME SleepersInv
  PROVE  /\ current \in Thread /\ status[current] = "RUNNING" /\ consumer # current
         /\ \A s \in Lock \cup Sema : ~elem_find(waiters[s], current)
<1>1. current \in Thread /\ status[current] = "RUNNING"
  BY DEF SleepersInv, SchedInv, ThreadTypeOK, ReadyListConsistent
<1>2. consumer # current
  <2>1. SUFFICES ASSUME consumer = current  PROVE FALSE
    OBVIOUS
  <2>2. consumer # NULL
    BY <1>1, <2>1, Names
  <2>3. status[consumer] = "BLOCKED"
    BY <2>2 DEF SleepersInv, SleepInv
  <2>. QED  BY <1>1, <2>1, <2>3
<1>3. ASSUME NEW s \in Lock \cup Sema  PROVE ~elem_find(waiters[s], current)
  BY <1>1 DEF SleepersInv, TagInOneList
<1>. QED  BY <1>1, <1>2, <1>3

LEMMA FrameStep ==
  ASSUME SleepersInv, NEW t \in Thread, Alone(t), FrameOK(t)'  PROVE FrameInv'
<1>1. ASSUME NEW u \in Thread, u # t  PROVE FrameOK(u)'
  <2>1. FrameOK(u)
    BY DEF SleepersInv, FrameInv
  <2>2. pc'[u] = pc[u] /\ arg'[u] = arg[u] /\ ret'[u] = ret[u]
    BY <1>1, SMT, Z3 DEF Alone
  <2>. QED  BY <2>1, <2>2 DEF FrameOK
<1>. QED  BY <1>1, SMT, Z3 DEF FrameInv

(* A step outside of the lock. *)
LEMMA LockOutside ==
  ASSUME SleepersInv, value'[kbd_lock] = value[kbd_lock], UNCHANGED <<holder, holder_repeat_nr>>,
         \A u \in Thread : pc'[u] = pc[u] \/ (pc[u] \notin Inside /\ pc'[u] \notin Inside)
  PROVE  LockInv'
<1>1. \A u \in Thread : (pc'[u] \in Inside => pc'[u] = pc[u]) /\ (pc[u] \in Inside => pc'[u] = pc[u])
  OBVIOUS
<1>2. \A u \in Thread : pc'[u] \in Holding <=> pc[u] \in Holding
  BY <1>1 DEF Inside, Holding
<1>3. LockInv
  BY DEF SleepersInv
<1>4. \A t, u \in Thread : pc'[t] \in Inside /\ pc'[u] \in Inside => t = u
  BY <1>1, <1>3, SMT, Z3 DEF LockInv
<1>5. ASSUME NEW t \in Thread
      PROVE  /\ pc'[t] \in Inside => value'[kbd_lock] = 0
             /\ holder'[kbd_lock] = t <=> pc'[t] \in Holding
             /\ pc'[t] \in {"la_holder", "la_repeat", "sema_up"} => holder_repeat_nr'[kbd_lock] = 0
             /\ pc'[t] \in {"ioq_wait", "ioq_woken", "lock_release"} => holder_repeat_nr'[kbd_lock] = 1
  <2>1. pc'[t] \in {"la_holder", "la_repeat", "sema_up"} \cup {"ioq_wait", "ioq_woken", "lock_release"}
          => pc'[t] = pc[t]
    BY <1>1 DEF Inside
  <2>. QED  BY <1>1, <1>2, <1>3, <2>1 DEF LockInv
<1>. QED  BY <1>3, <1>4, <1>5 DEF LockInv

(* A step of the one thread that is inside, or that gets in. *)
LEMMA LockInside ==
  ASSUME SleepersInv, NEW t \in Thread, Alone(t),
         \A u \in Thread \ {t} : pc[u] \notin Inside,
         holder'[kbd_lock] \in {t, NULL},
         value'[kbd_lock] = 1 => holder_repeat_nr'[kbd_lock] = 0,
         pc'[t] \in Inside => value'[kbd_lock] = 0,
         holder'[kbd_lock] = t <=> pc'[t] \in Holding,
         pc'[t] \in {"la_holder", "la_repeat", "sema_up"} => holder_repeat_nr'[kbd_lock] = 0,
         pc'[t] \in {"ioq_wait", "ioq_woken", "lock_release"} => holder_repeat_nr'[kbd_lock] = 1
  PROVE  LockInv'
<1>1. \A u \in Thread \ {t} : pc'[u] \notin Inside
  BY DEF Alone
<1>2. \A u \in Thread \ {t} : /\ pc'[u] \notin Holding
                              /\ pc'[u] \notin {"la_holder", "la_repeat", "sema_up"}
                              /\ pc'[u] \notin {"ioq_wait", "ioq_woken", "lock_release"}
  BY <1>1 DEF Inside, Holding
<1>3. \A u \in Thread \ {t} : holder'[kbd_lock] # u
  BY Names, SMT, Z3
<1>. QED  BY <1>1, <1>2, <1>3 DEF LockInv

(* The waiting lists stay, and so do the threads in them. *)
LEMMA TagKept ==
  ASSUME SleepersInv, SchedInv', waiters' = waiters,
         \A u \in Thread : status[u] = "BLOCKED" /\ pc[u] = "sema_wait" =>
           status'[u] = "BLOCKED" /\ pc'[u] = pc[u] /\ arg'[u] = arg[u]
  PROVE  TagInOneList'
<1>1. \A u \in Thread : status'[u] = "BLOCKED" => ~elem_find(thread_ready_list', u)
  BY DEF SchedInv, ReadyListConsistent
<1>2. TagInOneList
  BY DEF SleepersInv
<1>. QED  BY <1>1, <1>2, SMT, Z3 DEF TagInOneList

LEMMA SleepKept ==
  ASSUME SleepersInv, consumer' = consumer,
         \A r \in Reader : pc'[r] = "ioq_woken" /\ status'[r] = "BLOCKED" =>
           pc[r] = "ioq_woken" /\ status[r] = "BLOCKED",
         \A r \in Reader : pc[r] = "ioq_woken" /\ status[r] = "BLOCKED" =>
           pc'[r] = "ioq_woken" /\ status'[r] = "BLOCKED"
  PROVE  SleepInv'
<1>1. SleepInv /\ (consumer # NULL => consumer \in Reader)
  BY DEF SleepersInv, Typed
<1>. QED  BY <1>1 DEF SleepInv

LEMMA DiskKept ==
  ASSUME SleepersInv, value'[disk_done] = value[disk_done], waiters'[disk_done] = waiters[disk_done],
         pc'[main_thread] = "sema_wait" /\ status'[main_thread] = "BLOCKED" =>
           pc[main_thread] = "sema_wait" /\ status[main_thread] = "BLOCKED"
  PROVE  DiskInv'
<1>1. DiskInv
  BY DEF SleepersInv
<1>. QED  BY <1>1 DEF DiskInv, elem_find

(* A step of the current thread that changes no list and no state. *)
LEMMA QuietStep ==
  ASSUME SleepersInv, NEW t \in Thread, t = current, Alone(t),
         UNCHANGED <<thread_ready_list, status, current, waiters, consumer>>,
         t = main_thread \/ value'[disk_done] = value[disk_done],
         panic' = FALSE, ThreadTypeOK'
  PROVE  SchedInv' /\ TagInOneList' /\ SleepInv' /\ DiskInv'
<1>1. status[t] = "RUNNING"
  BY CurrentRuns
<1>2. SchedInv'
  BY DEF SleepersInv, SchedInv, ReadyListConsistent
<1>3. TagInOneList'
  BY <1>1, <1>2, TagKept DEF Alone
<1>4. SleepInv'
  BY <1>1, SleepKept, Names DEF Alone
<1>5. DiskInv'
  <2>1. CASE t = main_thread
    BY <1>1, <2>1 DEF DiskInv
  <2>2. CASE t # main_thread
    BY <2>2, DiskKept, Names DEF Alone
  <2>. QED  BY <2>1, <2>2
<1>. QED  BY <1>2, <1>3, <1>4, <1>5

-----------------------------------------------------------------------------
(* sys_read() enters the kernel; the call ends with its count. *)
LEMMA SysReadStep ==
  ASSUME SleepersInv, NEW t \in Thread, sys_read(t)  PROVE SleepersInv'
<1>1. /\ t = current /\ pc[t] = "user" /\ t \in Reader
      /\ pc' = [pc EXCEPT ![t] = "getchar"] /\ intr' = FALSE
      /\ UNCHANGED <<thread_ready_list, status, current, ticks, saved_if, panic, arg, ret, old_status,
                     value, waiters, holder, holder_repeat_nr, consumer>>
  BY DEF sys_read, At, goto, syncVars, queueVars
<1>2. Typed /\ SchedInv
  BY DEF SleepersInv
<1>3. Alone(t) /\ pc'[t] = "getchar" /\ panic' = FALSE /\ ThreadTypeOK'
  BY <1>1, <1>2, Zenon DEF Alone, Typed, SchedInv, ThreadTypeOK
<1>4. Typed'
  BY <1>1, <1>2, SMT, Z3 DEF Typed, SyncTypeOK, Point
<1>5. FrameInv'
  BY <1>1, <1>3, FrameStep, SMT, Z3 DEF FrameOK, SyncPoint
<1>6. LockInv'
  BY <1>1, <1>3, LockOutside DEF Alone, Inside
<1>. QED  BY <1>1, <1>3, <1>4, <1>5, <1>6, QuietStep, Zenon DEF SleepersInv

LEMMA ReadDoneStep ==
  ASSUME SleepersInv, NEW t \in Thread, read_done(t)  PROVE SleepersInv'
<1>1. /\ t = current /\ pc[t] = "getchar"
      /\ pc' = [pc EXCEPT ![t] = "user"] /\ intr' = TRUE
      /\ UNCHANGED <<thread_ready_list, status, current, ticks, saved_if, panic, arg, ret, old_status,
                     value, waiters, holder, holder_repeat_nr, consumer>>
  BY DEF read_done, At, goto, syncVars, queueVars
<1>2. Typed /\ SchedInv
  BY DEF SleepersInv
<1>3. Alone(t) /\ pc'[t] = "user" /\ panic' = FALSE /\ ThreadTypeOK'
  BY <1>1, <1>2 DEF Alone, Typed, SchedInv, ThreadTypeOK
<1>4. Typed'
  BY <1>1, <1>2, Zenon DEF Typed, SyncTypeOK, Point
<1>5. FrameInv'
  BY <1>1, <1>3, FrameStep DEF FrameOK, SyncPoint
<1>6. LockInv'
  BY <1>1, <1>3, LockOutside DEF Alone, Inside
<1>. QED  BY <1>1, <1>3, <1>4, <1>5, <1>6, QuietStep, Zenon DEF SleepersInv

(* The empty ring: the reader goes for the lock. *)
LEMMA EmptyStep ==
  ASSUME SleepersInv, NEW t \in Reader, getchar_empty(t)  PROVE SleepersInv'
<1>0. t \in Thread
  BY Names
<1>1. /\ t = current /\ pc[t] = "getchar"
      /\ pc' = [pc EXCEPT ![t] = "lock_acquire"]
      /\ arg' = [arg EXCEPT ![t] = kbd_lock] /\ ret' = [ret EXCEPT ![t] = "ioq_wait"]
      /\ UNCHANGED <<thread_ready_list, status, current, ticks, intr, saved_if, panic, old_status,
                     value, waiters, holder, holder_repeat_nr, consumer>>
  BY DEF getchar_empty, At, call, goto, threadVars, syncVars, queueVars
<1>2. Typed /\ SchedInv
  BY DEF SleepersInv
<1>3. /\ Alone(t) /\ pc'[t] = "lock_acquire" /\ arg'[t] = kbd_lock /\ ret'[t] = "ioq_wait"
      /\ panic' = FALSE /\ ThreadTypeOK'
  BY <1>0, <1>1, <1>2 DEF Alone, Typed, SchedInv, ThreadTypeOK
<1>4. Typed'
  BY <1>0, <1>1, <1>2 DEF Typed, SyncTypeOK, Point, SyncPoint
<1>5. FrameInv'
  BY <1>0, <1>1, <1>3, FrameStep DEF FrameOK, SyncPoint
<1>6. LockInv'
  BY <1>0, <1>1, <1>3, LockOutside, Zenon DEF Alone, Inside
<1>. QED  BY <1>0, <1>1, <1>3, <1>4, <1>5, <1>6, QuietStep, Zenon DEF SleepersInv

(* The one inside, and the values that its place gives. *)
LEMMA InsideFacts ==
  ASSUME SleepersInv, NEW t \in Thread, pc[t] \in Inside
  PROVE  /\ \A u \in Thread \ {t} : pc[u] \notin Inside
         /\ holder[kbd_lock] \in {t, NULL}
         /\ holder[kbd_lock] = t <=> pc[t] \in Holding
         /\ value[kbd_lock] = 0
         /\ pc[t] \in {"la_holder", "la_repeat", "sema_up"} => holder_repeat_nr[kbd_lock] = 0
         /\ pc[t] \in {"ioq_wait", "ioq_woken", "lock_release"} => holder_repeat_nr[kbd_lock] = 1
         /\ t \in Reader
         /\ pc[t] \in SyncPoint => arg[t] = kbd_lock
<1>1. LockInv /\ FrameOK(t) /\ Typed
  BY DEF SleepersInv, FrameInv
<1>2. \A u \in Thread \ {t} : pc[u] \notin Inside
  BY <1>1 DEF LockInv
<1>3. \A u \in Thread \ {t} : pc[u] \notin Holding
  BY <1>2, Zenon DEF Inside, Holding
<1>4. holder[kbd_lock] \in {t, NULL}
  BY <1>1, <1>3, Names DEF LockInv, Typed, SyncTypeOK
<1>5. t \in Reader /\ (pc[t] \in SyncPoint => arg[t] = kbd_lock)
  BY <1>1 DEF FrameOK, Inside, SyncPoint
<1>. QED  BY <1>1, <1>2, <1>4, <1>5 DEF LockInv

(* Woken up, the reader goes to release the lock. *)
LEMMA WokenStep ==
  ASSUME SleepersInv, NEW t \in Reader, getchar_woken(t)  PROVE SleepersInv'
<1>0. t \in Thread
  BY Names
<1>1. /\ t = current /\ pc[t] = "ioq_woken"
      /\ pc' = [pc EXCEPT ![t] = "lock_release"]
      /\ arg' = [arg EXCEPT ![t] = kbd_lock] /\ ret' = [ret EXCEPT ![t] = "getchar"]
      /\ UNCHANGED <<thread_ready_list, status, current, ticks, intr, saved_if, panic, old_status,
                     value, waiters, holder, holder_repeat_nr, consumer>>
  BY DEF getchar_woken, At, call, goto, threadVars, syncVars, queueVars
<1>2. Typed /\ SchedInv
  BY DEF SleepersInv
<1>3. /\ Alone(t) /\ pc'[t] = "lock_release" /\ arg'[t] = kbd_lock /\ ret'[t] = "getchar"
      /\ panic' = FALSE /\ ThreadTypeOK'
  BY <1>0, <1>1, <1>2 DEF Alone, Typed, SchedInv, ThreadTypeOK
<1>4. Typed'
  BY <1>0, <1>1, <1>2 DEF Typed, SyncTypeOK, Point, SyncPoint
<1>5. FrameInv'
  BY <1>0, <1>1, <1>3, FrameStep, Zenon DEF FrameOK, SyncPoint
<1>6. LockInv'
  <2>1. pc[t] \in Inside /\ pc[t] \in Holding /\ pc'[t] \in Inside /\ pc'[t] \in Holding
    BY <1>1, <1>3, SMT, Z3 DEF Inside, Holding
  <2>2. /\ \A u \in Thread \ {t} : pc[u] \notin Inside
        /\ holder[kbd_lock] = t /\ value[kbd_lock] = 0
        /\ holder_repeat_nr[kbd_lock] = 1
    BY <1>0, <1>1, <2>1, InsideFacts
  <2>. QED  BY <1>0, <1>1, <1>3, <2>1, <2>2, LockInside
<1>. QED  BY <1>0, <1>1, <1>3, <1>4, <1>5, <1>6, QuietStep, Zenon DEF SleepersInv

-----------------------------------------------------------------------------
(* lock_acquire(): a reader that asks for the lock does not have it. *)
LEMMA KAcquireTest ==
  ASSUME SleepersInv, NEW t \in Thread, lock_acquire_test(t), UNCHANGED queueVars
  PROVE  SleepersInv'
<1>1. /\ t = current /\ pc[t] = "lock_acquire"
      /\ UNCHANGED <<thread_ready_list, status, current, ticks, intr, saved_if, panic, arg, ret,
                     old_status, value, waiters, holder, consumer>>
  BY Zenon DEF lock_acquire_test, At, threadVars, queueVars
<1>2. Typed /\ SchedInv /\ LockInv /\ FrameOK(t)
  BY DEF SleepersInv, FrameInv
<1>3. t \in Reader /\ arg[t] = kbd_lock /\ ret[t] = "ioq_wait" /\ holder[kbd_lock] # t
  <2>1. pc[t] \notin Holding
    BY <1>1 DEF Holding
  <2>. QED  BY <1>1, <1>2, <2>1, Zenon DEF FrameOK, SyncPoint, LockInv
<1>4. pc' = [pc EXCEPT ![t] = "sema_down"] /\ holder_repeat_nr' = holder_repeat_nr
  BY <1>3, Zenon DEF lock_acquire_test, goto
<1>5. Alone(t) /\ pc'[t] = "sema_down" /\ panic' = FALSE /\ ThreadTypeOK'
  BY <1>1, <1>2, <1>4, SMT, Z3 DEF Alone, Typed, SchedInv, ThreadTypeOK
<1>6. Typed'
  BY <1>1, <1>2, <1>4 DEF Typed, SyncTypeOK, Point, SyncPoint
<1>7. FrameInv'
  BY <1>1, <1>3, <1>5, FrameStep, Zenon DEF FrameOK, SyncPoint
<1>8. LockInv'
  BY <1>1, <1>4, <1>5, LockOutside, Zenon DEF Alone, Inside
<1>. QED  BY <1>1, <1>5, <1>6, <1>7, <1>8, QuietStep, Zenon DEF SleepersInv

(* sema_down() with the value to be had: a reader gets the lock, ... *)
LEMMA KDownTake ==
  ASSUME SleepersInv, NEW t \in Thread, sema_down_take(t), UNCHANGED queueVars, t # main_thread
  PROVE  SleepersInv'
<1>1. /\ t = current /\ pc[t] \in {"sema_down", "sema_wait"} /\ value[arg[t]] # 0
      /\ value' = [value EXCEPT ![arg[t]] = @ - 1]
      /\ old_status' = [old_status EXCEPT ![t] = FALSE]
      /\ intr' = IF pc[t] = "sema_down" THEN intr ELSE old_status[t]
      /\ pc' = [pc EXCEPT ![t] = after_down(t)]
      /\ panic' = (value'[arg[t]] # 0)
      /\ UNCHANGED <<thread_ready_list, status, current, ticks, saved_if, waiters, holder,
                     holder_repeat_nr, arg, ret, consumer>>
  BY Zenon DEF sema_down_take, At, goto, queueVars
<1>2. Typed /\ SchedInv /\ LockInv /\ FrameOK(t)
  BY DEF SleepersInv, FrameInv
<1>3. t \in Reader /\ arg[t] = kbd_lock /\ ret[t] = "ioq_wait"
  BY <1>1, <1>2, Zenon DEF FrameOK, SyncPoint, LockInv
<1>4. /\ value[kbd_lock] = 1 /\ value'[kbd_lock] = 0 /\ value'[disk_done] = value[disk_done]
      /\ value' \in [Lock \cup Sema -> {0, 1}]
  <2>1. value \in [{kbd_lock, disk_done} -> {0, 1}]
    BY <1>2, Names, Zenon DEF Typed, SyncTypeOK
  <2>2. value[kbd_lock] = 1
    BY <1>1, <1>3, <2>1, Zenon
  <2>3. value' = [value EXCEPT ![kbd_lock] = 0]
    <3>1. value[kbd_lock] - 1 = 0
      BY <2>2
    <3>. QED  BY <1>1, <1>3, <3>1, Zenon
  <2>. QED  BY <2>1, <2>2, <2>3, Names
<1>5. after_down(t) = "la_holder"
  BY <1>3, Names DEF after_down
<1>6. /\ Alone(t) /\ pc'[t] = "la_holder" /\ pc' \in [Thread -> Point]
  BY <1>1, <1>2, <1>5, SMT, Z3 DEF Alone, Typed, Point, SyncPoint
<1>7. panic' = FALSE /\ intr' \in BOOLEAN /\ ThreadTypeOK'
  <2>1. panic' = FALSE
    BY <1>1, <1>3, <1>4, Zenon
  <2>2. intr' \in BOOLEAN
    BY <1>1, <1>2 DEF Typed, SyncTypeOK, SchedInv, ThreadTypeOK
  <2>. QED  BY <1>1, <1>2, <2>1, <2>2 DEF SchedInv, ThreadTypeOK
<1>8. Typed'
  BY <1>1, <1>2, <1>4, <1>6, Zenon DEF Typed, SyncTypeOK
<1>9. FrameInv'
  BY <1>1, <1>3, <1>6, FrameStep, Zenon DEF FrameOK, SyncPoint
<1>10. LockInv'
  <2>1. \A u \in Thread : pc[u] \notin Inside
    BY <1>2, <1>4 DEF LockInv
  <2>2. \A u \in Thread : pc[u] \notin Holding
    BY <2>1 DEF Inside, Holding
  <2>3. holder[kbd_lock] = NULL
    BY <1>2, <2>2, Names, Zenon DEF LockInv, Typed, SyncTypeOK
  <2>4. pc'[t] \notin Holding /\ holder'[kbd_lock] = NULL /\ holder_repeat_nr'[kbd_lock] = 0
    BY <1>1, <1>2, <1>4, <1>6, <2>3 DEF Holding, LockInv
  <2>. QED  BY <1>4, <1>6, <2>1, <2>4, LockInside, Names, Zenon
<1>. QED  BY <1>1, <1>4, <1>6, <1>7, <1>8, <1>9, <1>10, QuietStep, Zenon DEF SleepersInv

(* ... and main goes on with its disk operation. *)
LEMMA KMainTake ==
  ASSUME SleepersInv, sema_down_take(main_thread), UNCHANGED queueVars
  PROVE  SleepersInv'
<1>0. main_thread \in Thread
  BY Names
<1>1. /\ main_thread = current /\ pc[main_thread] \in {"sema_down", "sema_wait"}
      /\ value[arg[main_thread]] # 0
      /\ value' = [value EXCEPT ![arg[main_thread]] = @ - 1]
      /\ old_status' = [old_status EXCEPT ![main_thread] = FALSE]
      /\ intr' = IF pc[main_thread] = "sema_down" THEN intr ELSE old_status[main_thread]
      /\ pc' = [pc EXCEPT ![main_thread] = after_down(main_thread)]
      /\ panic' = (value'[arg[main_thread]] # 0)
      /\ UNCHANGED <<thread_ready_list, status, current, ticks, saved_if, waiters, holder,
                     holder_repeat_nr, arg, ret, consumer>>
  BY Zenon DEF sema_down_take, At, goto, queueVars
<1>2. Typed /\ SchedInv /\ LockInv /\ FrameOK(main_thread)
  BY <1>0 DEF SleepersInv, FrameInv
<1>3. arg[main_thread] = disk_done /\ ret[main_thread] = "main"
  BY <1>1, <1>2, Names, Zenon DEF FrameOK, SyncPoint
<1>4. /\ value'[disk_done] = 0 /\ value'[kbd_lock] = value[kbd_lock]
      /\ value' \in [Lock \cup Sema -> {0, 1}]
  <2>1. value \in [{kbd_lock, disk_done} -> {0, 1}]
    BY <1>2, Names, Zenon DEF Typed, SyncTypeOK
  <2>2. value[disk_done] = 1
    BY <1>1, <1>3, <2>1, Zenon
  <2>3. value' = [value EXCEPT ![disk_done] = 0]
    <3>1. value[disk_done] - 1 = 0
      BY <2>2
    <3>. QED  BY <1>1, <1>3, <3>1, Zenon
  <2>. QED  BY <2>1, <2>2, <2>3, Names
<1>5. after_down(main_thread) = "main"
  BY <1>3, Names DEF after_down
<1>6. /\ Alone(main_thread) /\ pc'[main_thread] = "main" /\ pc' \in [Thread -> Point]
  BY <1>0, <1>1, <1>2, <1>5, SMT, Z3 DEF Alone, Typed, Point, SyncPoint
<1>7. panic' = FALSE /\ intr' \in BOOLEAN /\ ThreadTypeOK'
  <2>1. panic' = FALSE
    BY <1>1, <1>3, <1>4, Zenon
  <2>2. intr' \in BOOLEAN
    BY <1>0, <1>1, <1>2 DEF Typed, SyncTypeOK, SchedInv, ThreadTypeOK
  <2>. QED  BY <1>1, <1>2, <2>1, <2>2 DEF SchedInv, ThreadTypeOK
<1>8. Typed'
  BY <1>0, <1>1, <1>2, <1>4, <1>6, Zenon DEF Typed, SyncTypeOK
<1>9. FrameInv'
  BY <1>0, <1>6, FrameStep, Names, Zenon DEF FrameOK, SyncPoint
<1>10. LockInv'
  BY <1>0, <1>1, <1>4, <1>6, LockOutside, Zenon DEF Alone, Inside
<1>. QED  BY <1>0, <1>1, <1>6, <1>7, <1>8, <1>9, <1>10, QuietStep, Zenon DEF SleepersInv

LEMMA KAcquireHolder ==
  ASSUME SleepersInv, NEW t \in Thread, lock_acquire_holder(t), UNCHANGED queueVars
  PROVE  SleepersInv'
<1>1. /\ t = current /\ pc[t] = "la_holder"
      /\ holder' = [holder EXCEPT ![arg[t]] = t] /\ pc' = [pc EXCEPT ![t] = "la_repeat"]
      /\ UNCHANGED <<thread_ready_list, status, current, ticks, intr, saved_if, panic, arg, ret,
                     old_status, value, waiters, holder_repeat_nr, consumer>>
  BY Zenon DEF lock_acquire_holder, At, goto, threadVars, queueVars
<1>2. Typed /\ SchedInv /\ FrameOK(t)
  BY DEF SleepersInv, FrameInv
<1>3. /\ \A u \in Thread \ {t} : pc[u] \notin Inside
      /\ value[kbd_lock] = 0 /\ holder_repeat_nr[kbd_lock] = 0
      /\ t \in Reader /\ arg[t] = kbd_lock
  <2>1. pc[t] \in Inside /\ pc[t] \in SyncPoint
    BY <1>1, Zenon DEF Inside, SyncPoint
  <2>. QED  BY <1>1, <2>1, InsideFacts, Zenon
<1>4. holder' \in [Lock -> Thread \cup {NULL}] /\ holder'[kbd_lock] = t
  BY <1>1, <1>2, <1>3, Names, Zenon DEF Typed, SyncTypeOK
<1>5. Alone(t) /\ pc'[t] = "la_repeat" /\ panic' = FALSE /\ ThreadTypeOK'
  BY <1>1, <1>2, Zenon DEF Alone, Typed, SchedInv, ThreadTypeOK
<1>6. Typed'
  BY <1>1, <1>2, <1>4 DEF Typed, SyncTypeOK, Point, SyncPoint
<1>7. FrameInv'
  BY <1>1, <1>2, <1>3, <1>5, FrameStep, Zenon DEF FrameOK, SyncPoint
<1>8. LockInv'
  <2>1. pc'[t] \in Inside /\ pc'[t] \in Holding
    BY <1>5 DEF Inside, Holding
  <2>. QED  BY <1>1, <1>3, <1>4, <1>5, <2>1, LockInside, Zenon
<1>. QED  BY <1>1, <1>5, <1>6, <1>7, <1>8, QuietStep, Zenon DEF SleepersInv

LEMMA KAcquireRepeat ==
  ASSUME SleepersInv, NEW t \in Thread, lock_acquire_repeat(t), UNCHANGED queueVars
  PROVE  SleepersInv'
<1>1. /\ t = current /\ pc[t] = "la_repeat"
      /\ holder_repeat_nr' = [holder_repeat_nr EXCEPT ![arg[t]] = 1]
      /\ pc' = [pc EXCEPT ![t] = ret[t]]
      /\ panic' = ~(holder_repeat_nr[arg[t]] = 0)
      /\ UNCHANGED <<thread_ready_list, status, current, ticks, intr, saved_if, arg, ret,
                     old_status, value, waiters, holder, consumer>>
  BY Zenon DEF lock_acquire_repeat, At, goto, assert, queueVars
<1>2. Typed /\ SchedInv /\ FrameOK(t)
  BY Zenon DEF SleepersInv, FrameInv
<1>3. /\ \A u \in Thread \ {t} : pc[u] \notin Inside
      /\ value[kbd_lock] = 0 /\ holder_repeat_nr[kbd_lock] = 0
      /\ holder[kbd_lock] = t /\ t \in Reader /\ arg[t] = kbd_lock
  <2>1. pc[t] \in Inside /\ pc[t] \in SyncPoint /\ pc[t] \in Holding
    BY <1>1, Zenon DEF Inside, SyncPoint, Holding
  <2>. QED  BY <1>1, <2>1, InsideFacts, Zenon
<1>4. ret[t] = "ioq_wait"
  BY <1>1, <1>2, <1>3 DEF FrameOK
<1>5. holder_repeat_nr' \in [Lock -> Nat] /\ holder_repeat_nr'[kbd_lock] = 1 /\ panic' = FALSE
  BY <1>1, <1>2, <1>3, Names, Zenon DEF Typed, SyncTypeOK
<1>6. Alone(t) /\ pc'[t] = "ioq_wait" /\ ThreadTypeOK'
  BY <1>1, <1>2, <1>4, <1>5, SMT, Z3 DEF Alone, Typed, SchedInv, ThreadTypeOK
<1>7. Typed'
  BY <1>1, <1>2, <1>4, <1>5 DEF Typed, SyncTypeOK, Point
<1>8. FrameInv'
  BY <1>1, <1>3, <1>6, FrameStep, Zenon DEF FrameOK, SyncPoint
<1>9. LockInv'
  <2>1. pc'[t] \in Inside /\ pc'[t] \in Holding
    BY <1>6 DEF Inside, Holding
  <2>. QED  BY <1>1, <1>3, <1>5, <1>6, <2>1, LockInside, Zenon
<1>. QED  BY <1>1, <1>5, <1>6, <1>7, <1>8, <1>9, QuietStep, Zenon DEF SleepersInv

(* lock_release(): the reader holds the lock once. *)
LEMMA KReleaseTest ==
  ASSUME SleepersInv, NEW t \in Thread, lock_release_test(t), UNCHANGED queueVars
  PROVE  SleepersInv'
<1>1. /\ t = current /\ pc[t] = "lock_release"
      /\ UNCHANGED <<value, waiters, arg, ret, old_status, consumer>>
  BY Zenon DEF lock_release_test, At, queueVars
<1>2. Typed /\ SchedInv /\ FrameOK(t)
  BY DEF SleepersInv, FrameInv
<1>3. /\ \A u \in Thread \ {t} : pc[u] \notin Inside
      /\ value[kbd_lock] = 0 /\ holder_repeat_nr[kbd_lock] = 1
      /\ holder[kbd_lock] = t /\ t \in Reader /\ arg[t] = kbd_lock
  <2>1. pc[t] \in Inside /\ pc[t] \in SyncPoint /\ pc[t] \in Holding
    BY <1>1, Zenon DEF Inside, SyncPoint, Holding
  <2>. QED  BY <1>1, <2>1, InsideFacts
<1>4. /\ holder' = [holder EXCEPT ![kbd_lock] = NULL] /\ pc' = [pc EXCEPT ![t] = "lr_repeat"]
      /\ panic' = FALSE
      /\ UNCHANGED <<thread_ready_list, status, current, ticks, intr, saved_if, holder_repeat_nr>>
  <2>1. ~(holder_repeat_nr[arg[t]] > 1)
    BY <1>3, SMT, Z3
  <2>2. assert(holder[arg[t]] = t /\ holder_repeat_nr[arg[t]] = 1)
    BY <2>1 DEF lock_release_test
  <2>3. panic' = FALSE
    BY <1>3, <2>2, Zenon DEF assert
  <2>4. holder' = [holder EXCEPT ![arg[t]] = NULL] /\ goto(t, "lr_repeat")
        /\ holder_repeat_nr' = holder_repeat_nr
    BY <2>1, SMT, Z3 DEF lock_release_test
  <2>. QED  BY <1>3, <2>2, <2>3, <2>4, SMT, Z3 DEF assert, goto
<1>5. holder' \in [Lock -> Thread \cup {NULL}] /\ holder'[kbd_lock] = NULL
  BY <1>2, <1>4, Names DEF Typed, SyncTypeOK
<1>6. Alone(t) /\ pc'[t] = "lr_repeat" /\ ThreadTypeOK'
  BY <1>1, <1>2, <1>4, Zenon DEF Alone, Typed, SchedInv, ThreadTypeOK
<1>7. Typed'
  BY <1>1, <1>2, <1>4, <1>5, Zenon DEF Typed, SyncTypeOK, Point, SyncPoint
<1>8. FrameInv'
  BY <1>1, <1>2, <1>3, <1>6, FrameStep, ZenonT(30) DEF FrameOK, SyncPoint
<1>9. LockInv'
  <2>1. pc'[t] \in Inside /\ pc'[t] \notin Holding
    BY <1>6 DEF Inside, Holding
  <2>. QED  BY <1>1, <1>3, <1>5, <1>6, <2>1, LockInside, Names
<1>. QED  BY <1>1, <1>4, <1>6, <1>7, <1>8, <1>9, QuietStep, Zenon DEF SleepersInv

LEMMA KReleaseRepeat ==
  ASSUME SleepersInv, NEW t \in Thread, lock_release_repeat(t), UNCHANGED queueVars
  PROVE  SleepersInv'
<1>1. /\ t = current /\ pc[t] = "lr_repeat"
      /\ holder_repeat_nr' = [holder_repeat_nr EXCEPT ![arg[t]] = 0]
      /\ pc' = [pc EXCEPT ![t] = "sema_up"]
      /\ UNCHANGED <<thread_ready_list, status, current, ticks, intr, saved_if, panic, arg, ret,
                     old_status, value, waiters, holder, consumer>>
  BY SMT, Z3 DEF lock_release_repeat, At, goto, threadVars, queueVars
<1>2. Typed /\ SchedInv /\ FrameOK(t)
  BY Zenon DEF SleepersInv, FrameInv
<1>3. /\ \A u \in Thread \ {t} : pc[u] \notin Inside
      /\ value[kbd_lock] = 0 /\ holder[kbd_lock] = NULL /\ t \in Reader /\ arg[t] = kbd_lock
  <2>1. pc[t] \in Inside /\ pc[t] \in SyncPoint /\ pc[t] \notin Holding
    BY <1>1, Zenon DEF Inside, SyncPoint, Holding
  <2>. QED  BY <1>1, <2>1, InsideFacts
<1>4. holder_repeat_nr' \in [Lock -> Nat] /\ holder_repeat_nr'[kbd_lock] = 0
  BY <1>1, <1>2, <1>3, Names, Zenon DEF Typed, SyncTypeOK
<1>5. Alone(t) /\ pc'[t] = "sema_up" /\ panic' = FALSE /\ ThreadTypeOK'
  BY <1>1, <1>2, Zenon DEF Alone, Typed, SchedInv, ThreadTypeOK
<1>6. Typed'
  BY <1>1, <1>2, <1>4 DEF Typed, SyncTypeOK, Point, SyncPoint
<1>7. FrameInv'
  BY <1>1, <1>2, <1>3, <1>5, FrameStep, Zenon DEF FrameOK, SyncPoint
<1>8. LockInv'
  <2>1. pc'[t] \in Inside /\ pc'[t] \notin Holding
    BY <1>5 DEF Inside, Holding
  <2>. QED  BY <1>1, <1>3, <1>4, <1>5, <2>1, LockInside, Names, Zenon
<1>. QED  BY <1>1, <1>5, <1>6, <1>7, <1>8, QuietStep, Zenon DEF SleepersInv

(* sema_up(): the lock is free again, and the longest waiting reader ready. *)
LEMMA KUp ==
  ASSUME SleepersInv, NEW t \in Thread, sema_up_step(t), UNCHANGED queueVars
  PROVE  SleepersInv'
<1>1. /\ t = current /\ pc[t] = "sema_up" /\ pc' = [pc EXCEPT ![t] = ret[t]]
      /\ UNCHANGED <<arg, ret, old_status, holder, holder_repeat_nr, intr, consumer>>
      /\ sema_up(arg[t])
  BY Zenon DEF sema_up_step, At, goto, sema_up, queueVars
<1>2. Typed /\ SchedInv /\ FrameOK(t) /\ TagInOneList
  BY DEF SleepersInv, FrameInv
<1>3. /\ \A u \in Thread \ {t} : pc[u] \notin Inside
      /\ value[kbd_lock] = 0 /\ holder_repeat_nr[kbd_lock] = 0
      /\ holder[kbd_lock] = NULL /\ t \in Reader /\ arg[t] = kbd_lock
  <2>1. pc[t] \in Inside /\ pc[t] \in SyncPoint /\ pc[t] \notin Holding
    BY <1>1, Zenon DEF Inside, SyncPoint, Holding
  <2>. QED  BY <1>1, <2>1, InsideFacts, Zenon
<1>4. ret[t] = "getchar"
  BY <1>1, <1>2, Zenon DEF FrameOK
<1>5. /\ value' = [value EXCEPT ![kbd_lock] = 1] /\ value' \in [Lock \cup Sema -> {0, 1}]
      /\ value'[kbd_lock] = 1 /\ value'[disk_done] = value[disk_done]
  <2>1. value' = [value EXCEPT ![kbd_lock] = @ + 1] /\ value \in [{kbd_lock, disk_done} -> {0, 1}]
    BY <1>1, <1>2, <1>3, Names DEF sema_up, Typed, SyncTypeOK
  <2>2. value' = [value EXCEPT ![kbd_lock] = 1]
    BY <1>3, <2>1
  <2>. QED  BY <1>3, <2>1, <2>2, Names, ZenonT(30)
<1>6. Alone(t) /\ pc'[t] = "getchar" /\ pc' \in [Thread -> Point]
  BY <1>1, <1>2, <1>4, Zenon DEF Alone, Typed, Point
<1>7. FrameInv'
  BY <1>1, <1>3, <1>6, FrameStep, Zenon DEF FrameOK, SyncPoint
<1>8. LockInv'
  <2>1. pc'[t] \notin Inside /\ pc'[t] \notin Holding
    BY <1>6, Zenon DEF Inside, Holding
  <2>. QED  BY <1>1, <1>3, <1>5, <1>6, <2>1, LockInside, Names
<1>9. status[t] = "RUNNING" /\ kbd_lock \in Lock \cup Sema
  BY <1>1, CurrentRuns, Names, Zenon
<1>10. CASE waiters[kbd_lock] = <<>>
  <2>1. /\ UNCHANGED <<waiters, thread_ready_list, status, current, ticks, saved_if>>
        /\ panic' = (value[kbd_lock] # 0 \/ value'[kbd_lock] # 1)
    BY <1>1, <1>3, <1>10, Zenon DEF sema_up
  <2>2. panic' = FALSE
    BY <1>3, <1>5, <2>1, Zenon
  <2>3. ThreadTypeOK'
    BY <1>1, <1>2, <2>1, <2>2, Zenon DEF SchedInv, ThreadTypeOK
  <2>4. Typed'
    BY <1>1, <1>2, <1>5, <1>6, <2>1 DEF Typed, SyncTypeOK
  <2>. QED  BY <1>1, <1>5, <1>6, <1>7, <1>8, <2>1, <2>2, <2>3, <2>4, QuietStep, Zenon DEF SleepersInv
<1>11. CASE waiters[kbd_lock] # <<>>
  <2> DEFINE q == waiters[kbd_lock]
             h == Head(q)
  <2>1. /\ waiters' = [waiters EXCEPT ![kbd_lock] = Tail(q)]
        /\ thread_unblock(h, value[kbd_lock] # 0 \/ value'[kbd_lock] # 1)
    BY <1>1, <1>3, <1>11, Zenon DEF sema_up
  <2>2. thread_unblock(h, FALSE)
    <3>1. (value[kbd_lock] # 0 \/ value'[kbd_lock] # 1) = FALSE
      BY <1>3, <1>5, SMT, Z3
    <3>. QED  BY <2>1, <3>1, Zenon
  <2>3. q \in Seq(Thread) /\ NoRepeat(q) /\ q # <<>>
    BY <1>2, <1>9, <1>11 DEF Typed, SyncTypeOK, TagInOneList
  <2>4. /\ Tail(q) \in Seq(Thread) /\ h \in Thread /\ elem_find(q, h) /\ NoRepeat(Tail(q))
        /\ \A u : elem_find(Tail(q), u) <=> elem_find(q, u) /\ u # h
    BY <2>3, PopFacts, Zenon
  <2>5. status[h] = "BLOCKED" /\ pc[h] = "sema_wait" /\ arg[h] = kbd_lock
    BY <1>2, <1>9, <2>4 DEF TagInOneList
  <2> HIDE DEF h, q
  <2>6. SchedInv' /\ status' = [status EXCEPT ![h] = "READY"]
    BY <1>1, <1>2, <2>2, <2>4, <2>5, UnblockFacts, Zenon
  <2>7. status'[h] = "READY" /\ \A u \in Thread \ {h} : status'[u] = status[u]
    BY <1>2, <2>4, <2>6, Zenon DEF SchedInv, ThreadTypeOK
  <2>8. waiters'[kbd_lock] = Tail(q) /\ waiters'[disk_done] = waiters[disk_done]
        /\ waiters' \in [Lock \cup Sema -> Seq(Thread)]
    BY <1>2, <2>1, <2>4, Names, Zenon DEF Typed, SyncTypeOK
  <2>9. TagInOneList'
    <3>1. \A u \in Thread : status'[u] = "BLOCKED" => ~elem_find(thread_ready_list', u)
      BY <2>6, Zenon DEF SchedInv, ReadyListConsistent
    <3>2. ASSUME NEW u \in Thread, elem_find(Tail(q), u)
          PROVE  status'[u] = "BLOCKED" /\ pc'[u] = "sema_wait" /\ arg'[u] = kbd_lock
      <4>1. u # h /\ status[u] = "BLOCKED" /\ pc[u] = "sema_wait" /\ arg[u] = kbd_lock
        BY <1>2, <1>9, <2>4, <3>2, Zenon DEF TagInOneList, q
      <4>2. u # t
        BY <1>9, <4>1
      <4>. QED  BY <1>6, <2>7, <4>1, <4>2, Zenon DEF Alone
    <3>3. ASSUME NEW u \in Thread, elem_find(waiters[disk_done], u)
          PROVE  status'[u] = "BLOCKED" /\ pc'[u] = "sema_wait" /\ arg'[u] = disk_done
      <4>1. status[u] = "BLOCKED" /\ pc[u] = "sema_wait" /\ arg[u] = disk_done
        BY <1>2, <3>3, Names, Zenon DEF TagInOneList
      <4>2. u # t /\ u # h
        BY <1>9, <2>5, <4>1, Names
      <4>. QED  BY <1>6, <2>7, <4>1, <4>2, Zenon DEF Alone
    <3>4. NoRepeat(waiters[disk_done])
      BY <1>2, Names, Zenon DEF TagInOneList
    <3>5. ASSUME NEW s \in {kbd_lock, disk_done}, NEW u \in Thread, elem_find(waiters'[s], u)
          PROVE  /\ status'[u] = "BLOCKED" /\ pc'[u] = "sema_wait" /\ arg'[u] = s
                 /\ ~elem_find(thread_ready_list', u)
      BY <2>8, <3>1, <3>2, <3>3, <3>5, Zenon
    <3>6. ASSUME NEW s \in {kbd_lock, disk_done}  PROVE NoRepeat(waiters'[s])
      BY <2>4, <2>8, <3>4, Zenon
    <3>. QED  BY <3>5, <3>6, Names DEF TagInOneList
  <2>10. SleepInv'
    <3>1. \A r \in Reader : pc'[r] = "ioq_woken" /\ status'[r] = "BLOCKED" =>
            pc[r] = "ioq_woken" /\ status[r] = "BLOCKED"
      BY <1>6, <2>7, Names, Zenon DEF Alone
    <3>2. \A r \in Reader : pc[r] = "ioq_woken" /\ status[r] = "BLOCKED" =>
            pc'[r] = "ioq_woken" /\ status'[r] = "BLOCKED"
      BY <1>6, <1>9, <2>5, <2>7, Names DEF Alone
    <3>. QED  BY <1>1, <3>1, <3>2, SleepKept, ZenonT(30)
  <2>11. Typed'
    BY <1>1, <1>2, <1>5, <1>6, <2>8, Zenon DEF Typed, SyncTypeOK
  <2>12. DiskInv'
    <3>1. main_thread # t /\ main_thread \in Thread
      BY <1>3, Names
    <3>2. pc'[main_thread] = pc[main_thread] /\ (status'[main_thread] = "BLOCKED" => status[main_thread] = "BLOCKED")
      BY <1>6, <2>7, <3>1, SMT, Z3 DEF Alone
    <3>. QED  BY <1>5, <2>8, <3>2, DiskKept, Zenon
  <2>. QED  BY <1>7, <1>8, <2>6, <2>9, <2>10, <2>11, <2>12, Zenon DEF SleepersInv
<1>. QED  BY <1>10, <1>11, Zenon

(* sema_down() without the value: the thread is queued once and blocks. *)
LEMMA KDownWait ==
  ASSUME SleepersInv, NEW t \in Thread, sema_down_wait(t), UNCHANGED queueVars
  PROVE  SleepersInv'
<1>1. /\ t = current /\ pc[t] \in {"sema_down", "sema_wait"}
      /\ waiters' = [waiters EXCEPT ![arg[t]] = list_append(@, t)]
      /\ old_status' = [old_status EXCEPT ![t] = IF pc[t] = "sema_down" THEN intr ELSE @]
      /\ thread_block(FALSE, elem_find(waiters[arg[t]], t))
      /\ pc' = [pc EXCEPT ![t] = "sema_wait"]
      /\ UNCHANGED <<value, holder, holder_repeat_nr, arg, ret, consumer>>
  BY Zenon DEF sema_down_wait, At, goto, queueVars
<1>2. Typed /\ SchedInv /\ FrameOK(t) /\ TagInOneList /\ SleepInv
  BY DEF SleepersInv, FrameInv
<1>3. PICK k \in {kbd_lock, disk_done} : arg[t] = k
  BY <1>1, <1>2, Zenon DEF FrameOK, SyncPoint
<1>4. /\ status[t] = "RUNNING" /\ \A s \in {kbd_lock, disk_done} : ~elem_find(waiters[s], t)
      /\ t # idle_thread
  BY <1>1, <1>2, CurrentRuns, Names, Zenon DEF FrameOK, SyncPoint
<1>5. SchedInv' /\ BlockedAre({u \in Thread : status[u] = "BLOCKED"} \cup {t})
  <2>1. elem_find(waiters[arg[t]], t) = FALSE
    BY <1>3, <1>4 DEF elem_find
  <2>2. thread_block(FALSE, FALSE)
    BY <1>1, <2>1, Zenon
  <2>. QED  BY <1>1, <1>2, <2>2, BlockFacts, Zenon
<1>6. /\ \A u \in Thread : status'[u] = "BLOCKED" => status[u] = "BLOCKED" \/ u = t
      /\ \A u \in Thread \ {idle_thread} : status[u] = "BLOCKED" \/ u = t => status'[u] = "BLOCKED"
  BY <1>5, Zenon DEF BlockedAre
<1>7. Alone(t) /\ pc'[t] = "sema_wait" /\ pc' \in [Thread -> Point]
  BY <1>1, <1>2 DEF Alone, Typed, Point, SyncPoint
<1>8. FrameInv'
  BY <1>1, <1>2, <1>7, FrameStep, Zenon DEF FrameOK, SyncPoint
<1>9. LockInv'
  BY <1>1, <1>7, LockOutside, Zenon DEF Alone, Inside
<1>10. waiters[k] \in Seq(Thread) /\ NoRepeat(waiters[k]) /\ waiters \in [{kbd_lock, disk_done} -> Seq(Thread)]
  BY <1>2, Names, Zenon DEF Typed, SyncTypeOK, TagInOneList
<1>11. /\ waiters' \in [{kbd_lock, disk_done} -> Seq(Thread)] /\ NoRepeat(waiters'[k])
       /\ \A u : elem_find(waiters'[k], u) <=> u = t \/ elem_find(waiters[k], u)
       /\ \A s \in {kbd_lock, disk_done} : s # k => waiters'[s] = waiters[s]
  <2> DEFINE q == list_append(waiters[k], t)
  <2>1. /\ q \in Seq(Thread) /\ NoRepeat(q)
        /\ \A u : elem_find(q, u) <=> u = t \/ elem_find(waiters[k], u)
    BY <1>4, <1>10, AppendFacts, Zenon
  <2>2. waiters' = [waiters EXCEPT ![k] = q]
    BY <1>1, <1>3
  <2> HIDE DEF q
  <2>3. waiters'[k] = q
    BY <1>10, <2>2
  <2>. QED  BY <1>10, <2>1, <2>2, <2>3
<1>12. Typed'
  <2>1. old_status' \in [Thread -> BOOLEAN]
    BY <1>1, <1>2, Zenon DEF Typed, SyncTypeOK, SchedInv, ThreadTypeOK
  <2>. QED  BY <1>1, <1>2, <1>7, <1>11, <2>1, Names, Zenon DEF Typed, SyncTypeOK
<1>13. TagInOneList'
  <2>1. \A u \in Thread : status'[u] = "BLOCKED" => ~elem_find(thread_ready_list', u)
    BY <1>5, Zenon DEF SchedInv, ReadyListConsistent
  <2>2. ASSUME NEW s \in {kbd_lock, disk_done}, NEW u \in Thread, elem_find(waiters[s], u)
        PROVE  u # t /\ status'[u] = "BLOCKED" /\ pc'[u] = "sema_wait" /\ arg'[u] = s
    <3>1. status[u] = "BLOCKED" /\ pc[u] = "sema_wait" /\ arg[u] = s /\ u # t
      BY <1>2, <1>4, <2>2, Names, Zenon DEF TagInOneList
    <3>2. u # idle_thread
      <4>1. FrameOK(u)
        BY Zenon DEF SleepersInv, FrameInv
      <4>. QED  BY <3>1, <4>1, Names DEF FrameOK, SyncPoint
    <3>. QED  BY <1>6, <1>7, <3>1, <3>2, Zenon DEF Alone
  <2>3. status'[t] = "BLOCKED" /\ arg'[t] = k
    BY <1>1, <1>3, <1>4, <1>6, Zenon
  <2>4. ASSUME NEW s \in {kbd_lock, disk_done}, NEW u \in Thread, elem_find(waiters'[s], u)
        PROVE  /\ status'[u] = "BLOCKED" /\ pc'[u] = "sema_wait" /\ arg'[u] = s
               /\ ~elem_find(thread_ready_list', u)
    BY <1>7, <1>11, <2>1, <2>2, <2>3, <2>4, Zenon
  <2>5. ASSUME NEW s \in {kbd_lock, disk_done}  PROVE NoRepeat(waiters'[s])
    BY <1>2, <1>11, Names, Zenon DEF TagInOneList
  <2>. QED  BY <2>4, <2>5, Names DEF TagInOneList
<1>14. SleepInv'
  BY <1>1, <1>4, <1>6, <1>7, SleepKept, Names, Zenon DEF Alone
<1>15. DiskInv'
  <2>1. CASE t = main_thread
    <3>1. k = disk_done
      BY <1>1, <1>2, <1>3, <2>1, Names DEF FrameOK, SyncPoint
    <3>2. value[disk_done] = 0
      BY <1>3, <3>1 DEF sema_down_wait
    <3>3. elem_find(waiters'[disk_done], main_thread)
      BY <1>11, <2>1, <3>1, Zenon
    <3>. QED  BY <1>1, <3>2, <3>3, Zenon DEF DiskInv
  <2>2. CASE t # main_thread
    <3>1. t \in Reader /\ k = kbd_lock
      BY <1>1, <1>2, <1>3, <2>2 DEF FrameOK, SyncPoint
    <3>. QED  BY <1>1, <1>6, <1>7, <1>11, <2>2, <3>1, DiskKept, Names, Zenon DEF Alone
  <2>. QED  BY <2>1, <2>2
<1>. QED  BY <1>5, <1>8, <1>9, <1>12, <1>13, <1>14, <1>15 DEF SleepersInv

(* A sleeping thread of the lists is no idle_thread. *)
LEMMA SleepersAreNotIdle ==
  ASSUME SleepersInv, NEW u \in Thread, pc[u] \in {"sema_wait", "ioq_woken"}
  PROVE  u # idle_thread
<1>1. FrameOK(u)
  BY DEF SleepersInv, FrameInv
<1>. QED  BY <1>1, Names DEF FrameOK, SyncPoint

(* ioqueue_wait(): the holder of the lock records itself, and nobody else is  *)
(* recorded, since whoever is holds the lock too.                           *)
LEMMA KQueueWait ==
  ASSUME SleepersInv, NEW t \in Reader, ioqueue_wait(t)  PROVE SleepersInv'
<1>0. t \in Thread /\ t # idle_thread
  BY Names, SMT, Z3
<1>1. /\ t = current /\ pc[t] = "ioq_wait" /\ consumer' = t
      /\ thread_block(intr, consumer # NULL) /\ pc' = [pc EXCEPT ![t] = "ioq_woken"]
      /\ UNCHANGED <<value, waiters, holder, holder_repeat_nr, arg, ret, old_status>>
  BY DEF ioqueue_wait, At, goto, syncVars
<1>2. Typed /\ SchedInv /\ FrameOK(t) /\ TagInOneList /\ SleepInv
  BY <1>0 DEF SleepersInv, FrameInv
<1>3. /\ \A u \in Thread \ {t} : pc[u] \notin Inside
      /\ value[kbd_lock] = 0 /\ holder_repeat_nr[kbd_lock] = 1
      /\ holder[kbd_lock] = t
  <2>1. pc[t] \in Inside /\ pc[t] \in Holding
    BY <1>1 DEF Inside, Holding
  <2>. QED  BY <1>0, <1>1, <2>1, InsideFacts, Zenon
<1>4. consumer = NULL
  <2>1. SUFFICES ASSUME consumer # NULL  PROVE FALSE
    BY Zenon
  <2>2. consumer \in Thread /\ pc[consumer] = "ioq_woken"
    BY <1>2, <2>1, Names, SMT, Z3 DEF Typed, SleepInv
  <2>3. consumer # t
    BY <1>1, <2>2
  <2>. QED  BY <1>3, <2>2, <2>3 DEF Inside
<1>5. SchedInv' /\ BlockedAre({u \in Thread : status[u] = "BLOCKED"} \cup {t})
  <2>1. (consumer # NULL) = FALSE /\ intr \in BOOLEAN
    BY <1>2, <1>4 DEF SchedInv, ThreadTypeOK
  <2>2. thread_block(intr, FALSE)
    BY <1>1, <2>1, Zenon
  <2>. QED  BY <1>1, <1>2, <2>1, <2>2, BlockFacts, Zenon
<1>6. /\ \A u \in Thread : status'[u] = "BLOCKED" => status[u] = "BLOCKED" \/ u = t
      /\ \A u \in Thread \ {idle_thread} : status[u] = "BLOCKED" \/ u = t => status'[u] = "BLOCKED"
  BY <1>5 DEF BlockedAre
<1>7. Alone(t) /\ pc'[t] = "ioq_woken" /\ pc' \in [Thread -> Point]
  BY <1>0, <1>1, <1>2, Zenon DEF Alone, Typed, Point
<1>8. Typed'
  BY <1>1, <1>2, <1>7, Zenon DEF Typed, SyncTypeOK
<1>9. FrameInv'
  BY <1>0, <1>1, <1>7, FrameStep, Zenon DEF FrameOK, SyncPoint
<1>10. LockInv'
  <2>1. pc'[t] \in Inside /\ pc'[t] \in Holding
    BY <1>7, Zenon DEF Inside, Holding
  <2>. QED  BY <1>0, <1>1, <1>3, <1>7, <2>1, LockInside, Zenon
<1>11. TagInOneList'
  <2>1. ASSUME NEW u \in Thread, status[u] = "BLOCKED", pc[u] = "sema_wait"
        PROVE  status'[u] = "BLOCKED" /\ pc'[u] = pc[u] /\ arg'[u] = arg[u]
    <3>1. u # t /\ u # idle_thread
      BY <1>1, <2>1, SleepersAreNotIdle
    <3>. QED  BY <1>6, <1>7, <2>1, <3>1, SMT, Z3 DEF Alone
  <2>. QED  BY <1>1, <1>5, <2>1, TagKept, Zenon
<1>12. SleepInv'
  <2>1. \A r \in Reader : pc'[r] = "ioq_woken" => r = t
    BY <1>3, <1>7, Names DEF Alone, Inside
  <2>2. status'[t] = "BLOCKED"
    BY <1>0, <1>6, Zenon
  <2>. QED  BY <1>1, <1>7, <2>1, <2>2, Zenon DEF SleepInv
<1>13. DiskInv'
  <2>1. main_thread # t /\ main_thread \in Thread
    BY Names
  <2>. QED  BY <1>1, <1>6, <1>7, <2>1, DiskKept, SMT, Z3 DEF Alone
<1>. QED  BY <1>5, <1>8, <1>9, <1>10, <1>11, <1>12, <1>13, SMT, Z3 DEF SleepersInv

-----------------------------------------------------------------------------
(* The steps that move a thread neither in sync.c nor in ioqueue.c, and wake  *)
(* or block none but idle_thread.                                           *)
LEMMA ElsewhereStep ==
  ASSUME SleepersInv, SchedInv', UNCHANGED <<syncVars, arg, ret, old_status, consumer>>,
         pc' \in [Thread -> Point],
         \A u \in Thread : pc'[u] = pc[u] \/ (pc[u] \in {"idle", "hlt"} /\ pc'[u] \in {"idle", "hlt"}),
         \A u \in Thread \ {idle_thread} : status[u] = "BLOCKED" <=> status'[u] = "BLOCKED"
  PROVE  SleepersInv'
<1>1. Typed'
  BY Zenon DEF SleepersInv, Typed, SyncTypeOK, syncVars
<1>2. FrameInv'
  <2>1. ASSUME NEW u \in Thread  PROVE FrameOK(u)'
    <3>1. FrameOK(u)
      BY DEF SleepersInv, FrameInv
    <3>. QED  BY <3>1, SMT, Z3 DEF FrameOK, SyncPoint
  <2>. QED  BY <2>1, Zenon DEF FrameInv
<1>3. LockInv'
  BY LockOutside, Zenon DEF Inside, syncVars
<1>4. TagInOneList'
  BY SleepersAreNotIdle, TagKept, Zenon DEF syncVars
<1>5. SleepInv'
  BY SleepersAreNotIdle, SleepKept, Names, Zenon
<1>6. DiskInv'
  <2>1. pc'[main_thread] = "sema_wait" => pc[main_thread] = "sema_wait"
    BY Names
  <2>2. status'[main_thread] = "BLOCKED" => status[main_thread] = "BLOCKED"
    BY Names
  <2>. QED  BY <2>1, <2>2, DiskKept, Zenon DEF syncVars
<1>. QED  BY <1>1, <1>2, <1>3, <1>4, <1>5, <1>6, Zenon DEF SleepersInv

LEMMA KIdle ==
  ASSUME SleepersInv, idle_block  PROVE SleepersInv'
<1>1. /\ idle_thread = current /\ pc[idle_thread] = "idle"
      /\ thread_block(intr, FALSE) /\ pc' = [pc EXCEPT ![idle_thread] = "hlt"]
      /\ UNCHANGED <<syncVars, arg, ret, old_status, consumer>>
  BY Zenon DEF idle_block, At, goto, queueVars
<1>2. Typed /\ SchedInv /\ intr \in BOOLEAN
  BY DEF SleepersInv, SchedInv, ThreadTypeOK
<1>3. SchedInv' /\ BlockedAre({u \in Thread : status[u] = "BLOCKED"} \cup {idle_thread})
  BY <1>1, <1>2, BlockFacts, Zenon
<1>4. \A u \in Thread \ {idle_thread} : status[u] = "BLOCKED" <=> status'[u] = "BLOCKED"
  BY <1>3 DEF BlockedAre
<1>5. pc' \in [Thread -> Point]
  BY <1>1, <1>2, Zenon DEF Typed, Point
<1>6. \A u \in Thread : pc'[u] = pc[u] \/ (pc[u] \in {"idle", "hlt"} /\ pc'[u] \in {"idle", "hlt"})
  BY <1>1, <1>2 DEF Typed
<1>. QED  BY <1>1, <1>3, <1>4, <1>5, <1>6, ElsewhereStep

(* An interrupt ends hlt and moves nobody else. *)
LEMMA LeaveHlt ==
  ASSUME SleepersInv, leave_hlt
  PROVE  /\ pc' \in [Thread -> Point]
         /\ \A u \in Thread : pc'[u] = pc[u] \/ (pc[u] \in {"idle", "hlt"} /\ pc'[u] \in {"idle", "hlt"})
<1>1. pc \in [Thread -> Point] /\ current \in Thread
  BY DEF SleepersInv, SchedInv, ThreadTypeOK, Typed
<1>2. pc' = [pc EXCEPT ![current] = IF pc[current] = "hlt" THEN "idle" ELSE pc[current]]
  BY <1>1, Zenon DEF leave_hlt
<1>. QED  BY <1>1, <1>2 DEF Point

LEMMA KTimer ==
  ASSUME SleepersInv, Timer  PROVE SleepersInv'
<1>1. intr_timer_handler /\ leave_hlt /\ UNCHANGED <<syncVars, arg, ret, old_status, consumer>>
  BY DEF Timer, queueVars
<1>2. SchedInv' /\ BlockedAre({u \in Thread : status[u] = "BLOCKED"})
  BY <1>1, TimerFacts DEF SleepersInv
<1>3. \A u \in Thread \ {idle_thread} : status[u] = "BLOCKED" <=> status'[u] = "BLOCKED"
  BY <1>2 DEF BlockedAre
<1>. QED  BY <1>1, <1>2, <1>3, LeaveHlt, ElsewhereStep

LEMMA KFork ==
  ASSUME SleepersInv, NEW t \in Thread, Fork(t)  PROVE SleepersInv'
<1>1. PICK c \in Reader : thread_start(c)
  BY DEF Fork
<1>2. UNCHANGED <<syncVars, pc, arg, ret, old_status, consumer>> /\ c \in Thread
  BY Names DEF Fork, frameVars, queueVars
<1>3. SchedInv' /\ status' = [status EXCEPT ![c] = "READY"] /\ status[c] = "NONE"
  BY <1>1, <1>2, StartFacts, Zenon DEF SleepersInv
<1>4. \A u \in Thread \ {idle_thread} : status[u] = "BLOCKED" <=> status'[u] = "BLOCKED"
  BY <1>2, <1>3 DEF SleepersInv, SchedInv, ThreadTypeOK
<1>5. pc' \in [Thread -> Point]
  BY <1>2 DEF SleepersInv, Typed
<1>. QED  BY <1>2, <1>3, <1>4, <1>5, ElsewhereStep

(* A step that leaves all of it alone. *)
LEMMA KSame ==
  ASSUME SleepersInv, UNCHANGED <<threadVars, syncVars, pc, arg, ret, old_status, consumer>>
  PROVE  SleepersInv'
<1>1. SchedInv'
  BY DEF SleepersInv, SchedInv, ThreadTypeOK, ReadyListConsistent, threadVars
<1>2. pc' \in [Thread -> Point]
  BY DEF SleepersInv, Typed
<1>. QED  BY <1>1, <1>2, ElsewhereStep, Zenon DEF threadVars

(* The keyboard interrupt wakes the reader recorded, and clears the record. *)
LEMMA KKeyboard ==
  ASSUME SleepersInv, intr_keyboard_handler  PROVE SleepersInv'
<1>1. leave_hlt /\ UNCHANGED <<syncVars, arg, ret, old_status>>
  BY Zenon DEF intr_keyboard_handler
<1>2. CASE UNCHANGED <<threadVars, consumer>>
  <2>1. SchedInv'
    BY <1>2 DEF SleepersInv, SchedInv, ThreadTypeOK, ReadyListConsistent, threadVars
  <2>. QED  BY <1>1, <1>2, <2>1, LeaveHlt, ElsewhereStep, Zenon DEF threadVars
<1>3. CASE consumer # NULL /\ thread_unblock(consumer, FALSE) /\ intr' = intr /\ consumer' = NULL
  <2>1. PICK c \in Reader : c = consumer
    BY <1>3 DEF SleepersInv, Typed
  <2>2. /\ c \in Thread /\ pc[c] = "ioq_woken" /\ status[c] = "BLOCKED"
        /\ thread_unblock(c, FALSE) /\ c # idle_thread
    BY <1>3, <2>1, Names, Zenon DEF SleepersInv, SleepInv
  <2>3. SchedInv' /\ status' = [status EXCEPT ![c] = "READY"]
    BY <1>3, <2>2, UnblockFacts, Zenon DEF SleepersInv
  <2>4. status'[c] = "READY" /\ \A u \in Thread \ {c} : status'[u] = status[u]
    BY <2>2, <2>3, Zenon DEF SleepersInv, SchedInv, ThreadTypeOK
  <2>5. /\ pc' \in [Thread -> Point]
        /\ \A u \in Thread : pc'[u] = pc[u] \/ (pc[u] \in {"idle", "hlt"} /\ pc'[u] \in {"idle", "hlt"})
    BY <1>1, LeaveHlt, Zenon
  <2>6. Typed'
    BY <1>1, <1>3, <2>5 DEF SleepersInv, Typed, SyncTypeOK, syncVars
  <2>7. FrameInv'
    <3>1. ASSUME NEW u \in Thread  PROVE FrameOK(u)'
      <4>1. FrameOK(u)
        BY DEF SleepersInv, FrameInv
      <4>. QED  BY <1>1, <2>5, <4>1, Zenon DEF FrameOK, SyncPoint
    <3>. QED  BY <3>1 DEF FrameInv
  <2>8. LockInv'
    BY <1>1, <2>5, LockOutside, Zenon DEF Inside, syncVars
  <2>9. TagInOneList'
    BY <1>1, <2>2, <2>3, <2>4, <2>5, TagKept, Zenon DEF syncVars
  <2>10. SleepInv'
    <3>1. ASSUME NEW r \in Reader, pc'[r] = "ioq_woken", status'[r] = "BLOCKED"  PROVE FALSE
      <4>1. r \in Thread /\ r # c /\ pc[r] = "ioq_woken" /\ status[r] = "BLOCKED"
        BY <2>4, <2>5, <3>1, Names
      <4>. QED  BY <2>1, <4>1, Zenon DEF SleepersInv, SleepInv
    <3>. QED  BY <1>3, <3>1 DEF SleepInv
  <2>11. DiskInv'
    <3>1. main_thread # c /\ main_thread \in Thread
      BY Names
    <3>2. status'[main_thread] = status[main_thread]
      BY <2>4, <3>1
    <3>3. pc'[main_thread] = "sema_wait" => pc[main_thread] = "sema_wait"
      BY <2>5, <3>1
    <3>. QED  BY <1>1, <3>2, <3>3, DiskKept, Zenon DEF syncVars
  <2>. QED  BY <2>3, <2>6, <2>7, <2>8, <2>9, <2>10, <2>11, SMT, Z3 DEF SleepersInv
<1>. QED  BY <1>2, <1>3, Zenon DEF intr_keyboard_handler, ioqueue_putchar, queueVars

-----------------------------------------------------------------------------
(* main: it goes to wait for the disk, or comes to its end. *)
LEMMA KMainWaits ==
  ASSUME SleepersInv, MainWaits  PROVE SleepersInv'
<1>0. main_thread \in Thread
  BY Names
<1>1. /\ main_thread = current /\ pc[main_thread] = "main"
      /\ pc' = [pc EXCEPT ![main_thread] = "sema_down"]
      /\ arg' = [arg EXCEPT ![main_thread] = disk_done] /\ ret' = [ret EXCEPT ![main_thread] = "main"]
      /\ UNCHANGED <<thread_ready_list, status, current, ticks, intr, saved_if, panic, old_status,
                     value, waiters, holder, holder_repeat_nr, consumer>>
  BY DEF MainWaits, At, call, goto, threadVars, syncVars, queueVars
<1>2. Typed /\ SchedInv
  BY DEF SleepersInv
<1>3. /\ Alone(main_thread) /\ pc'[main_thread] = "sema_down" /\ arg'[main_thread] = disk_done
      /\ ret'[main_thread] = "main" /\ panic' = FALSE /\ ThreadTypeOK'
  BY <1>0, <1>1, <1>2 DEF Alone, Typed, SchedInv, ThreadTypeOK
<1>4. Typed'
  BY <1>0, <1>1, <1>2 DEF Typed, SyncTypeOK, Point, SyncPoint
<1>5. FrameInv'
  BY <1>0, <1>3, FrameStep, Names DEF FrameOK, SyncPoint
<1>6. LockInv'
  BY <1>0, <1>1, <1>3, LockOutside, Zenon DEF Alone, Inside
<1>. QED  BY <1>0, <1>1, <1>3, <1>4, <1>5, <1>6, QuietStep, Zenon DEF SleepersInv

LEMMA KMainDone ==
  ASSUME SleepersInv, MainDone  PROVE SleepersInv'
<1>0. main_thread \in Thread
  BY Names
<1>1. /\ main_thread = current /\ pc[main_thread] = "main"
      /\ pc' = [pc EXCEPT ![main_thread] = "spin"]
      /\ UNCHANGED <<thread_ready_list, status, current, ticks, intr, saved_if, panic, arg, ret,
                     old_status, value, waiters, holder, holder_repeat_nr, consumer>>
  BY DEF MainDone, At, goto, threadVars, syncVars, queueVars
<1>2. Typed /\ SchedInv
  BY DEF SleepersInv
<1>3. Alone(main_thread) /\ pc'[main_thread] = "spin" /\ panic' = FALSE /\ ThreadTypeOK'
  BY <1>0, <1>1, <1>2 DEF Alone, Typed, SchedInv, ThreadTypeOK
<1>4. Typed'
  BY <1>0, <1>1, <1>2 DEF Typed, SyncTypeOK, Point
<1>5. FrameInv'
  BY <1>0, <1>3, FrameStep DEF FrameOK, SyncPoint
<1>6. LockInv'
  BY <1>0, <1>1, <1>3, LockOutside, Zenon DEF Alone, Inside
<1>. QED  BY <1>0, <1>1, <1>3, <1>4, <1>5, <1>6, QuietStep, Zenon DEF SleepersInv

(* The disk interrupt wakes main, the only thread in that waiting list. *)
LEMMA KDisk ==
  ASSUME SleepersInv, intr_hd_handler  PROVE SleepersInv'
<1>0. main_thread \in Thread /\ disk_done \in Lock \cup Sema /\ main_thread # idle_thread
  BY Names
<1>1. /\ pc[main_thread] = "sema_wait" /\ status[main_thread] = "BLOCKED" /\ sema_up(disk_done)
      /\ leave_hlt /\ UNCHANGED <<arg, ret, old_status, consumer, holder, holder_repeat_nr, intr>>
  BY Zenon DEF intr_hd_handler, sema_up, queueVars
<1>2. Typed /\ SchedInv /\ TagInOneList /\ value[disk_done] = 0 /\ elem_find(waiters[disk_done], main_thread)
  BY <1>1 DEF SleepersInv, DiskInv
<1> DEFINE q == waiters[disk_done]
           h == Head(q)
<1>3. q \in Seq(Thread) /\ NoRepeat(q) /\ q # <<>>
  BY <1>0, <1>2 DEF Typed, SyncTypeOK, TagInOneList, elem_find
<1>4. /\ Tail(q) \in Seq(Thread) /\ h \in Thread /\ elem_find(q, h) /\ NoRepeat(Tail(q))
      /\ \A u : elem_find(Tail(q), u) <=> elem_find(q, u) /\ u # h
  BY <1>3, PopFacts, Zenon
<1>5. \A u \in Thread : elem_find(q, u) => u = main_thread
  <2>1. SUFFICES ASSUME NEW u \in Thread, elem_find(q, u)  PROVE u = main_thread
    OBVIOUS
  <2>2. pc[u] = "sema_wait" /\ arg[u] = disk_done /\ FrameOK(u)
    BY <1>0, <1>2, <2>1 DEF TagInOneList, SleepersInv, FrameInv
  <2>. QED  BY <2>2, Names DEF FrameOK, SyncPoint
<1>6. h = main_thread
  BY <1>4, <1>5
<1>7. /\ value' = [value EXCEPT ![disk_done] = 1] /\ value' \in [Lock \cup Sema -> {0, 1}]
      /\ value'[disk_done] = 1 /\ value'[kbd_lock] = value[kbd_lock]
  <2>1. value' = [value EXCEPT ![disk_done] = @ + 1] /\ value \in [{kbd_lock, disk_done} -> {0, 1}]
    BY <1>1, <1>2, Names DEF sema_up, Typed, SyncTypeOK
  <2>2. value' = [value EXCEPT ![disk_done] = 1]
    BY <1>2, <2>1
  <2>3. value' \in [{kbd_lock, disk_done} -> {0, 1}] /\ value'[disk_done] = 1 /\ value'[kbd_lock] = value[kbd_lock]
    BY <2>1, <2>2, Names
  <2>. QED  BY <2>2, <2>3, Names, Zenon
<1>8. waiters' = [waiters EXCEPT ![disk_done] = Tail(q)] /\ thread_unblock(main_thread, FALSE)
  <2>1. /\ waiters' = [waiters EXCEPT ![disk_done] = Tail(q)]
        /\ thread_unblock(h, value[disk_done] # 0 \/ value'[disk_done] # 1)
    BY <1>1, <1>3, Zenon DEF sema_up
  <2>2. (value[disk_done] # 0 \/ value'[disk_done] # 1) = FALSE
    BY <1>2, <1>7, SMT, Z3
  <2>. HIDE DEF h
  <2>. QED  BY <1>6, <2>1, <2>2, Zenon
<1> HIDE DEF h, q
<1>9. SchedInv' /\ status' = [status EXCEPT ![main_thread] = "READY"]
  BY <1>0, <1>1, <1>2, <1>8, UnblockFacts, Zenon
<1>10. status'[main_thread] = "READY" /\ \A u \in Thread \ {main_thread} : status'[u] = status[u]
  BY <1>0, <1>2, <1>9, Zenon DEF SchedInv, ThreadTypeOK
<1>11. /\ pc' \in [Thread -> Point]
       /\ \A u \in Thread : pc'[u] = pc[u] \/ (pc[u] \in {"idle", "hlt"} /\ pc'[u] \in {"idle", "hlt"})
  BY <1>1, LeaveHlt, Zenon
<1>12. /\ waiters'[disk_done] = Tail(q) /\ waiters'[kbd_lock] = waiters[kbd_lock]
       /\ waiters' \in [Lock \cup Sema -> Seq(Thread)]
  BY <1>2, <1>4, <1>8, Names, Zenon DEF Typed, SyncTypeOK
<1>13. Typed'
  BY <1>1, <1>2, <1>7, <1>11, <1>12, Zenon DEF Typed, SyncTypeOK
<1>14. FrameInv'
  <2>1. ASSUME NEW u \in Thread  PROVE FrameOK(u)'
    <3>1. FrameOK(u)
      BY DEF SleepersInv, FrameInv
    <3>. QED  BY <1>1, <1>11, <3>1, SMT, Z3 DEF FrameOK, SyncPoint
  <2>. QED  BY <2>1 DEF FrameInv
<1>15. LockInv'
  BY <1>1, <1>7, <1>11, LockOutside, Zenon DEF Inside
<1>16. TagInOneList'
  <2>1. \A u \in Thread : ~elem_find(waiters'[disk_done], u)
    BY <1>4, <1>5, <1>6, <1>12, Zenon DEF q
  <2>2. NoRepeat(waiters'[disk_done])
    BY <1>4, <1>12, Zenon
  <2>3. \A u \in Thread : status'[u] = "BLOCKED" => ~elem_find(thread_ready_list', u)
    BY <1>9, Zenon DEF SchedInv, ReadyListConsistent
  <2>4. ASSUME NEW u \in Thread, elem_find(waiters'[kbd_lock], u)
        PROVE  /\ status'[u] = "BLOCKED" /\ pc'[u] = "sema_wait" /\ arg'[u] = kbd_lock
               /\ ~elem_find(thread_ready_list', u)
    <3>1. status[u] = "BLOCKED" /\ pc[u] = "sema_wait" /\ arg[u] = kbd_lock /\ FrameOK(u)
      BY <1>2, <1>12, <2>4, Names, Zenon DEF TagInOneList, SleepersInv, FrameInv
    <3>2. u # main_thread
      BY <3>1, Names, Zenon DEF FrameOK, SyncPoint
    <3>3. pc'[u] = "sema_wait" /\ status'[u] = "BLOCKED"
      BY <1>10, <1>11, <3>1, <3>2
    <3>. QED  BY <1>1, <2>3, <3>1, <3>3, Zenon
  <2>5. NoRepeat(waiters'[kbd_lock])
    BY <1>2, <1>12, Names, Zenon DEF TagInOneList
  <2>. QED  BY <2>1, <2>2, <2>4, <2>5, Names, Zenon DEF TagInOneList
<1>17. SleepInv'
  <2>1. \A r \in Reader : r \in Thread /\ r # main_thread
    BY Names
  <2>. QED  BY <1>1, <1>10, <1>11, <2>1, SleepKept, SMT, Z3
<1>18. DiskInv'
  BY <1>10, Zenon DEF DiskInv
<1>. QED  BY <1>9, <1>13, <1>14, <1>15, <1>16, <1>17, <1>18, Zenon DEF SleepersInv

-----------------------------------------------------------------------------
LEMMA SleepersInitially == Init => SleepersInv
<1> SUFFICES ASSUME Init  PROVE SleepersInv
  OBVIOUS
<1> DEFINE boot == <<init_thread, idle_thread>>
<1>1. /\ thread_ready_list = boot /\ current = main_thread /\ ticks = priority /\ intr = FALSE
      /\ saved_if = [t \in Thread |-> TRUE] /\ panic = FALSE
      /\ status = [t \in Thread |-> IF t = main_thread THEN "RUNNING"
                                    ELSE IF elem_find(boot, t) THEN "READY" ELSE "NONE"]
  BY DEF Init, thread_init
<1>2. init_thread \in Thread /\ init_thread # main_thread /\ init_thread # idle_thread
  BY IoQueueAssumption
<1>3. \A t : elem_find(boot, t) <=> t = init_thread \/ t = idle_thread
  BY DEF elem_find
<1>4. boot \in Seq(Thread) /\ NoRepeat(boot)
  BY <1>2, Names, SMT, Z3 DEF NoRepeat
<1> HIDE DEF boot
<1>5. /\ status \in [Thread -> Status] /\ status[idle_thread] = "READY"
      /\ \A t \in Thread : status[t] = "RUNNING" <=> t = main_thread
      /\ \A t \in Thread : status[t] = "READY" <=> elem_find(boot, t)
      /\ \A t \in Thread : status[t] # "BLOCKED"
  BY <1>1, <1>2, <1>3, Names DEF Status
<1>6. SchedInv
  BY <1>1, <1>4, <1>5, ThreadAssumption, Zenon DEF SchedInv, ThreadTypeOK, ReadyListConsistent
<1>7. /\ value = [s \in Lock \cup Sema |-> IF s \in Lock THEN 1 ELSE [x \in Sema |-> 0][s]]
      /\ waiters = [s \in Lock \cup Sema |-> <<>>]
      /\ holder = [l \in Lock |-> NULL] /\ holder_repeat_nr = [l \in Lock |-> 0]
      /\ old_status = [t \in Thread |-> FALSE]
      /\ consumer = NULL
      /\ arg = [t \in Thread |-> NULL]
      /\ ret = [t \in Thread |-> "user"]
  BY DEF Init, sync_init
<1>8. pc = [t \in Thread |-> IF t = idle_thread THEN "idle"
                             ELSE IF t = main_thread THEN "main" ELSE "user"]
  BY Names, Zenon DEF Init
<1>9. value \in [Lock \cup Sema -> {0, 1}] /\ value[kbd_lock] = 1
  BY <1>7, Names, IoQueueAssumption, SyncAssumption, Zenon
<1>10. Typed
  BY <1>7, <1>8, <1>9 DEF Typed, SyncTypeOK, Point, SyncPoint
<1>11. FrameInv
  BY <1>7, <1>8, Names, Zenon DEF FrameInv, FrameOK, SyncPoint
<1>12. LockInv
  <2>1. \A t \in Thread : pc[t] \notin Inside /\ pc[t] \notin Holding
    BY <1>8, Zenon DEF Inside, Holding
  <2>2. holder[kbd_lock] = NULL /\ holder_repeat_nr[kbd_lock] = 0
    BY <1>7, Names, Zenon
  <2>. QED  BY <1>9, <2>1, <2>2, Names DEF LockInv, Inside
<1>13. TagInOneList
  BY <1>7, SMT, Z3 DEF TagInOneList, elem_find, NoRepeat
<1>14. SleepInv
  BY <1>5, <1>7, Names, SMT, Z3 DEF SleepInv
<1>15. DiskInv
  BY <1>8, Names, Zenon DEF DiskInv
<1>. QED  BY <1>6, <1>10, <1>11, <1>12, <1>13, <1>14, <1>15 DEF SleepersInv

LEMMA SleepersStep == SleepersInv /\ [Next]_vars => SleepersInv'
<1> SUFFICES ASSUME SleepersInv, [Next]_vars  PROVE SleepersInv'
  OBVIOUS
<1>1. CASE UNCHANGED vars
  BY <1>1, KSame DEF vars, frameVars, queueVars
<1>2. ASSUME NEW t \in Reader, getchar_empty(t) \/ ioqueue_wait(t) \/ getchar_woken(t)
                               \/ getchar(t) \/ read_done(t)
      PROVE  SleepersInv'
  <2>1. CASE getchar(t)
    BY <2>1, KSame DEF getchar, frameVars
  <2>2. CASE read_done(t)
    BY <2>2, ReadDoneStep, Names, SMT, Z3
  <2>. QED  BY <1>2, <2>1, <2>2, EmptyStep, KQueueWait, WokenStep, SMT, Z3
<1>3. ASSUME NEW t \in Thread, SyncStep(t), UNCHANGED queueVars  PROVE SleepersInv'
  BY <1>3, KAcquireTest, KDownWait, KDownTake, KMainTake, KAcquireHolder, KAcquireRepeat, KReleaseTest,
     KReleaseRepeat, KUp DEF SyncStep
<1>4. ASSUME NEW t \in Thread, Fork(t) \/ sys_read(t)  PROVE SleepersInv'
  BY <1>4, KFork, SysReadStep
<1>5. Spin => UNCHANGED vars
  BY DEF Spin
<1>. QED  BY <1>1, <1>2, <1>3, <1>4, <1>5, KIdle, KKeyboard, KTimer, KMainWaits, KMainDone, KDisk
          DEF Next, KernelStep

LEMMA SleepersAlways == Spec => []SleepersInv
BY SleepersInitially, SleepersStep, PTL DEF Spec

LEMMA RecordedNow == SleepersInv => SleeperIsRecorded
<1> SUFFICES ASSUME SleepersInv  PROVE SleeperIsRecorded
  OBVIOUS
<1>1. ~panic /\ SleepInv /\ Typed /\ LockInv
  BY DEF SleepersInv, SchedInv
<1>2. ASSUME consumer # NULL  PROVE holder[kbd_lock] = consumer
  <2>1. consumer \in Thread /\ pc[consumer] = "ioq_woken"
    BY <1>1, <1>2, Names DEF Typed, SleepInv
  <2>. QED  BY <1>1, <2>1, Zenon DEF LockInv, Holding
<1>. QED  BY <1>1, <1>2 DEF SleeperIsRecorded, SleepInv

(* For every set of readers, every length of the ring and however the clock,  *)
(* the keyboard, the disk and read() calls interleave: only the reader recorded in      *)
(* consumer sleeps in ioqueue_wait(), it holds the lock of the buffer, and no *)
(* ASSERT of ioqueue_wait(), wakeup(), thread_unblock(), sema_up() or         *)
(* lock_release() fires on the way (ioqueue.c, sync.c, thread.c).             *)
THEOREM SleepersAreRecorded == Spec => []SleeperIsRecorded
BY SleepersAlways, RecordedNow, PTL
=============================================================================
