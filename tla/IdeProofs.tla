----------------------------- MODULE IdeProofs -----------------------------
(***************************************************************************)
(* Proofs about Ide, for every set of processes, every size of the drive,   *)
(* of a command and of a request, and every time limit.                     *)
(***************************************************************************)
EXTENDS Ide, ThreadsProofs

(* Where thread t is while the drive works for it, while it has the semaphore *)
(* of the channel lock, and while it is recorded as the lock's holder.       *)
Waits(t) == pc[t] \in {"sema_down", "sema_wait"} /\ arg[t] = disk_done
DriverPoint == {"io_cmd", "busy_wait", "ticks_to_sleep", "transfer", "io_next", "io_unlock"}
Drives(t) == pc[t] \in DriverPoint \/ Waits(t)
Locked(t) == Drives(t) /\ req[t].op # "identify"
Inside(t) == Locked(t) \/ pc[t] \in {"la_holder", "la_repeat", "lock_release", "lr_repeat", "sema_up"}
Holds(t) == Locked(t) \/ pc[t] \in {"la_repeat", "lock_release"}

Free == {"user", "main", "spin", "blocked", "idle", "hlt"}
Acquiring(t) == \/ pc[t] \in {"lock_acquire", "la_holder", "la_repeat"}
                \/ pc[t] \in {"sema_down", "sema_wait"} /\ arg[t] = channel_lock
Releasing == {"lock_release", "lr_repeat", "sema_up"}

Typed ==
  /\ TypeOK
  /\ arg \in [Thread -> {channel_lock, disk_done, NULL}]
  /\ ret \in [Thread -> {"user", "io_cmd", "busy_wait", "io_next", "io_done"}]

(* The first n sectors of the request, and the length of the round. *)
Upto(t, n) == req[t].lba..(req[t].lba + n - 1)
Round(t) == secs_op(secs_done[t], req[t].sec_cnt)

(* What the point of thread t says of its call and of its request. *)
ThreadOK(t) ==
  /\ pc[t] \notin Free => t \in Proc \cup {main_thread} /\ req[t] \in Request /\ Valid(req[t])
  /\ pc[t] \in SyncPoint => Acquiring(t) \/ Waits(t) \/ pc[t] \in Releasing
  /\ Acquiring(t) \/ pc[t] \in Releasing => arg[t] = channel_lock
  /\ Acquiring(t) \/ pc[t] \in Releasing \cup {"io_unlock"} => req[t].op # "identify"
  /\ Acquiring(t) => ret[t] = "io_cmd"
  /\ pc[t] \in Releasing => ret[t] = "io_done"
  /\ Waits(t) => ret[t] = IF req[t].op = "write" THEN "io_next" ELSE "busy_wait"
  /\ pc[t] \in Free \/ Acquiring(t) => secs_done[t] = 0 /\ moved[t] = {}
  /\ pc[t] \in DriverPoint \ {"io_unlock"} \/ Waits(t) => secs_done[t] < req[t].sec_cnt
  /\ pc[t] \in {"io_cmd", "busy_wait", "ticks_to_sleep", "transfer"} \/ (Waits(t) /\ ret[t] = "busy_wait") =>
       moved[t] = Upto(t, secs_done[t])
  /\ pc[t] = "io_next" \/ (Waits(t) /\ ret[t] = "io_next") => moved[t] = Upto(t, secs_done[t] + Round(t))
  /\ pc[t] \in Releasing \cup {"io_unlock"} => moved[t] = Upto(t, req[t].sec_cnt)
  /\ pc[t] = "io_done" /\ req[t].op # "identify" => moved[t] = Upto(t, req[t].sec_cnt)
  /\ pc[t] \in {"busy_wait", "ticks_to_sleep", "transfer"} \/ Waits(t) => time_limit[t] > 0

ThreadsInv == \A t \in Thread : ThreadOK(t)

(* identify_disk() runs before anything else uses the drive. *)
IdentifyInv ==
  /\ \A t \in Thread : Drives(t) /\ req[t].op = "identify" => t = main_thread /\ ~identified
  /\ ~identified =>
       /\ \A t \in Thread \ {main_thread} : pc[t] \in {"user", "idle", "hlt"}
       /\ \/ pc[main_thread] \in {"main", "io_done"}
          \/ Drives(main_thread) /\ req[main_thread].op = "identify"

LockInv ==
  /\ value[channel_lock] = 1 => holder_repeat_nr[channel_lock] = 0
  /\ \A t, u \in Thread : Inside(t) /\ Inside(u) => t = u
  /\ \A t \in Thread :
       /\ Inside(t) => value[channel_lock] = 0
       /\ holder[channel_lock] = t <=> Holds(t)
       /\ pc[t] \in {"la_holder", "la_repeat", "sema_up"} => holder_repeat_nr[channel_lock] = 0
       /\ Holds(t) /\ pc[t] # "la_repeat" => holder_repeat_nr[channel_lock] = 1

(* Nobody waits for the drive, and it is not working. *)
Rest == drive = "ready" /\ ~expecting_intr /\ value[disk_done] = 0

(* The drive works on the round t is in. *)
Mine(t) ==
  /\ command.by = t /\ command.op = req[t].op
  /\ req[t].op # "identify" => command.lba = req[t].lba + secs_done[t] /\ command.sec_cnt = Round(t)

(* From the command, or the data, to the semaphore: one interrupt, one up. *)
Answer(done) ==
  \/ drive = "busy" /\ ~irq /\ expecting_intr /\ value[disk_done] = 0
  \/ drive = done /\ irq /\ expecting_intr /\ value[disk_done] = 0
  \/ drive = done /\ ~irq /\ ~expecting_intr /\ value[disk_done] = 1

StageOK(t) ==
  /\ pc[t] \in {"io_cmd", "io_next", "io_unlock"} => Rest
  /\ pc[t] = "io_next" => command.by = t
  /\ pc[t] \in {"busy_wait", "ticks_to_sleep", "transfer"} \/ Waits(t) => Mine(t)
  /\ Waits(t) => command.sent /\ Answer(IF req[t].op = "write" THEN "ready" ELSE "drq")
  /\ pc[t] \in {"busy_wait", "ticks_to_sleep", "transfer"} /\ req[t].op # "write" =>
       drive = "drq" /\ ~expecting_intr /\ value[disk_done] = 0
  /\ pc[t] \in {"busy_wait", "ticks_to_sleep", "transfer"} /\ req[t].op = "write" =>
       /\ drive \in {"busy", "drq"} /\ expecting_intr /\ value[disk_done] = 0
       /\ ~irq /\ ~command.sent
       /\ pc[t] = "transfer" => drive = "drq"

ChannelInv ==
  /\ ~clash
  /\ \A t \in Thread : Drives(t) => StageOK(t)
  /\ (\A t \in Thread : ~Drives(t)) => Rest

IdeInv == SchedInv /\ Typed /\ ThreadsInv /\ IdentifyInv /\ LockInv /\ ChannelInv /\ TagInOneList

(* What is left to say after PANIC has stopped the kernel. *)
Shown == ChannelExclusive /\ TransferIsMine /\ RequestComplete /\ PanicOnlyOnTimeout

DriverInv == IF panic THEN Shown ELSE IdeInv

-----------------------------------------------------------------------------
(* What the constants are. *)
LEMMA Names ==
  /\ Lock \cup Sema = {channel_lock, disk_done} /\ Lock = {channel_lock} /\ Sema = {disk_done}
  /\ channel_lock # disk_done
  /\ NULL \notin Thread /\ NULL # channel_lock /\ NULL # disk_done
  /\ Proc \subseteq Thread /\ main_thread \in Thread /\ idle_thread \in Thread /\ init_thread \in Thread
  /\ main_thread \notin Proc /\ idle_thread \notin Proc
  /\ idle_thread # main_thread /\ init_thread # main_thread /\ init_thread # idle_thread
BY ThreadAssumption, SyncAssumption, IdeAssumption, Zenon

LEMMA Numbers ==
  /\ max_lba \in Nat /\ SecsPerCmd \in Nat \ {0} /\ time_limit_ms \in Nat \ {0}
  /\ MaxSecs \in Nat \ {0} /\ MaxSecs <= max_lba + 1
BY IdeAssumption

LEMMA Remainder ==
  ASSUME NEW S \in Nat \ {0}, NEW n \in 1..S
  PROVE  n % S = IF n = S THEN 0 ELSE n
OBVIOUS

LEMMA Small ==
  /\ 0 # 1 /\ 1 > 0 /\ ~(1 > 1) /\ 0 + 1 = 1 /\ 0..(0 + 0 - 1) = {}
  /\ \A n \in Nat : n # 0 => n > 0
  /\ \A m, n \in Nat : m <= n /\ ~(m < n) => m = n
OBVIOUS

LEMMA Ranges ==
  /\ 1..SecsPerCmd \subseteq Nat /\ 0..MaxSecs \subseteq Nat /\ 0..max_lba \subseteq Nat
  /\ 0..time_limit_ms \subseteq Nat /\ \A n \in 1..MaxSecs : n > 0
BY Numbers

LEMMA NoSectors == \A a \in Nat : a..(a + 0 - 1) = {}
OBVIOUS

(* A round moves at most what a command can, and the 8-bit count, 0 for the  *)
(* largest one, says how much on both sides.                                *)
LEMMA RoundFacts ==
  ASSUME NEW done \in Nat, NEW cnt \in Nat, done < cnt
  PROVE  /\ secs_op(done, cnt) \in 1..SecsPerCmd /\ done + secs_op(done, cnt) <= cnt
         /\ reg_sect_cnt(secs_op(done, cnt)) \in 0..(SecsPerCmd - 1)
         /\ sectors(reg_sect_cnt(secs_op(done, cnt))) = secs_op(done, cnt)
         /\ size_in_sectors(secs_op(done, cnt)) = secs_op(done, cnt)
<1> DEFINE n == secs_op(done, cnt)
<1>1. n \in 1..SecsPerCmd /\ done + n <= cnt
  BY Numbers DEF secs_op
<1> HIDE DEF n
<1>2. n % SecsPerCmd = IF n = SecsPerCmd THEN 0 ELSE n
  BY <1>1, Numbers, Remainder, Zenon
<1>3. /\ reg_sect_cnt(n) \in 0..(SecsPerCmd - 1) /\ sectors(reg_sect_cnt(n)) = n
      /\ size_in_sectors(n) = n
  BY <1>1, <1>2, Numbers DEF reg_sect_cnt, sectors, size_in_sectors
<1>. QED  BY <1>1, <1>3 DEF n

(* Nothing of thread u changes; nothing of any other thread than t does. *)
Same(u) ==
  /\ pc'[u] = pc[u] /\ arg'[u] = arg[u] /\ ret'[u] = ret[u] /\ req'[u] = req[u]
  /\ secs_done'[u] = secs_done[u] /\ moved'[u] = moved[u] /\ time_limit'[u] = time_limit[u]
Alone(t) == \A u \in Thread \ {t} : Same(u)

LEMMA SameFacts ==
  ASSUME NEW u \in Thread, Same(u)
  PROVE  /\ ThreadOK(u)' <=> ThreadOK(u)
         /\ Drives(u)' <=> Drives(u)
         /\ Inside(u)' <=> Inside(u)
         /\ Holds(u)' <=> Holds(u)
<1>1. Waits(u)' <=> Waits(u)
  BY DEF Same, Waits
<1>2. Drives(u)' <=> Drives(u)
  BY <1>1 DEF Same, Drives
<1>3. Locked(u)' <=> Locked(u)
  BY <1>2 DEF Same, Locked
<1>4. Acquiring(u)' <=> Acquiring(u)
  BY SMT, Z3 DEF Same, Acquiring
<1>5. ThreadOK(u)' <=> ThreadOK(u)
  BY <1>1, <1>4 DEF Same, ThreadOK, Upto, Round
<1>. QED  BY <1>2, <1>3, <1>5 DEF Same, Inside, Holds

LEMMA ThreadsStep ==
  ASSUME IdeInv, NEW t \in Thread, Alone(t), ThreadOK(t)'  PROVE ThreadsInv'
<1>1. ASSUME NEW u \in Thread, u # t  PROVE ThreadOK(u)'
  <2>1. ThreadOK(u) /\ Same(u)
    BY <1>1 DEF IdeInv, ThreadsInv, Alone
  <2>. QED  BY <2>1, SameFacts
<1>. QED  BY <1>1 DEF ThreadsInv

(* Steps outside of the lock: who is inside and who holds it stays. *)
LEMMA LockOutside ==
  ASSUME IdeInv,
         value'[channel_lock] = value[channel_lock], UNCHANGED <<holder, holder_repeat_nr>>,
         \A u \in Thread : /\ Inside(u)' <=> Inside(u)
                           /\ Holds(u)' <=> Holds(u)
                           /\ pc'[u] = pc[u] \/ pc'[u] \notin {"la_holder", "la_repeat", "sema_up"},
         \A u \in Thread : Holds(u) /\ pc'[u] # "la_repeat" => pc[u] # "la_repeat"
  PROVE  LockInv'
<1>1. LockInv
  BY DEF IdeInv
<1>. QED  BY <1>1 DEF LockInv

(* A step of the one thread that is inside, or that gets in. *)
LEMMA LockInside ==
  ASSUME IdeInv, NEW t \in Thread, Alone(t),
         \A u \in Thread \ {t} : ~Inside(u),
         holder'[channel_lock] \in {t, NULL},
         value'[channel_lock] = 1 => holder_repeat_nr'[channel_lock] = 0,
         Inside(t)' => value'[channel_lock] = 0,
         holder'[channel_lock] = t <=> Holds(t)',
         pc'[t] \in {"la_holder", "la_repeat", "sema_up"} => holder_repeat_nr'[channel_lock] = 0,
         Holds(t)' /\ pc'[t] # "la_repeat" => holder_repeat_nr'[channel_lock] = 1
  PROVE  LockInv'
<1>1. ASSUME NEW u \in Thread \ {t}
      PROVE  /\ ~Inside(u)' /\ ~Holds(u)' /\ holder'[channel_lock] # u
             /\ pc'[u] \notin {"la_holder", "la_repeat", "sema_up"}
  <2>1. Same(u) /\ ~Inside(u)
    BY <1>1 DEF Alone
  <2>2. ~Inside(u)'
    BY <1>1, <2>1, SameFacts
  <2>3. ~Holds(u)' /\ pc'[u] \notin {"la_holder", "la_repeat", "sema_up"}
    BY <2>2 DEF Inside, Holds
  <2>. QED  BY <1>1, <2>2, <2>3, Names
<1>. QED  BY <1>1 DEF LockInv

(* One thread at a time has the drive work for it: identify_disk() is alone,  *)
(* and the others have the lock.                                            *)
LEMMA OneDriver ==
  ASSUME IdeInv, NEW t \in Thread, NEW u \in Thread, Drives(t), Drives(u)  PROVE t = u
<1>1. LockInv /\ IdentifyInv
  BY DEF IdeInv
<1>2. ASSUME NEW x \in Thread, NEW y \in Thread, Drives(x), Drives(y), req[x].op = "identify"
      PROVE  x = y
  <2>1. x = main_thread /\ ~identified
    BY <1>1, <1>2 DEF IdentifyInv
  <2>2. y # main_thread => pc[y] \in {"user", "idle", "hlt"}
    BY <1>1, <2>1 DEF IdentifyInv
  <2>3. pc[y] \notin {"user", "idle", "hlt"}
    BY <1>2 DEF Drives, Waits, DriverPoint
  <2>. QED  BY <2>1, <2>2, <2>3
<1>3. CASE req[t].op # "identify" /\ req[u].op # "identify"
  BY <1>1, <1>3 DEF LockInv, Inside, Locked
<1>. QED  BY <1>2, <1>3

(* The one inside, and what its place says of the lock. *)
LEMMA InsideFacts ==
  ASSUME IdeInv, NEW t \in Thread, Inside(t)
  PROVE  /\ \A u \in Thread \ {t} : ~Inside(u) /\ ~Drives(u)
         /\ identified
         /\ holder[channel_lock] \in {t, NULL} /\ value[channel_lock] = 0
         /\ holder[channel_lock] = t <=> Holds(t)
         /\ pc[t] \in {"la_holder", "la_repeat", "sema_up"} => holder_repeat_nr[channel_lock] = 0
         /\ Holds(t) /\ pc[t] # "la_repeat" => holder_repeat_nr[channel_lock] = 1
<1>1. LockInv /\ IdentifyInv /\ Typed
  BY DEF IdeInv
<1>2. \A u \in Thread \ {t} : ~Inside(u)
  BY <1>1 DEF LockInv
<1>3. identified
  <2>1. SUFFICES ASSUME ~identified  PROVE FALSE
    OBVIOUS
  <2>2. pc[t] \notin {"user", "idle", "hlt", "main", "io_done"}
    BY DEF Inside, Locked, Drives, DriverPoint, Waits
  <2>3. t = main_thread /\ Drives(t) /\ req[t].op = "identify"
    BY <1>1, <2>1, <2>2 DEF IdentifyInv
  <2>4. pc[t] \notin {"la_holder", "la_repeat", "lock_release", "lr_repeat", "sema_up"}
    BY <2>3 DEF Drives, DriverPoint, Waits
  <2>. QED  BY <2>3, <2>4 DEF Inside, Locked
<1>4. ASSUME NEW u \in Thread \ {t}  PROVE ~Drives(u)
  <2>1. ~Inside(u)
    BY <1>2
  <2>. QED  BY <1>1, <1>3, <2>1 DEF Inside, Locked, IdentifyInv
<1>5. \A u \in Thread \ {t} : ~Holds(u)
  BY <1>2, Zenon DEF Inside, Holds
<1>6. holder[channel_lock] \in {t, NULL}
  BY <1>1, <1>5, Names DEF LockInv, Typed, TypeOK, SyncTypeOK
<1>. QED  BY <1>1, <1>2, <1>3, <1>4, <1>6 DEF LockInv

(* Steps outside of the channel. *)
LEMMA ChannelOutside ==
  ASSUME IdeInv, UNCHANGED <<drive, command, irq, clash, expecting_intr>>,
         value'[disk_done] = value[disk_done],
         \A u \in Thread : Drives(u)' <=> Drives(u),
         \A u \in Thread : Drives(u) => Same(u)
  PROVE  ChannelInv'
<1>1. ChannelInv
  BY DEF IdeInv
<1>2. Rest' <=> Rest
  BY SMT, Z3 DEF Rest
<1>3. ASSUME NEW u \in Thread, Drives(u)'  PROVE StageOK(u)'
  <2>1. StageOK(u) /\ Same(u)
    BY <1>1, <1>3, Zenon DEF ChannelInv
  <2>2. Waits(u)' <=> Waits(u)
    BY <2>1, Zenon DEF Same, Waits
  <2>3. Mine(u)' <=> Mine(u)
    BY <2>1 DEF Same, Mine, Round
  <2>4. \A d : Answer(d)' <=> Answer(d)
    BY DEF Answer
  <2>5. Answer(IF req[u].op = "write" THEN "ready" ELSE "drq")'
        <=> Answer(IF req[u].op = "write" THEN "ready" ELSE "drq")
    BY <2>1 DEF Same, Answer
  <2>. QED  BY <1>2, <2>1, <2>2, <2>3, <2>5 DEF StageOK, Same
<1>. QED  BY <1>1, <1>2, <1>3 DEF ChannelInv

(* A step of the one thread that has the drive, or of the drive itself. *)
LEMMA ChannelDriver ==
  ASSUME IdeInv, NEW t \in Thread, Alone(t), \A u \in Thread \ {t} : ~Drives(u),
         clash' = FALSE, Drives(t)' => StageOK(t)', ~Drives(t)' => Rest'
  PROVE  ChannelInv'
<1>1. \A u \in Thread \ {t} : ~Drives(u)'
  BY SameFacts DEF Alone
<1>. QED  BY <1>1 DEF ChannelInv

(* The thread at the CPU waits for nothing. *)
LEMMA CurrentRuns ==
  ASSUME IdeInv
  PROVE  /\ current \in Thread /\ status[current] = "RUNNING"
         /\ \A s \in {channel_lock, disk_done} : ~elem_find(waiters[s], current)
<1>1. current \in Thread /\ status[current] = "RUNNING"
  BY DEF IdeInv, SchedInv, ThreadTypeOK, ReadyListConsistent
<1>2. ASSUME NEW s \in {channel_lock, disk_done}  PROVE ~elem_find(waiters[s], current)
  BY <1>1, Names DEF IdeInv, TagInOneList
<1>. QED  BY <1>1, <1>2

(* The waiting lists stay, and so do the threads in them. *)
LEMMA TagKept ==
  ASSUME IdeInv, SchedInv', waiters' = waiters,
         \A u \in Thread : status[u] = "BLOCKED" /\ pc[u] = "sema_wait" =>
           status'[u] = "BLOCKED" /\ pc'[u] = pc[u] /\ arg'[u] = arg[u]
  PROVE  TagInOneList'
<1>1. \A u \in Thread : status'[u] = "BLOCKED" => ~elem_find(thread_ready_list', u)
  BY DEF SchedInv, ReadyListConsistent
<1>2. TagInOneList
  BY DEF IdeInv
<1>. QED  BY <1>1, <1>2, SMT, Z3 DEF TagInOneList

(* A step of the current thread that changes no list and no state. *)
LEMMA QuietStep ==
  ASSUME IdeInv, NEW t \in Thread, t = current, Alone(t),
         UNCHANGED <<thread_ready_list, status, current, waiters>>,
         panic' = FALSE, ThreadTypeOK'
  PROVE  SchedInv' /\ TagInOneList'
<1>1. status[t] = "RUNNING"
  BY CurrentRuns
<1>2. SchedInv'
  BY DEF IdeInv, SchedInv, ReadyListConsistent
<1>3. TagInOneList'
  BY <1>1, <1>2, TagKept, Zenon DEF Alone, Same
<1>. QED  BY <1>2, <1>3

LEMMA SleepersAreNotIdle ==
  ASSUME IdeInv, NEW u \in Thread, pc[u] \notin Free  PROVE u # idle_thread
<1>1. ThreadOK(u)
  BY DEF IdeInv, ThreadsInv
<1>. QED  BY <1>1, Names DEF ThreadOK

(* A step of t on its way to the channel, or back from it. *)
LEMMA OutsideStep ==
  ASSUME IdeInv, NEW t \in Thread, Alone(t),
         ~Drives(t), ~Drives(t)', ~Inside(t), ~Inside(t)',
         UNCHANGED <<value, holder, holder_repeat_nr, drive, command, irq, clash, expecting_intr>>
  PROVE  LockInv' /\ ChannelInv'
<1>1. ASSUME NEW u \in Thread
      PROVE  /\ Drives(u)' <=> Drives(u)
             /\ Inside(u)' <=> Inside(u)
             /\ Holds(u)' <=> Holds(u)
             /\ pc'[u] = pc[u] \/ pc'[u] \notin {"la_holder", "la_repeat", "sema_up"}
             /\ Drives(u) => Same(u)
             /\ Holds(u) => pc'[u] = pc[u]
  <2>1. CASE u = t
    BY <2>1, SMT, Z3 DEF Inside, Holds
  <2>2. CASE u # t
    <3>1. Same(u)
      BY <2>2, Zenon DEF Alone
    <3>. QED  BY <3>1, SameFacts DEF Same
  <2>. QED  BY <2>1, <2>2
<1>2. LockInv'
  BY <1>1, LockOutside, SMT, Z3
<1>3. ChannelInv'
  BY <1>1, ChannelOutside
<1>. QED  BY <1>2, <1>3, Zenon

LEMMA IdentifyStep ==
  ASSUME IdeInv, NEW t \in Thread, Alone(t), identified' = identified,
         Drives(t)' /\ req'[t].op = "identify" => t = main_thread /\ ~identified,
         ~identified /\ t # main_thread => pc'[t] \in {"user", "idle", "hlt"},
         ~identified /\ t = main_thread =>
           pc'[t] \in {"main", "io_done"} \/ (Drives(t)' /\ req'[t].op = "identify")
  PROVE  IdentifyInv'
<1>1. ASSUME NEW u \in Thread, u # t
      PROVE  (Drives(u)' <=> Drives(u)) /\ req'[u] = req[u] /\ pc'[u] = pc[u]
  <2>1. Same(u)
    BY <1>1 DEF Alone
  <2>. QED  BY <2>1, SameFacts DEF Same
<1>2. IdentifyInv
  BY SMT, Z3 DEF IdeInv
<1>3. \A u \in Thread : Drives(u)' /\ req'[u].op = "identify" => u = main_thread /\ ~identified'
  BY <1>1, <1>2 DEF IdentifyInv
<1>4. ASSUME ~identified'
      PROVE  \A u \in Thread \ {main_thread} : pc'[u] \in {"user", "idle", "hlt"}
  BY <1>1, <1>2, <1>4 DEF IdentifyInv
<1>5. ASSUME ~identified'
      PROVE  \/ pc'[main_thread] \in {"main", "io_done"}
             \/ Drives(main_thread)' /\ req'[main_thread].op = "identify"
  <2>1. CASE t = main_thread
    BY <1>5, <2>1
  <2>2. CASE t # main_thread
    BY <1>1, <1>2, <1>5, <2>2, Names DEF IdentifyInv
  <2>. QED  BY <2>1, <2>2
<1>. QED  BY <1>3, <1>4, <1>5, Zenon DEF IdentifyInv

(* A step of the thread that has the drive, after which it still has it. *)
LEMMA DriverStep ==
  ASSUME IdeInv, NEW t \in Thread, Alone(t), Drives(t), Drives(t)', req'[t] = req[t],
         value'[channel_lock] = value[channel_lock], UNCHANGED <<holder, holder_repeat_nr, identified>>,
         clash' = FALSE, StageOK(t)'
  PROVE  LockInv' /\ ChannelInv' /\ IdentifyInv'
<1>1. \A u \in Thread \ {t} : ~Drives(u)
  BY OneDriver
<1>2. ChannelInv'
  BY <1>1, ChannelDriver, Zenon
<1>3. pc[t] \notin {"la_holder", "la_repeat", "lock_release", "lr_repeat", "sema_up"}
      /\ pc'[t] \notin {"la_holder", "la_repeat", "lock_release", "lr_repeat", "sema_up"}
  BY DEF Drives, DriverPoint, Waits
<1>4. Locked(t)' <=> Locked(t)
  BY SMT, Z3 DEF Locked
<1>5. LockInv'
  <2>1. ASSUME NEW u \in Thread
        PROVE  /\ Inside(u)' <=> Inside(u)
               /\ Holds(u)' <=> Holds(u)
               /\ pc'[u] = pc[u] \/ pc'[u] \notin {"la_holder", "la_repeat", "sema_up"}
               /\ Holds(u) /\ pc'[u] # "la_repeat" => pc[u] # "la_repeat"
    <3>1. CASE u = t
      BY <1>3, <1>4, <3>1 DEF Inside, Holds
    <3>2. CASE u # t
      <4>1. Same(u)
        BY <3>2, Zenon DEF Alone
      <4>. QED  BY <4>1, SameFacts, Zenon DEF Same
    <3>. QED  BY <3>1, <3>2, SMT, Z3
  <2>. QED  BY <2>1, LockOutside, SMT, Z3
<1>6. IdentifyInv'
  <2>1. IdentifyInv
    BY Zenon DEF IdeInv
  <2>2. pc[t] \notin {"main", "io_done", "user", "idle", "hlt"}
    BY DEF Drives, DriverPoint, Waits
  <2>. QED  BY <2>1, <2>2, IdentifyStep DEF IdentifyInv
<1>. QED  BY <1>2, <1>5, <1>6

-----------------------------------------------------------------------------
(* A system call, or main, comes with a request. *)
LEMMA EnterStep ==
  ASSUME IdeInv, NEW t \in Proc \cup {main_thread}, NEW r \in Request, Valid(r),
         t = current, pc[t] \in {"user", "main"}, enter(t, r),
         IF identified THEN r.op # "identify"
                       ELSE r.op = "identify" /\ r.lba = 0 /\ r.sec_cnt = 1 /\ t = main_thread,
         intr' \in BOOLEAN,
         UNCHANGED <<thread_ready_list, status, current, ticks, saved_if, panic, syncVars,
                     old_status, expecting_intr, driveVars, secs_done, moved, time_limit, ticked,
                     identified>>
  PROVE  IdeInv'
<1>0. t \in Thread
  BY Names
<1>1. Typed /\ SchedInv /\ ThreadOK(t) /\ IdentifyInv
  BY <1>0 DEF IdeInv, ThreadsInv
<1>2. UNCHANGED <<value, waiters, holder, holder_repeat_nr, regs, drive, command, irq, clash>>
  BY DEF syncVars, driveVars
<1>3. ThreadTypeOK' /\ panic' = FALSE
  BY <1>1 DEF SchedInv, ThreadTypeOK
<1>4. ~Drives(t) /\ ~Inside(t)
  BY Zenon DEF Inside, Locked, Drives, DriverPoint, Waits
<1>5. CASE r.op = "identify"
  <2>1. pc' = [pc EXCEPT ![t] = "io_cmd"] /\ req' = [req EXCEPT ![t] = r] /\ UNCHANGED <<arg, ret>>
    BY <1>5 DEF enter, goto
  <2>2. t = main_thread /\ ~identified /\ r.lba = 0 /\ r.sec_cnt = 1
    BY <1>5, Zenon
  <2>3. Typed'
    BY <1>0, <1>1, <1>2, <1>3, <2>1, SMT, Z3 DEF Typed, TypeOK, SyncTypeOK
  <2>4. Alone(t) /\ pc'[t] = "io_cmd" /\ req'[t] = r
    BY <1>0, <1>1, <2>1 DEF Alone, Same, Typed, TypeOK
  <2>5. ThreadOK(t)'
    <3>1. secs_done[t] = 0 /\ moved[t] = {}
      BY <1>1, Zenon DEF ThreadOK, Free
    <3>2. moved'[t] = {} /\ secs_done'[t] = 0 /\ req'[t].lba = 0
      BY <2>2, <2>4, <3>1, Zenon
    <3>3. Upto(t, secs_done[t])' = {} /\ r.sec_cnt > 0
      BY <2>2, <3>2, Small, Zenon DEF Upto
    <3>. QED  BY <2>4, <3>2, <3>3, Zenon DEF ThreadOK, Acquiring, Waits, Releasing, Free, SyncPoint, DriverPoint, Valid
  <2>6. Drives(t)' /\ ~Inside(t)'
    BY <1>5, <2>4, Zenon DEF Drives, DriverPoint, Inside, Locked
  <2>7. IdentifyInv'
    BY <1>0, <1>5, <2>2, <2>4, <2>6, IdentifyStep, Zenon
  <2>8. \A u \in Thread \ {t} : ~Drives(u) /\ ~Inside(u)
    BY <1>1, <2>2, Zenon DEF IdentifyInv, Inside, Locked, Drives, DriverPoint, Waits
  <2>9. LockInv'
    <3>1. ASSUME NEW u \in Thread
          PROVE  /\ Inside(u)' <=> Inside(u)
                 /\ Holds(u)' <=> Holds(u)
                 /\ pc'[u] = pc[u] \/ pc'[u] \notin {"la_holder", "la_repeat", "sema_up"}
                 /\ Holds(u) /\ pc'[u] # "la_repeat" => pc[u] # "la_repeat"
      <4>1. CASE u = t
        BY <1>4, <2>4, <2>6, <4>1, Zenon DEF Inside, Holds
      <4>2. CASE u # t
        <5>1. Same(u)
          BY <2>4, <4>2, Zenon DEF Alone
        <5>. QED  BY <5>1, SameFacts, Zenon DEF Same
      <4>. QED  BY <4>1, <4>2, Zenon
    <3>. QED  BY <1>2, <3>1, LockOutside, Zenon
  <2>10. ChannelInv'
    <3>1. ChannelInv /\ Rest
      BY <1>4, <2>8, Zenon DEF IdeInv, ChannelInv
    <3>2. StageOK(t)'
      BY <1>2, <2>4, <3>1, Zenon DEF StageOK, Rest, Waits
    <3>3. clash' = FALSE
      BY <1>1, <1>2, <3>1 DEF ChannelInv, Typed, TypeOK
    <3>. QED  BY <1>0, <2>4, <2>6, <2>8, <3>2, <3>3, ChannelDriver, Zenon
  <2>. QED  BY <1>0, <1>2, <1>3, <2>3, <2>4, <2>5, <2>7, <2>9, <2>10, QuietStep, ThreadsStep, Zenon DEF IdeInv
<1>6. CASE r.op # "identify"
  <2>1. /\ pc' = [pc EXCEPT ![t] = "lock_acquire"] /\ req' = [req EXCEPT ![t] = r]
        /\ arg' = [arg EXCEPT ![t] = channel_lock] /\ ret' = [ret EXCEPT ![t] = "io_cmd"]
    BY <1>6, Zenon DEF enter, goto, call
  <2>2. Typed'
    BY <1>0, <1>1, <1>2, <1>3, <2>1, Zenon DEF Typed, TypeOK, SyncTypeOK, SyncPoint
  <2>3. /\ Alone(t) /\ pc'[t] = "lock_acquire" /\ req'[t] = r /\ arg'[t] = channel_lock
        /\ ret'[t] = "io_cmd"
    BY <1>0, <1>1, <2>1 DEF Alone, Same, Typed, TypeOK
  <2>4. ThreadOK(t)'
    <3>1. secs_done[t] = 0 /\ moved[t] = {}
      BY <1>1, Zenon DEF ThreadOK, Free
    <3>. QED
      BY <1>6, <2>3, <3>1, Zenon DEF ThreadOK, Acquiring, Waits, Releasing, Free, SyncPoint, DriverPoint, Valid
  <2>5. ~Drives(t)' /\ ~Inside(t)'
    BY <2>3, Zenon DEF Inside, Locked, Drives, DriverPoint, Waits
  <2>6. IdentifyInv'
    BY <1>0, <1>6, <2>3, <2>5, IdentifyStep, Zenon
  <2>7. LockInv' /\ ChannelInv'
    BY <1>0, <1>2, <1>4, <2>3, <2>5, OutsideStep, Zenon
  <2>. QED  BY <1>0, <1>2, <1>3, <2>2, <2>3, <2>4, <2>6, <2>7, QuietStep, ThreadsStep, Zenon DEF IdeInv
<1>. QED  BY <1>5, <1>6

(* What a request is, and what its round moves. *)
LEMMA RequestFacts ==
  ASSUME IdeInv, NEW t \in Thread, pc[t] \notin Free
  PROVE  /\ req[t].op \in Op /\ req[t].lba \in Nat /\ req[t].sec_cnt \in Nat /\ secs_done[t] \in Nat
         /\ req[t].sec_cnt >= 1 /\ req[t].sec_cnt <= MaxSecs
         /\ req[t].lba + req[t].sec_cnt <= max_lba + 1
         /\ secs_done[t] < req[t].sec_cnt =>
              /\ Round(t) \in 1..SecsPerCmd /\ secs_done[t] + Round(t) <= req[t].sec_cnt
              /\ reg_sect_cnt(Round(t)) \in 0..(SecsPerCmd - 1)
              /\ sectors(reg_sect_cnt(Round(t))) = Round(t)
              /\ size_in_sectors(Round(t)) = Round(t)
<1>1. req[t] \in Request /\ Valid(req[t]) /\ secs_done[t] \in 0..MaxSecs
  BY DEF IdeInv, ThreadsInv, ThreadOK, Typed, TypeOK
<1>2. req[t].op \in Op /\ req[t].lba \in 0..max_lba /\ req[t].sec_cnt \in 1..MaxSecs
  BY <1>1, Zenon DEF Request
<1>3. /\ req[t].lba \in Nat /\ req[t].sec_cnt \in Nat /\ secs_done[t] \in Nat
      /\ req[t].sec_cnt >= 1 /\ req[t].sec_cnt <= MaxSecs
  BY <1>1, <1>2, Numbers, SMT, Z3
<1>4. req[t].lba + req[t].sec_cnt <= max_lba + 1
  BY <1>1, <1>3, Numbers DEF Valid
<1>. QED  BY <1>2, <1>3, <1>4, RoundFacts, Zenon DEF Round

(* select_sector() and cmd_out(): the drive is at rest, and now works for t. *)
LEMMA CmdStep ==
  ASSUME IdeInv, NEW t \in Thread, io_cmd(t)  PROVE IdeInv'
<1> DEFINE r == req[t]
           lba == r.lba + secs_done[t]
           cnt == reg_sect_cnt(Round(t))
<1>1. /\ t = current /\ pc[t] = "io_cmd"
      /\ assert(r.lba + secs_done[t] <= max_lba) /\ cmd_out(t)
      /\ time_limit' = [time_limit EXCEPT ![t] = time_limit_ms]
      /\ UNCHANGED <<value, waiters, holder, holder_repeat_nr, old_status, req, secs_done, moved,
                     ticked, identified>>
  BY Zenon DEF io_cmd, At, syncVars
<1>2. Typed /\ SchedInv /\ ThreadOK(t) /\ ChannelInv
  BY DEF IdeInv, ThreadsInv
<1>3. /\ r.op \in Op /\ r.lba \in Nat /\ r.sec_cnt \in Nat /\ secs_done[t] \in Nat
      /\ r.lba + r.sec_cnt <= max_lba + 1 /\ secs_done[t] < r.sec_cnt
      /\ Round(t) \in 1..SecsPerCmd
      /\ cnt \in 0..(SecsPerCmd - 1) /\ sectors(cnt) = Round(t)
      /\ r \in Request /\ t \in Proc \cup {main_thread}
  <2>1. secs_done[t] < r.sec_cnt /\ r \in Request /\ t \in Proc \cup {main_thread}
    BY <1>1, <1>2, Zenon DEF ThreadOK, DriverPoint, Free
  <2>. QED  BY <1>1, <2>1, RequestFacts, Zenon DEF Free
<1>4. lba \in 0..max_lba
  BY <1>3, Numbers, SMT, Z3
<1>5. Drives(t) /\ drive = "ready" /\ value[disk_done] = 0 /\ clash = FALSE
  <2>1. Drives(t)
    BY <1>1, Zenon DEF Drives, DriverPoint
  <2>2. Rest
    BY <1>1, <1>2, <2>1, Zenon DEF ChannelInv, StageOK
  <2>. QED  BY <1>2, <2>1, <2>2 DEF Rest, ChannelInv, Typed, TypeOK
<1>6. panic' = FALSE /\ UNCHANGED <<thread_ready_list, status, current, ticks, intr, saved_if>>
  <2>1. (req[t].lba + secs_done[t] <= max_lba) = TRUE
    BY <1>3, <1>4, Numbers
  <2>2. panic' = ~(req[t].lba + secs_done[t] <= max_lba)
        /\ UNCHANGED <<thread_ready_list, status, current, ticks, intr, saved_if>>
    BY <1>1, Zenon DEF assert
  <2>. QED  BY <2>1, <2>2, Zenon
<1>7. /\ regs' = (IF r.op = "identify" THEN regs ELSE [lba |-> lba, sec_cnt |-> cnt])
      /\ expecting_intr' = TRUE /\ drive' = "busy" /\ irq' = FALSE
      /\ clash' = (clash \/ drive = "busy")
      /\ command' = [by |-> t, op |-> r.op, lba |-> regs'.lba,
                     sec_cnt |-> IF r.op = "identify" THEN 1 ELSE sectors(regs'.sec_cnt),
                     sent |-> r.op # "write"]
  BY <1>1, Zenon DEF cmd_out, Round
<1>8. clash' = FALSE
  BY <1>5, <1>7, Zenon
<1> HIDE DEF r, lba, cnt
<1>9. regs' \in [lba : 0..max_lba, sec_cnt : 0..(SecsPerCmd - 1)]
  BY <1>2, <1>3, <1>4, <1>7 DEF Typed, TypeOK
<1>10. /\ command'.by = t /\ command'.op = r.op /\ command'.sent = (r.op # "write")
       /\ r.op # "identify" => command'.lba = lba /\ command'.sec_cnt = Round(t)
       /\ command' \in [by : Thread \cup {NULL}, op : Op \cup {"none"}, lba : 0..max_lba,
                        sec_cnt : 1..SecsPerCmd, sent : BOOLEAN]
  <2>1. regs'.lba \in 0..max_lba
    BY <1>9, Zenon
  <2>2. CASE r.op = "identify"
    BY <1>3, <1>7, <2>1, <2>2, Numbers, SMT, Z3
  <2>3. CASE r.op # "identify"
    <3>1. regs'.lba = lba /\ regs'.sec_cnt = cnt
      BY <1>7, <2>3, SMT, Z3
    <3>. QED  BY <1>3, <1>7, <2>1, <2>3, <3>1, SMT, Z3
  <2>. QED  BY <2>2, <2>3
<1>11. time_limit' \in [Thread -> 0..time_limit_ms] /\ time_limit'[t] > 0
  BY <1>1, <1>2, Numbers DEF Typed, TypeOK
<1>12. Round(t)' = Round(t)
  BY <1>1, Zenon DEF Round
<1>13. Mine(t)'
  BY <1>1, <1>10, <1>12, Zenon DEF Mine, r, lba
<1>14. ThreadTypeOK'
  BY <1>2, <1>6, Zenon DEF SchedInv, ThreadTypeOK
<1>15. moved'[t] = Upto(t, secs_done[t])'
  BY <1>1, <1>2, Zenon DEF ThreadOK, Upto
<1>16. CASE r.op = "write"
  <2>1. pc' = [pc EXCEPT ![t] = "busy_wait"] /\ UNCHANGED <<arg, ret>>
    BY <1>16, Zenon DEF io_cmd, goto, r
  <2>2. Alone(t) /\ pc'[t] = "busy_wait"
    BY <1>1, <1>2, <2>1 DEF Alone, Same, Typed, TypeOK
  <2>3. Typed'
    BY <1>1, <1>2, <1>7, <1>8, <1>9, <1>10, <1>11, <1>14, <2>1, Zenon DEF Typed, TypeOK, SyncTypeOK
  <2>4. ThreadOK(t)'
    BY <1>1, <1>2, <1>3, <1>11, <1>15, <2>2, Zenon
    DEF ThreadOK, Acquiring, Waits, Releasing, Free, SyncPoint, DriverPoint, Valid, r
  <2>5. Drives(t)' /\ StageOK(t)'
    BY <1>1, <1>5, <1>7, <1>10, <1>13, <1>16, <2>2, Zenon DEF Drives, DriverPoint, StageOK, Waits, r
  <2>6. LockInv' /\ ChannelInv' /\ IdentifyInv'
    BY <1>1, <1>5, <1>8, <2>2, <2>5, DriverStep, Zenon
  <2>. QED  BY <1>1, <1>6, <1>14, <2>2, <2>3, <2>4, <2>6, QuietStep, ThreadsStep, Zenon DEF IdeInv
<1>17. CASE r.op # "write"
  <2>1. /\ pc' = [pc EXCEPT ![t] = "sema_down"]
        /\ arg' = [arg EXCEPT ![t] = disk_done] /\ ret' = [ret EXCEPT ![t] = "busy_wait"]
    BY <1>17, Zenon DEF io_cmd, call, goto, r
  <2>2. Alone(t) /\ pc'[t] = "sema_down" /\ arg'[t] = disk_done /\ ret'[t] = "busy_wait"
    BY <1>1, <1>2, <2>1 DEF Alone, Same, Typed, TypeOK
  <2>3. Typed'
    BY <1>1, <1>2, <1>7, <1>8, <1>9, <1>10, <1>11, <1>14, <2>1, Zenon DEF Typed, TypeOK, SyncTypeOK, SyncPoint
  <2>4. ThreadOK(t)'
    BY <1>1, <1>2, <1>3, <1>11, <1>15, <1>17, <2>2, Names, Zenon
    DEF ThreadOK, Acquiring, Waits, Releasing, Free, SyncPoint, DriverPoint, Valid, r
  <2>5. Waits(t)' /\ Drives(t)'
    BY <2>2 DEF Drives, Waits
  <2>6. StageOK(t)'
    <3>1. Answer("drq")'
      BY <1>1, <1>5, <1>7, Zenon DEF Answer
    <3>. QED  BY <1>1, <1>10, <1>13, <1>17, <2>2, <3>1, Zenon DEF StageOK, r
  <2>7. LockInv' /\ ChannelInv' /\ IdentifyInv'
    BY <1>1, <1>5, <1>8, <2>2, <2>5, <2>6, DriverStep, Zenon
  <2>. QED  BY <1>1, <1>6, <1>14, <2>2, <2>3, <2>4, <2>7, QuietStep, ThreadsStep, Zenon DEF IdeInv
<1>. QED  BY <1>16, <1>17, Zenon

(* The properties of the run, as the invariant gives them. *)
LEMMA ShownNow ==
  ASSUME IdeInv  PROVE ChannelExclusive /\ TransferIsMine /\ RequestComplete /\ PanicOnlyOnTimeout
<1>1. ChannelInv /\ ThreadsInv /\ panic = FALSE
  BY DEF IdeInv, SchedInv
<1>2. ChannelExclusive
  <2>1. \A t \in Driving : t \in Thread /\ Drives(t)
    BY DEF Driving, Drives, DriverPoint, Waits
  <2>2. \A t, u \in Driving : t = u
    BY <2>1, OneDriver
  <2>. QED  BY <1>1, <2>2 DEF ChannelExclusive, ChannelInv
<1>3. TransferIsMine
  <2>1. ASSUME NEW t \in Thread, pc[t] = "transfer"
        PROVE  /\ drive = "drq" /\ command.by = t /\ command.op = req[t].op
               /\ req[t].op # "identify" =>
                    command.lba..(command.lba + command.sec_cnt - 1) = round_sectors(t)
    <3>1. Drives(t) /\ pc[t] \notin Free
      BY <2>1 DEF Drives, DriverPoint, Free
    <3>2. StageOK(t) /\ ThreadOK(t)
      BY <1>1, <3>1, Zenon DEF ChannelInv, ThreadsInv
    <3>3. Mine(t) /\ drive = "drq"
      BY <2>1, <3>2, Zenon DEF StageOK
    <3>4. secs_done[t] < req[t].sec_cnt
      BY <2>1, <3>2 DEF ThreadOK, DriverPoint
    <3>5. size_in_sectors(Round(t)) = Round(t)
      BY <3>1, <3>4, RequestFacts, Zenon
    <3>. QED  BY <3>3, <3>5 DEF Mine, round_sectors, Round
  <2>2. ASSUME NEW t \in Thread, pc[t] = "io_next"  PROVE drive = "ready" /\ command.by = t
    <3>1. Drives(t)
      BY <2>2 DEF Drives, DriverPoint
    <3>. QED  BY <1>1, <2>2, <3>1, Zenon DEF ChannelInv, StageOK, Rest
  <2>. QED  BY <2>1, <2>2, Zenon DEF TransferIsMine
<1>4. RequestComplete
  BY <1>1, Zenon DEF RequestComplete, ThreadsInv, ThreadOK, Upto
<1>. QED  BY <1>1, <1>2, <1>3, <1>4 DEF PanicOnlyOnTimeout

(* busy_wait(): the drive answers, is given another tick, or is given up. *)
LEMMA BusyWaitStep ==
  ASSUME IdeInv, NEW t \in Thread, busy_wait(t)  PROVE DriverInv'
<1>1. /\ t = current /\ pc[t] = "busy_wait"
      /\ time_limit' = [time_limit EXCEPT ![t] = @ - 1]
      /\ UNCHANGED <<value, waiters, holder, holder_repeat_nr, arg, ret, old_status, expecting_intr, regs,
                     drive, command, clash, req, secs_done, moved, identified>>
  BY Zenon DEF busy_wait, At, syncVars
<1>2. Typed /\ SchedInv /\ ThreadOK(t) /\ ChannelInv
  BY DEF IdeInv, ThreadsInv
<1>3. Drives(t) /\ StageOK(t) /\ clash' = FALSE
  <2>1. Drives(t)
    BY <1>1 DEF Drives, DriverPoint
  <2>. QED  BY <1>1, <1>2, <2>1 DEF ChannelInv, Typed, TypeOK
<1>4. time_limit[t] \in 1..time_limit_ms /\ time_limit'[t] = time_limit[t] - 1
      /\ time_limit' \in [Thread -> 0..time_limit_ms]
  <2>1. time_limit \in [Thread -> 0..time_limit_ms] /\ time_limit[t] > 0
    BY <1>1, <1>2 DEF Typed, TypeOK, ThreadOK
  <2>2. time_limit[t] \in 1..time_limit_ms
    BY <2>1, Numbers
  <2>3. time_limit[t] - 1 \in 0..time_limit_ms
    BY <2>2, Numbers
  <2>. QED  BY <1>1, <2>1, <2>2, <2>3, Zenon
<1>5. CASE time_limit'[t] = 0
  <2>1. panic' = TRUE /\ UNCHANGED <<pc, irq>>
    <3>1. ~(time_limit'[t] > 0)
      BY <1>5
    <3>2. assert(FALSE) /\ UNCHANGED <<pc, irq>>
      BY <3>1, Zenon DEF busy_wait
    <3>. QED  BY <3>2, Zenon DEF assert
  <2>2. PanicOnlyOnTimeout'
    BY <1>1, <1>5, <2>1 DEF PanicOnlyOnTimeout
  <2>3. ChannelExclusive' /\ TransferIsMine' /\ RequestComplete'
    <3>1. Driving' = Driving
      BY <1>1, <2>1 DEF Driving
    <3>2. ChannelExclusive'
      BY <1>1, <3>1, ShownNow, Zenon DEF ChannelExclusive
    <3>3. TransferIsMine'
      BY <1>1, <2>1, ShownNow DEF TransferIsMine, round_sectors
    <3>4. RequestComplete'
      BY <1>1, <2>1, ShownNow, Zenon DEF RequestComplete
    <3>. QED  BY <3>2, <3>3, <3>4, SMT, Z3
  <2>. QED  BY <2>1, <2>2, <2>3 DEF DriverInv, Shown
<1>6. CASE time_limit'[t] # 0
  <2>1. PICK p \in {"transfer", "ticks_to_sleep"} :
          /\ pc' = [pc EXCEPT ![t] = p] /\ irq' = FALSE
          /\ p = "transfer" => drive # "busy" /\ assert(drive = "drq") /\ UNCHANGED ticked
          /\ p = "ticks_to_sleep" => drive = "busy" /\ assert(TRUE) /\ ticked' = [ticked EXCEPT ![t] = FALSE]
    BY <1>6, Zenon DEF busy_wait, goto
  <2>2. p = "transfer" => drive = "drq"
    BY <1>1, <1>3, <2>1, Zenon DEF StageOK
  <2>3. panic' = FALSE /\ UNCHANGED <<thread_ready_list, status, current, ticks, intr, saved_if>>
    BY <2>1, <2>2, Zenon DEF assert
  <2>4. Alone(t) /\ pc'[t] = p /\ ThreadTypeOK'
    BY <1>1, <1>2, <2>1, <2>3, ZenonT(30) DEF Alone, Same, Typed, TypeOK, SchedInv, ThreadTypeOK
  <2>5. Typed'
    <3>1. ticked' \in [Thread -> BOOLEAN]
      BY <1>2, <2>1, Zenon DEF Typed, TypeOK
    <3>2. pc' \in [Thread -> SyncPoint \cup {"user", "main", "spin", "blocked", "idle", "hlt", "io_cmd",
                                       "busy_wait", "ticks_to_sleep", "transfer",
                                       "io_next", "io_unlock", "io_done"}]
      BY <1>2, <2>1 DEF Typed, TypeOK
    <3>. QED  BY <1>1, <1>2, <1>4, <2>1, <2>4, <3>1, <3>2, Zenon DEF Typed, TypeOK, SyncTypeOK
  <2>6. ThreadOK(t)'
    <3>1. moved[t] = Upto(t, secs_done[t]) /\ secs_done[t] < req[t].sec_cnt
      BY <1>1, <1>2, Zenon DEF ThreadOK, DriverPoint
    <3>2. moved'[t] = Upto(t, secs_done[t])' /\ secs_done'[t] < req'[t].sec_cnt
      BY <1>1, <3>1, Zenon DEF Upto
    <3>3. time_limit'[t] > 0
      BY <1>4, <1>6, Ranges, Small, Zenon
    <3>. QED
      BY <1>1, <1>2, <2>4, <3>2, <3>3, Zenon
      DEF ThreadOK, Acquiring, Waits, Releasing, Free, SyncPoint, DriverPoint
  <2>7. Drives(t)' /\ StageOK(t)'
    <3>1. Mine(t)'
      BY <1>1, <1>3, Zenon DEF StageOK, Mine, Round
    <3>. QED  BY <1>1, <1>3, <2>1, <2>2, <2>4, <3>1, Zenon DEF Drives, DriverPoint, StageOK, Waits
  <2>8. LockInv' /\ ChannelInv' /\ IdentifyInv'
    BY <1>1, <1>3, <2>4, <2>7, DriverStep, Zenon
  <2>. QED  BY <1>1, <2>3, <2>4, <2>5, <2>6, <2>8, QuietStep, ThreadsStep, Zenon DEF IdeInv, DriverInv
<1>. QED  BY <1>5, <1>6

(* The scheduler moves threads on and off the CPU, and idle() in and out of  *)
(* hlt: nothing of the driver changes.                                      *)
Idles(u) ==
  /\ pc[u] \in {"idle", "hlt"} /\ pc'[u] \in {"idle", "hlt"}
  /\ arg'[u] = arg[u] /\ ret'[u] = ret[u] /\ req'[u] = req[u]
  /\ secs_done'[u] = secs_done[u] /\ moved'[u] = moved[u] /\ time_limit'[u] = time_limit[u]

LEMMA ElsewhereFacts ==
  ASSUME IdeInv, value'[channel_lock] = value[channel_lock],
         UNCHANGED <<holder, holder_repeat_nr, identified>>,
         \A u \in Thread : Same(u) \/ Idles(u)
  PROVE  /\ ThreadsInv' /\ LockInv' /\ IdentifyInv'
         /\ \A u \in Thread : /\ (Drives(u)' <=> Drives(u)) /\ (Drives(u) => Same(u))
                              /\ pc[u] = "sema_wait" => pc'[u] = pc[u] /\ arg'[u] = arg[u]
<1>1. ASSUME NEW u \in Thread
      PROVE  /\ ThreadOK(u)' /\ (Drives(u)' <=> Drives(u)) /\ (Inside(u)' <=> Inside(u))
             /\ (Holds(u)' <=> Holds(u)) /\ (Drives(u) => Same(u))
             /\ pc'[u] = pc[u] \/ (pc[u] \in {"idle", "hlt"} /\ pc'[u] \in {"idle", "hlt"})
             /\ req'[u] = req[u] /\ arg'[u] = arg[u]
  <2>1. ThreadOK(u)
    BY Zenon DEF IdeInv, ThreadsInv
  <2>2. CASE Same(u)
    BY <2>1, <2>2, SameFacts, Zenon DEF Same
  <2>3. CASE Idles(u)
    <3>1. /\ ~Drives(u) /\ ~Drives(u)' /\ ~Inside(u) /\ ~Inside(u)' /\ ~Holds(u) /\ ~Holds(u)'
      BY <2>3, Zenon DEF Idles, Inside, Holds, Locked, Drives, DriverPoint, Waits
    <3>2. ThreadOK(u)'
      BY <2>1, <2>3, Zenon DEF Idles, ThreadOK, Acquiring, Waits, Releasing, Free, SyncPoint, DriverPoint
    <3>. QED  BY <2>3, <3>1, <3>2, Zenon DEF Idles
  <2>. QED  BY <2>2, <2>3, Zenon
<1>2. ThreadsInv'
  BY <1>1, Zenon DEF ThreadsInv
<1>3. LockInv'
  BY <1>1, LockOutside, Zenon
<1>4. IdentifyInv'
  <2>1. IdentifyInv
    BY Zenon DEF IdeInv
  <2>2. \A u \in Thread : Drives(u)' /\ req'[u].op = "identify" => u = main_thread /\ ~identified'
    BY <1>1, <2>1, Zenon DEF IdentifyInv
  <2>3. ~identified' => \A u \in Thread \ {main_thread} : pc'[u] \in {"user", "idle", "hlt"}
    BY <1>1, <2>1, Zenon DEF IdentifyInv
  <2>4. ~identified' => \/ pc'[main_thread] \in {"main", "io_done"}
                        \/ Drives(main_thread)' /\ req'[main_thread].op = "identify"
    BY <1>1, <2>1, Names, Zenon DEF IdentifyInv, Drives, DriverPoint, Waits
  <2>. QED  BY <2>2, <2>3, <2>4, Zenon DEF IdentifyInv
<1>. QED  BY <1>1, <1>2, <1>3, <1>4, Zenon

LEMMA ElsewhereStep ==
  ASSUME IdeInv, SchedInv', Typed',
         UNCHANGED <<value, waiters, holder, holder_repeat_nr, drive, command, irq, clash,
                     expecting_intr, identified>>,
         \A u \in Thread : Same(u) \/ Idles(u),
         \A u \in Thread \ {idle_thread} : status[u] = "BLOCKED" => status'[u] = "BLOCKED"
  PROVE  IdeInv'
<1>1. /\ ThreadsInv' /\ LockInv' /\ IdentifyInv'
      /\ \A u \in Thread : /\ (Drives(u)' <=> Drives(u)) /\ (Drives(u) => Same(u))
                           /\ pc[u] = "sema_wait" => pc'[u] = pc[u] /\ arg'[u] = arg[u]
  BY ElsewhereFacts, Zenon
<1>2. ChannelInv'
  BY <1>1, ChannelOutside, Zenon
<1>3. TagInOneList'
  <2>1. ASSUME NEW u \in Thread, status[u] = "BLOCKED", pc[u] = "sema_wait"
        PROVE  status'[u] = "BLOCKED" /\ pc'[u] = pc[u] /\ arg'[u] = arg[u]
    <3>1. u # idle_thread
      BY <2>1, SleepersAreNotIdle DEF Free
    <3>. QED  BY <1>1, <2>1, <3>1, Zenon
  <2>. QED  BY <2>1, TagKept, Zenon
<1>. QED  BY <1>1, <1>2, <1>3, Zenon DEF IdeInv

(* ticks_to_sleep(): yield until the clock has ticked. *)
LEMMA TicksStep ==
  ASSUME IdeInv, NEW t \in Thread, ticks_to_sleep(t)  PROVE IdeInv'
<1>1. /\ t = current /\ pc[t] = "ticks_to_sleep"
      /\ UNCHANGED <<value, waiters, holder, holder_repeat_nr, arg, ret, old_status, expecting_intr, regs,
                     drive, command, irq, clash, req, secs_done, moved, time_limit, ticked, identified>>
  BY Zenon DEF ticks_to_sleep, At, syncVars, driveVars, ioVars
<1>2. Typed /\ SchedInv /\ ThreadOK(t) /\ ChannelInv
  BY DEF IdeInv, ThreadsInv
<1>3. CASE thread_yield /\ UNCHANGED pc
  <2>1. SchedInv' /\ BlockedAre({u \in Thread : status[u] = "BLOCKED"})
    BY <1>2, <1>3, YieldFacts
  <2>2. Typed'
    BY <1>1, <1>2, <1>3, <2>1, Zenon DEF Typed, TypeOK, SyncTypeOK, SchedInv
  <2>3. \A u \in Thread : Same(u)
    BY <1>1, <1>3, Zenon DEF Same
  <2>4. \A u \in Thread \ {idle_thread} : status[u] = "BLOCKED" => status'[u] = "BLOCKED"
    BY <2>1 DEF BlockedAre
  <2>. QED  BY <1>1, <2>1, <2>2, <2>3, <2>4, ElsewhereStep, Zenon
<1>4. CASE goto(t, "busy_wait") /\ UNCHANGED threadVars
  <2>1. pc' = [pc EXCEPT ![t] = "busy_wait"]
        /\ UNCHANGED <<thread_ready_list, status, current, ticks, intr, saved_if, panic>>
    BY <1>4 DEF goto, threadVars
  <2>2. Alone(t) /\ pc'[t] = "busy_wait" /\ ThreadTypeOK' /\ panic' = FALSE
    BY <1>1, <1>2, <2>1, Zenon DEF Alone, Same, Typed, TypeOK, SchedInv, ThreadTypeOK
  <2>3. Typed'
    BY <1>1, <1>2, <2>1, <2>2, SMT, Z3 DEF Typed, TypeOK, SyncTypeOK
  <2>4. ThreadOK(t)'
    <3>1. moved'[t] = Upto(t, secs_done[t])' /\ secs_done'[t] < req'[t].sec_cnt /\ time_limit'[t] > 0
      BY <1>1, <1>2, Zenon DEF ThreadOK, Upto, DriverPoint
    <3>. QED
      BY <1>1, <1>2, <2>2, <3>1, Zenon DEF ThreadOK, Acquiring, Waits, Releasing, Free, SyncPoint, DriverPoint
  <2>5. Drives(t) /\ Drives(t)' /\ StageOK(t)' /\ clash' = FALSE
    <3>1. Drives(t) /\ Drives(t)'
      BY <1>1, <2>2, Zenon DEF Drives, DriverPoint
    <3>2. StageOK(t) /\ clash' = FALSE
      BY <1>1, <1>2, <3>1 DEF ChannelInv, Typed, TypeOK
    <3>3. Mine(t)'
      BY <1>1, <3>2, Zenon DEF StageOK, Mine, Round
    <3>. QED  BY <1>1, <2>2, <3>1, <3>2, <3>3, Zenon DEF StageOK, Waits
  <2>6. LockInv' /\ ChannelInv' /\ IdentifyInv'
    BY <1>1, <2>2, <2>5, DriverStep, Zenon
  <2>. QED  BY <1>1, <2>1, <2>2, <2>3, <2>4, <2>6, QuietStep, ThreadsStep, Zenon DEF IdeInv
<1>. QED  BY <1>3, <1>4 DEF ticks_to_sleep

Joined(a, d, n) == (a..(a + d - 1)) \cup ((a + d)..(a + d + n - 1)) = a..(a + (d + n) - 1)

LEMMA Intervals == \A a, d, n \in Nat : Joined(a, d, n)
BY DEF Joined

(* read_from_sector() or write2sector(): the sectors of the round are moved. *)
LEMMA TransferStep ==
  ASSUME IdeInv, NEW t \in Thread, transfer(t)  PROVE IdeInv'
<1>1. /\ t = current /\ pc[t] = "transfer"
      /\ moved' = [moved EXCEPT ![t] = @ \cup round_sectors(t)]
      /\ UNCHANGED <<thread_ready_list, status, current, ticks, intr, saved_if, panic, value, waiters,
                     holder, holder_repeat_nr, old_status, expecting_intr, regs, clash, req, secs_done,
                     time_limit, ticked, identified>>
  BY DEF transfer, At, syncVars, threadVars
<1>2. Typed /\ SchedInv /\ ThreadOK(t) /\ ChannelInv
  BY DEF IdeInv, ThreadsInv
<1>3. /\ req[t].op \in Op /\ req[t].lba \in Nat /\ req[t].sec_cnt \in Nat /\ secs_done[t] \in Nat
      /\ req[t].lba + req[t].sec_cnt <= max_lba + 1 /\ secs_done[t] < req[t].sec_cnt
      /\ Round(t) \in 1..SecsPerCmd /\ secs_done[t] + Round(t) <= req[t].sec_cnt
      /\ size_in_sectors(Round(t)) = Round(t) /\ moved[t] = Upto(t, secs_done[t])
  <2>1. secs_done[t] < req[t].sec_cnt /\ moved[t] = Upto(t, secs_done[t])
    BY <1>1, <1>2, Zenon DEF ThreadOK, DriverPoint
  <2>. QED  BY <1>1, <2>1, RequestFacts, Zenon DEF Free
<1>4. PICK n \in Nat : n = Round(t) /\ secs_done[t] + n <= req[t].sec_cnt
  BY <1>3, Ranges, Zenon
<1>5. moved[t] \cup round_sectors(t) = Upto(t, secs_done[t] + n)
  <2>1. round_sectors(t) = (req[t].lba + secs_done[t])..(req[t].lba + secs_done[t] + n - 1)
    BY <1>3, <1>4, Zenon DEF round_sectors, Round
  <2>2. PICK a \in Nat, d \in Nat : a = req[t].lba /\ d = secs_done[t]
    BY <1>3, Zenon
  <2>3. moved[t] \cup round_sectors(t) = (a..(a + d - 1)) \cup ((a + d)..(a + d + n - 1))
    BY <1>3, <2>1, <2>2, Zenon DEF Upto
  <2>4. Upto(t, secs_done[t] + n) = a..(a + (d + n) - 1)
    BY <2>2, Zenon DEF Upto
  <2>5. Joined(a, d, n)
    BY <1>4, <2>2, Intervals, Zenon
  <2>. QED  BY <2>3, <2>4, <2>5, Zenon DEF Joined
<1>6. Upto(t, secs_done[t] + n) \subseteq 0..max_lba
  <2>1. PICK a \in Nat, d \in Nat, c \in Nat : a = req[t].lba /\ d = secs_done[t] /\ c = req[t].sec_cnt
    BY <1>3, Zenon
  <2>2. a + c <= max_lba + 1 /\ d + n <= c
    BY <1>3, <1>4, <2>1, Zenon
  <2>3. Upto(t, secs_done[t] + n) = a..(a + (d + n) - 1)
    BY <2>1, Zenon DEF Upto
  <2>4. a..(a + (d + n) - 1) \subseteq 0..max_lba
    BY <2>2, Numbers, SMT, Z3
  <2>. QED  BY <2>3, <2>4
<1>7. moved'[t] = Upto(t, secs_done[t] + Round(t))' /\ moved' \in [Thread -> SUBSET (0..max_lba)]
      /\ \A u \in Thread \ {t} : moved'[u] = moved[u]
  <2>1. moved' = [moved EXCEPT ![t] = Upto(t, secs_done[t] + n)] /\ moved \in [Thread -> SUBSET (0..max_lba)]
    BY <1>1, <1>2, <1>5, Zenon DEF Typed, TypeOK
  <2>2. Upto(t, secs_done[t] + Round(t))' = Upto(t, secs_done[t] + n)
    BY <1>1, <1>4, Zenon DEF Upto, Round
  <2>. QED  BY <1>6, <2>1, <2>2
<1>8. Drives(t) /\ StageOK(t) /\ clash' = FALSE
  <2>1. Drives(t)
    BY <1>1, SMT, Z3 DEF Drives, DriverPoint
  <2>. QED  BY <1>1, <1>2, <2>1, SMT, Z3 DEF ChannelInv, Typed, TypeOK
<1>9. ThreadTypeOK' /\ panic' = FALSE
  BY <1>1, <1>2 DEF SchedInv, ThreadTypeOK
<1>10. command.by = t /\ command.op = req[t].op /\ Mine(t)
  BY <1>1, <1>8, Zenon DEF StageOK, Mine
<1>11. CASE req[t].op = "write"
  <2>1. /\ drive' = "busy" /\ command' = [command EXCEPT !.sent = TRUE] /\ irq' = irq
        /\ pc' = [pc EXCEPT ![t] = "sema_down"]
        /\ arg' = [arg EXCEPT ![t] = disk_done] /\ ret' = [ret EXCEPT ![t] = "io_next"]
    BY <1>11 DEF transfer, call, goto
  <2>2. Alone(t) /\ pc'[t] = "sema_down" /\ arg'[t] = disk_done /\ ret'[t] = "io_next"
    BY <1>1, <1>2, <1>7, <2>1 DEF Alone, Same, Typed, TypeOK
  <2>3. /\ command' \in [by : Thread \cup {NULL}, op : Op \cup {"none"}, lba : 0..max_lba,
                         sec_cnt : 1..SecsPerCmd, sent : BOOLEAN]
        /\ command'.by = command.by /\ command'.op = command.op /\ command'.lba = command.lba
        /\ command'.sec_cnt = command.sec_cnt /\ command'.sent = TRUE
    BY <1>2, <2>1, Zenon DEF Typed, TypeOK
  <2>4. Typed'
    <3>1. arg' \in [Thread -> {channel_lock, disk_done, NULL}]
          /\ ret' \in [Thread -> {"user", "io_cmd", "busy_wait", "io_next", "io_done"}]
      BY <1>2, <2>1 DEF Typed
    <3>2. pc' \in [Thread -> SyncPoint \cup {"user", "main", "spin", "blocked", "idle", "hlt", "io_cmd",
                                       "busy_wait", "ticks_to_sleep", "transfer",
                                       "io_next", "io_unlock", "io_done"}]
      BY <1>2, <2>1 DEF Typed, TypeOK, SyncPoint
    <3>. QED  BY <1>1, <1>2, <1>7, <1>9, <2>1, <2>3, <3>1, <3>2, Zenon DEF Typed, TypeOK, SyncTypeOK
  <2>5. time_limit[t] > 0
    BY <1>1, <1>2, Zenon DEF ThreadOK
  <2>6. ThreadOK(t)'
    BY <1>1, <1>2, <1>3, <1>7, <1>11, <2>2, <2>5, Names, Zenon
    DEF ThreadOK, Acquiring, Waits, Releasing, Free, SyncPoint, DriverPoint
  <2>7. Drives(t)' /\ StageOK(t)'
    <3>1. Mine(t)'
      BY <1>1, <1>10, <2>3, Zenon DEF Mine, Round
    <3>2. Answer("ready")'
      BY <1>1, <1>8, <1>11, <2>1 DEF Answer, StageOK
    <3>. QED  BY <1>1, <1>11, <2>2, <2>3, <3>1, <3>2, Zenon DEF StageOK, Drives, Waits
  <2>8. LockInv' /\ ChannelInv' /\ IdentifyInv'
    BY <1>1, <1>8, <2>2, <2>7, DriverStep, Zenon
  <2>. QED  BY <1>1, <1>9, <2>2, <2>4, <2>6, <2>8, QuietStep, ThreadsStep, Zenon DEF IdeInv
<1>12. CASE req[t].op # "write"
  <2>1. /\ drive' = "ready" /\ irq' = (command.sec_cnt > 1) /\ pc' = [pc EXCEPT ![t] = "io_next"]
        /\ UNCHANGED <<command, arg, ret>>
    BY <1>12, Zenon DEF transfer, goto
  <2>2. Alone(t) /\ pc'[t] = "io_next" /\ irq' \in BOOLEAN
    BY <1>1, <1>2, <1>7, <2>1 DEF Alone, Same, Typed, TypeOK
  <2>3. Typed'
    BY <1>1, <1>2, <1>7, <1>9, <2>1, <2>2, Zenon DEF Typed, TypeOK, SyncTypeOK
  <2>4. ThreadOK(t)'
    BY <1>1, <1>2, <1>3, <1>7, <2>2, Zenon
    DEF ThreadOK, Acquiring, Waits, Releasing, Free, SyncPoint, DriverPoint
  <2>5. Drives(t)' /\ StageOK(t)'
    BY <1>1, <1>8, <1>10, <1>12, <2>1, <2>2, Zenon DEF StageOK, Rest, Drives, DriverPoint, Waits
  <2>6. LockInv' /\ ChannelInv' /\ IdentifyInv'
    BY <1>1, <1>8, <2>2, <2>5, DriverStep, Zenon
  <2>. QED  BY <1>1, <1>9, <2>2, <2>3, <2>4, <2>6, QuietStep, ThreadsStep, Zenon DEF IdeInv
<1>. QED  BY <1>11, <1>12

(* secs_done += secs_op, and back to the loop's test. *)
LEMMA NextStep ==
  ASSUME IdeInv, NEW t \in Thread, io_next(t)  PROVE IdeInv'
<1>1. /\ t = current /\ pc[t] = "io_next"
      /\ secs_done' = [secs_done EXCEPT ![t] = @ + secs_op(@, req[t].sec_cnt)]
      /\ pc' = [pc EXCEPT ![t] = IF req[t].op = "identify" THEN "io_done"
                                 ELSE IF secs_done'[t] < req[t].sec_cnt THEN "io_cmd" ELSE "io_unlock"]
      /\ UNCHANGED <<thread_ready_list, status, current, ticks, intr, saved_if, panic, value, waiters,
                     holder, holder_repeat_nr, arg, ret, old_status, expecting_intr, regs, drive, command,
                     irq, clash, req, moved, time_limit, ticked, identified>>
  BY DEF io_next, At, goto, syncVars, threadVars, driveVars
<1>2. Typed /\ SchedInv /\ ThreadOK(t) /\ ChannelInv /\ IdentifyInv
  BY DEF IdeInv, ThreadsInv
<1>3. /\ req[t].op \in Op /\ req[t].lba \in Nat /\ req[t].sec_cnt \in Nat /\ secs_done[t] \in Nat
      /\ req[t].sec_cnt <= MaxSecs
      /\ Round(t) \in 1..SecsPerCmd /\ secs_done[t] + Round(t) <= req[t].sec_cnt
      /\ moved[t] = Upto(t, secs_done[t] + Round(t))
  <2>1. secs_done[t] < req[t].sec_cnt /\ moved[t] = Upto(t, secs_done[t] + Round(t))
    BY <1>1, <1>2, Zenon DEF ThreadOK, DriverPoint
  <2>. QED  BY <1>1, <2>1, RequestFacts, Zenon DEF Free
<1>4. PICK d \in 0..MaxSecs : d = secs_done[t] + Round(t)
  BY <1>3, Numbers
<1>5. /\ secs_done'[t] = d /\ secs_done' \in [Thread -> 0..MaxSecs]
      /\ \A u \in Thread \ {t} : secs_done'[u] = secs_done[u]
  <2>1. secs_done \in [Thread -> 0..MaxSecs] /\ secs_done' = [secs_done EXCEPT ![t] = d]
    BY <1>1, <1>2, <1>4 DEF Round, Typed, TypeOK
  <2>. QED  BY <2>1, Zenon
<1>6. moved'[t] = Upto(t, secs_done[t])'
  BY <1>1, <1>3, <1>4, <1>5, Zenon DEF Upto
<1>7. ThreadTypeOK' /\ panic' = FALSE
  BY <1>1, <1>2, Zenon DEF SchedInv, ThreadTypeOK
<1>8. Drives(t) /\ Rest /\ clash' = FALSE
  <2>1. Drives(t)
    BY <1>1, Zenon DEF Drives, DriverPoint
  <2>2. StageOK(t) /\ clash = FALSE
    BY <1>2, <2>1 DEF ChannelInv, Typed, TypeOK
  <2>. QED  BY <1>1, <2>1, <2>2, Zenon DEF StageOK
<1>9. Rest'
  BY <1>1, <1>8, Zenon DEF Rest
<1>10. PICK p \in {"io_done", "io_cmd", "io_unlock"} :
         /\ pc' = [pc EXCEPT ![t] = p]
         /\ p = "io_done" <=> req[t].op = "identify"
         /\ p = "io_cmd" => d < req[t].sec_cnt
         /\ p = "io_unlock" => ~(d < req[t].sec_cnt)
  BY <1>1, <1>5, Zenon
<1>11. Alone(t) /\ pc'[t] = p
  BY <1>1, <1>2, <1>5, <1>10 DEF Alone, Same, Typed, TypeOK
<1>12. Typed'
  <2>1. pc' \in [Thread -> SyncPoint \cup {"user", "main", "spin", "blocked", "idle", "hlt", "io_cmd",
                                       "busy_wait", "ticks_to_sleep", "transfer",
                                       "io_next", "io_unlock", "io_done"}]
    BY <1>2, <1>10, Zenon DEF Typed, TypeOK
  <2>. QED  BY <1>1, <1>2, <1>5, <1>7, <2>1, Zenon DEF Typed, TypeOK, SyncTypeOK
<1>13. ThreadOK(t)'
  <2>1. p = "io_unlock" => d = req[t].sec_cnt
    BY <1>3, <1>4, <1>10, Ranges, Small, Zenon
  <2>2. p = "io_unlock" => moved'[t] = Upto(t, req[t].sec_cnt)'
    BY <1>1, <1>5, <1>6, <2>1, Zenon DEF Upto
  <2>3. req'[t] = req[t] /\ secs_done'[t] = d
    BY <1>1, <1>5, Zenon
  <2>4. t \in Proc \cup {main_thread} /\ req[t] \in Request /\ Valid(req[t])
    BY <1>1, <1>2, Zenon DEF ThreadOK, Free
  <2>. QED
    BY <1>6, <1>10, <1>11, <2>2, <2>3, <2>4, Zenon
    DEF ThreadOK, Acquiring, Waits, Releasing, Free, SyncPoint, DriverPoint, Valid
<1>14. CASE p # "io_done"
  <2>1. Drives(t)' /\ StageOK(t)'
    BY <1>9, <1>11, <1>14, Zenon DEF StageOK, Drives, DriverPoint, Waits
  <2>2. LockInv' /\ ChannelInv' /\ IdentifyInv'
    BY <1>1, <1>8, <1>11, <2>1, DriverStep, Zenon
  <2>. QED  BY <1>1, <1>7, <1>11, <1>12, <1>13, <2>2, QuietStep, ThreadsStep, Zenon DEF IdeInv
<1>15. CASE p = "io_done"
  <2>1. t = main_thread /\ ~identified /\ req[t].op = "identify"
    BY <1>2, <1>8, <1>10, <1>15, Zenon DEF IdentifyInv
  <2>2. ~Drives(t)' /\ ~Inside(t) /\ ~Inside(t)' /\ ~Holds(t) /\ ~Holds(t)'
    BY <1>1, <1>11, <1>15, <2>1, Zenon DEF Inside, Holds, Locked, Drives, DriverPoint, Waits
  <2>3. IdentifyInv'
    BY <1>1, <1>11, <1>15, <2>1, <2>2, IdentifyStep, Zenon
  <2>4. ChannelInv'
    <3>1. \A u \in Thread \ {t} : ~Drives(u)
      BY <1>8, OneDriver
    <3>. QED  BY <1>8, <1>9, <1>11, <2>2, <3>1, ChannelDriver, Zenon
  <2>5. LockInv'
    <3>1. ASSUME NEW u \in Thread
          PROVE  /\ Inside(u)' <=> Inside(u)
                 /\ Holds(u)' <=> Holds(u)
                 /\ pc'[u] = pc[u] \/ pc'[u] \notin {"la_holder", "la_repeat", "sema_up"}
                 /\ Holds(u) /\ pc'[u] # "la_repeat" => pc[u] # "la_repeat"
      <4>1. CASE u = t
        BY <1>11, <1>15, <2>2, <4>1, Zenon
      <4>2. CASE u # t
        <5>1. Same(u)
          BY <1>11, <4>2 DEF Alone
        <5>. QED  BY <5>1, SameFacts, Zenon DEF Same
      <4>. QED  BY <4>1, <4>2, Zenon
    <3>. QED  BY <1>1, <3>1, LockOutside, Zenon
  <2>. QED  BY <1>1, <1>7, <1>11, <1>12, <1>13, <2>3, <2>4, <2>5, QuietStep, ThreadsStep, Zenon DEF IdeInv
<1>. QED  BY <1>14, <1>15, Zenon

(* ide_read() and ide_write() release the channel lock. *)
LEMMA UnlockStep ==
  ASSUME IdeInv, NEW t \in Thread, io_unlock(t)  PROVE IdeInv'
<1>1. /\ t = current /\ pc[t] = "io_unlock"
      /\ pc' = [pc EXCEPT ![t] = "lock_release"]
      /\ arg' = [arg EXCEPT ![t] = channel_lock] /\ ret' = [ret EXCEPT ![t] = "io_done"]
      /\ UNCHANGED <<thread_ready_list, status, current, ticks, intr, saved_if, panic, value, waiters,
                     holder, holder_repeat_nr, old_status, expecting_intr, regs, drive, command,
                     irq, clash, req, secs_done, moved, time_limit, ticked, identified>>
  BY DEF io_unlock, At, call, goto, syncVars, threadVars, driveVars, ioVars
<1>2. Typed /\ SchedInv /\ ThreadOK(t) /\ ChannelInv /\ IdentifyInv
  BY DEF IdeInv, ThreadsInv
<1>3. Drives(t) /\ Rest /\ clash' = FALSE
  <2>1. Drives(t)
    BY <1>1, SMT, Z3 DEF Drives, DriverPoint
  <2>2. StageOK(t) /\ clash = FALSE
    BY <1>2, <2>1, SMT, Z3 DEF ChannelInv, Typed, TypeOK
  <2>. QED  BY <1>1, <2>1, <2>2, Zenon DEF StageOK
<1>4. Rest'
  BY <1>1, <1>3 DEF Rest
<1>5. ThreadTypeOK' /\ panic' = FALSE
  BY <1>1, <1>2, Zenon DEF SchedInv, ThreadTypeOK
<1>6. req[t].op # "identify" /\ Inside(t) /\ Holds(t)
  <2>1. req[t].op # "identify"
    BY <1>1, <1>2, Zenon DEF ThreadOK
  <2>. QED  BY <1>3, <2>1 DEF Inside, Holds, Locked
<1>7. Alone(t) /\ pc'[t] = "lock_release" /\ arg'[t] = channel_lock /\ ret'[t] = "io_done"
  BY <1>1, <1>2 DEF Alone, Same, Typed, TypeOK
<1>8. Typed'
  <2>1. arg' \in [Thread -> {channel_lock, disk_done, NULL}]
        /\ ret' \in [Thread -> {"user", "io_cmd", "busy_wait", "io_next", "io_done"}]
    BY <1>1, <1>2 DEF Typed
  <2>. QED  BY <1>1, <1>2, <1>5, <2>1, Zenon DEF Typed, TypeOK, SyncTypeOK, SyncPoint
<1>9. ThreadOK(t)'
  <2>1. moved'[t] = Upto(t, req[t].sec_cnt)'
    BY <1>1, <1>2, Zenon DEF ThreadOK, Upto
  <2>. QED
    BY <1>1, <1>2, <1>6, <1>7, <2>1, Zenon
    DEF ThreadOK, Acquiring, Waits, Releasing, Free, SyncPoint, DriverPoint
<1>10. ~Drives(t)' /\ Inside(t)' /\ Holds(t)'
  BY <1>7, Zenon DEF Inside, Holds, Drives, DriverPoint, Waits
<1>11. /\ \A u \in Thread \ {t} : ~Inside(u) /\ ~Drives(u)
       /\ identified /\ value[channel_lock] = 0 /\ holder[channel_lock] = t
       /\ holder_repeat_nr[channel_lock] = 1
  BY <1>1, <1>6, InsideFacts, Zenon
<1>12. LockInv'
  BY <1>1, <1>7, <1>10, <1>11, LockInside, Zenon
<1>13. ChannelInv'
  BY <1>3, <1>4, <1>7, <1>10, <1>11, ChannelDriver, Zenon
<1>14. IdentifyInv'
  BY <1>1, <1>7, <1>10, <1>11, IdentifyStep, Zenon
<1>. QED  BY <1>1, <1>5, <1>7, <1>8, <1>9, <1>12, <1>13, <1>14, QuietStep, ThreadsStep, Zenon DEF IdeInv

(* The call returns: its locals are gone, and the drive has been identified. *)
LEMMA DoneStep ==
  ASSUME IdeInv, NEW t \in Thread, io_done(t)  PROVE IdeInv'
<1>1. /\ t = current /\ pc[t] = "io_done"
      /\ req' = [req EXCEPT ![t] = NoRequest]
      /\ secs_done' = [secs_done EXCEPT ![t] = 0] /\ moved' = [moved EXCEPT ![t] = {}]
      /\ time_limit' = [time_limit EXCEPT ![t] = 0] /\ ticked' = [ticked EXCEPT ![t] = FALSE]
      /\ pc' = [pc EXCEPT ![t] = IF t = main_thread THEN "main" ELSE "user"]
      /\ intr' = (t # main_thread) /\ identified' = TRUE
      /\ UNCHANGED <<thread_ready_list, status, current, ticks, saved_if, panic, value, waiters,
                     holder, holder_repeat_nr, arg, ret, old_status, expecting_intr, regs, drive, command,
                     irq, clash>>
  BY DEF io_done, At, goto, syncVars, driveVars
<1>2. Typed /\ SchedInv /\ ThreadOK(t) /\ IdentifyInv
  BY SMT, Z3 DEF IdeInv, ThreadsInv
<1>3. ThreadTypeOK' /\ panic' = FALSE
  BY <1>1, <1>2 DEF SchedInv, ThreadTypeOK
<1>4. PICK p \in {"main", "user"} : pc' = [pc EXCEPT ![t] = p]
  BY <1>1, Zenon
<1>5. Alone(t) /\ pc'[t] = p /\ secs_done'[t] = 0 /\ moved'[t] = {}
  BY <1>1, <1>2, <1>4 DEF Alone, Same, Typed, TypeOK
<1>6. Typed'
  <2>1. req' \in [Thread -> Request \cup {NoRequest}]
    BY <1>1, <1>2, Zenon DEF Typed, TypeOK
  <2>2. secs_done' \in [Thread -> 0..MaxSecs] /\ time_limit' \in [Thread -> 0..time_limit_ms]
    BY <1>1, <1>2, Numbers, SMT, Z3 DEF Typed, TypeOK
  <2>3. moved' \in [Thread -> SUBSET (0..max_lba)] /\ ticked' \in [Thread -> BOOLEAN]
    BY <1>1, <1>2, SMT, Z3 DEF Typed, TypeOK
  <2>4. pc' \in [Thread -> SyncPoint \cup {"user", "main", "spin", "blocked", "idle", "hlt", "io_cmd",
                                       "busy_wait", "ticks_to_sleep", "transfer",
                                       "io_next", "io_unlock", "io_done"}]
    BY <1>2, <1>4 DEF Typed, TypeOK
  <2>. QED  BY <1>1, <1>2, <1>3, <2>1, <2>2, <2>3, <2>4, Zenon DEF Typed, TypeOK, SyncTypeOK
<1>7. ThreadOK(t)'
  BY <1>5, Zenon DEF ThreadOK, Acquiring, Waits, Releasing, Free, SyncPoint, DriverPoint
<1>8. ~Drives(t) /\ ~Drives(t)' /\ ~Inside(t) /\ ~Inside(t)'
  BY <1>1, <1>5, Zenon DEF Inside, Locked, Drives, DriverPoint, Waits
<1>9. LockInv' /\ ChannelInv'
  BY <1>1, <1>5, <1>8, OutsideStep, Zenon
<1>10. IdentifyInv'
  <2>1. ASSUME NEW u \in Thread, Drives(u)', req'[u].op = "identify"  PROVE FALSE
    <3>1. u # t
      BY <1>8, <2>1, Zenon
    <3>2. Same(u)
      BY <1>5, <3>1, Zenon DEF Alone
    <3>3. Drives(u) /\ req[u].op = "identify"
      BY <2>1, <3>2, SameFacts, Zenon DEF Same
    <3>4. u = main_thread /\ ~identified
      BY <1>2, <3>3, Zenon DEF IdentifyInv
    <3>5. pc[t] \in {"user", "idle", "hlt"}
      BY <1>2, <3>1, <3>4 DEF IdentifyInv
    <3>. QED  BY <1>1, <3>5
  <2>. QED  BY <1>1, <2>1, SMT, Z3 DEF IdentifyInv
<1>. QED  BY <1>1, <1>3, <1>5, <1>6, <1>7, <1>9, <1>10, QuietStep, ThreadsStep, Zenon DEF IdeInv

-----------------------------------------------------------------------------
(* What the steps in sync.c leave alone. *)
Kept == UNCHANGED <<expecting_intr, regs, drive, command, irq, clash, req, secs_done, moved,
                    time_limit, ticked, identified>>

LEMMA KeptFacts == UNCHANGED <<expecting_intr, driveVars, ioVars>> => Kept
BY DEF driveVars, ioVars, Kept

LEMMA AcquireTestStep ==
  ASSUME IdeInv, NEW t \in Thread, lock_acquire_test(t), Kept  PROVE IdeInv'
<1>1. /\ t = current /\ pc[t] = "lock_acquire"
      /\ UNCHANGED <<thread_ready_list, status, current, ticks, intr, saved_if, panic, value, waiters,
                     holder, arg, ret, old_status>>
  BY Zenon DEF lock_acquire_test, At, threadVars
<1>2. Typed /\ SchedInv /\ ThreadOK(t) /\ LockInv /\ IdentifyInv
  BY DEF IdeInv, ThreadsInv
<1>3. ~Drives(t) /\ ~Inside(t) /\ ~Holds(t) /\ Acquiring(t)
  BY <1>1, Zenon DEF Inside, Holds, Locked, Drives, DriverPoint, Waits, Acquiring
<1>4. /\ arg[t] = channel_lock /\ ret[t] = "io_cmd" /\ req[t].op # "identify"
      /\ secs_done[t] = 0 /\ moved[t] = {}
      /\ t \in Proc \cup {main_thread} /\ req[t] \in Request /\ Valid(req[t])
  BY <1>1, <1>2, <1>3, Zenon DEF ThreadOK, Free
<1>5. holder[arg[t]] # t
  BY <1>2, <1>3, <1>4, Zenon DEF LockInv
<1>6. pc' = [pc EXCEPT ![t] = "sema_down"] /\ holder_repeat_nr' = holder_repeat_nr
  BY <1>5, Zenon DEF lock_acquire_test, goto
<1>7. Alone(t) /\ pc'[t] = "sema_down"
  BY <1>1, <1>2, <1>6, SMT, Z3 DEF Alone, Same, Typed, TypeOK, Kept
<1>8. ThreadTypeOK' /\ panic' = FALSE
  BY <1>1, <1>2 DEF SchedInv, ThreadTypeOK
<1>9. Typed'
  BY <1>1, <1>2, <1>6, <1>8, Zenon DEF Typed, TypeOK, SyncTypeOK, SyncPoint, Kept
<1>10. Acquiring(t)' /\ ~Waits(t)'
  BY <1>1, <1>4, <1>7, Names, Zenon DEF Acquiring, Waits
<1>11. ThreadOK(t)'
  BY <1>1, <1>4, <1>7, <1>10, Zenon DEF ThreadOK, Releasing, Free, SyncPoint, DriverPoint, Kept, Valid
<1>12. ~Drives(t)' /\ ~Inside(t)'
  BY <1>7, <1>10, Zenon DEF Inside, Locked, Drives, DriverPoint
<1>13. LockInv' /\ ChannelInv'
  BY <1>1, <1>3, <1>6, <1>7, <1>12, OutsideStep DEF Kept
<1>14. IdentifyInv'
  <2>1. identified
    BY <1>1, <1>2, <1>3, Zenon DEF IdentifyInv
  <2>. QED  BY <1>7, <1>12, <2>1, IdentifyStep, Zenon DEF Kept
<1>. QED  BY <1>1, <1>7, <1>8, <1>9, <1>11, <1>13, <1>14, QuietStep, ThreadsStep, Zenon DEF IdeInv

(* A thread that is taking or giving back the lock. *)
LEMMA LockFrame ==
  ASSUME IdeInv, NEW t \in Thread, pc[t] \in {"la_holder", "la_repeat", "lock_release", "lr_repeat", "sema_up"}
  PROVE  /\ \A u \in Thread \ {t} : ~Inside(u) /\ ~Drives(u)
         /\ ~Drives(t) /\ Inside(t) /\ Rest /\ clash = FALSE /\ identified
         /\ arg[t] = channel_lock /\ value[channel_lock] = 0
         /\ holder[channel_lock] = IF pc[t] \in {"la_repeat", "lock_release"} THEN t ELSE NULL
         /\ pc[t] \in {"la_holder", "la_repeat", "sema_up"} => holder_repeat_nr[channel_lock] = 0
         /\ pc[t] = "lock_release" => holder_repeat_nr[channel_lock] = 1
         /\ req[t].op # "identify"
         /\ t \in Proc \cup {main_thread} /\ req[t] \in Request /\ Valid(req[t])
         /\ pc[t] \in {"la_holder", "la_repeat"} => ret[t] = "io_cmd" /\ secs_done[t] = 0 /\ moved[t] = {}
         /\ pc[t] \in Releasing => ret[t] = "io_done" /\ moved[t] = Upto(t, req[t].sec_cnt)
<1>1. Typed /\ ThreadOK(t) /\ ChannelInv
  BY DEF IdeInv, ThreadsInv
<1>2. ~Drives(t) /\ Inside(t) /\ (Holds(t) <=> pc[t] \in {"la_repeat", "lock_release"})
  BY Zenon DEF Inside, Holds, Locked, Drives, DriverPoint, Waits
<1>3. /\ \A u \in Thread \ {t} : ~Inside(u) /\ ~Drives(u)
      /\ identified
      /\ holder[channel_lock] \in {t, NULL} /\ value[channel_lock] = 0
      /\ holder[channel_lock] = t <=> Holds(t)
      /\ pc[t] \in {"la_holder", "la_repeat", "sema_up"} => holder_repeat_nr[channel_lock] = 0
      /\ Holds(t) /\ pc[t] # "la_repeat" => holder_repeat_nr[channel_lock] = 1
  BY <1>2, InsideFacts, Zenon
<1>4. Rest /\ clash = FALSE
  BY <1>1, <1>2, <1>3, Zenon DEF ChannelInv, Typed, TypeOK
<1>5. Acquiring(t) \/ pc[t] \in Releasing
  BY Zenon DEF Acquiring, Releasing
<1>6. /\ arg[t] = channel_lock /\ req[t].op # "identify"
      /\ t \in Proc \cup {main_thread} /\ req[t] \in Request /\ Valid(req[t])
  BY <1>1, <1>5, Zenon DEF ThreadOK, Free
<1>7. pc[t] \in {"la_holder", "la_repeat"} => ret[t] = "io_cmd" /\ secs_done[t] = 0 /\ moved[t] = {}
  BY <1>1, Zenon DEF ThreadOK, Acquiring
<1>8. pc[t] \in Releasing => ret[t] = "io_done" /\ moved[t] = Upto(t, req[t].sec_cnt)
  BY <1>1, Zenon DEF ThreadOK
<1>. QED  BY <1>2, <1>3, <1>4, <1>6, <1>7, <1>8, Names, Zenon

LEMMA AcquireHolderStep ==
  ASSUME IdeInv, NEW t \in Thread, lock_acquire_holder(t), Kept  PROVE IdeInv'
<1>1. /\ t = current /\ pc[t] = "la_holder"
      /\ holder' = [holder EXCEPT ![arg[t]] = t] /\ pc' = [pc EXCEPT ![t] = "la_repeat"]
      /\ UNCHANGED <<thread_ready_list, status, current, ticks, intr, saved_if, panic, value, waiters,
                     holder_repeat_nr, arg, ret, old_status>>
  BY Zenon DEF lock_acquire_holder, At, goto, threadVars
<1>2. Typed /\ SchedInv
  BY DEF IdeInv
<1>3. /\ \A u \in Thread \ {t} : ~Inside(u) /\ ~Drives(u)
      /\ ~Drives(t) /\ Rest /\ clash = FALSE /\ identified
      /\ arg[t] = channel_lock /\ value[channel_lock] = 0 /\ holder_repeat_nr[channel_lock] = 0
      /\ req[t].op # "identify" /\ ret[t] = "io_cmd" /\ secs_done[t] = 0 /\ moved[t] = {}
      /\ t \in Proc \cup {main_thread} /\ req[t] \in Request /\ Valid(req[t])
  BY <1>1, LockFrame, Zenon
<1>4. Alone(t) /\ pc'[t] = "la_repeat"
  BY <1>1, <1>2 DEF Alone, Same, Typed, TypeOK, Kept
<1>5. holder' \in [Lock -> Thread \cup {NULL}] /\ holder'[channel_lock] = t
  BY <1>1, <1>2, <1>3, Names, Zenon DEF Typed, TypeOK, SyncTypeOK
<1>6. ThreadTypeOK' /\ panic' = FALSE
  BY <1>1, <1>2 DEF SchedInv, ThreadTypeOK
<1>7. Typed'
  BY <1>1, <1>2, <1>5, <1>6, Zenon DEF Typed, TypeOK, SyncTypeOK, SyncPoint, Kept
<1>8. ThreadOK(t)'
  BY <1>1, <1>3, <1>4, Zenon DEF ThreadOK, Acquiring, Waits, Releasing, Free, SyncPoint, DriverPoint, Kept, Valid
<1>9. ~Drives(t)' /\ Holds(t)'
  BY <1>4, Zenon DEF Holds, Drives, DriverPoint, Waits
<1>10. LockInv'
  BY <1>1, <1>3, <1>4, <1>5, <1>9, LockInside, Zenon
<1>11. ChannelInv'
  BY <1>1, <1>3, <1>4, <1>9, ChannelDriver, Zenon DEF Kept, Rest
<1>12. IdentifyInv'
  BY <1>3, <1>4, <1>9, IdentifyStep, Zenon DEF Kept
<1>. QED  BY <1>1, <1>4, <1>6, <1>7, <1>8, <1>10, <1>11, <1>12, QuietStep, ThreadsStep, Zenon DEF IdeInv

(* lock_acquire() returns: the drive is the caller's, and at rest. *)
LEMMA AcquireRepeatStep ==
  ASSUME IdeInv, NEW t \in Thread, lock_acquire_repeat(t), Kept  PROVE IdeInv'
<1>1. /\ t = current /\ pc[t] = "la_repeat" /\ assert(holder_repeat_nr[arg[t]] = 0)
      /\ holder_repeat_nr' = [holder_repeat_nr EXCEPT ![arg[t]] = 1] /\ pc' = [pc EXCEPT ![t] = ret[t]]
      /\ UNCHANGED <<value, waiters, holder, arg, ret, old_status>>
  BY Zenon DEF lock_acquire_repeat, At, goto
<1>2. Typed /\ SchedInv
  BY DEF IdeInv
<1>3. /\ \A u \in Thread \ {t} : ~Inside(u) /\ ~Drives(u)
      /\ ~Drives(t) /\ Rest /\ clash = FALSE /\ identified
      /\ arg[t] = channel_lock /\ value[channel_lock] = 0 /\ holder_repeat_nr[channel_lock] = 0
      /\ holder[channel_lock] = t
      /\ req[t].op # "identify" /\ ret[t] = "io_cmd" /\ secs_done[t] = 0 /\ moved[t] = {}
      /\ t \in Proc \cup {main_thread} /\ req[t] \in Request /\ Valid(req[t])
  BY <1>1, LockFrame, Zenon
<1>4. Alone(t) /\ pc'[t] = "io_cmd"
  BY <1>1, <1>2, <1>3, Zenon DEF Alone, Same, Typed, TypeOK, Kept
<1>5. holder_repeat_nr' \in [Lock -> Nat] /\ holder_repeat_nr'[channel_lock] = 1
  BY <1>1, <1>2, <1>3, Names, Zenon DEF Typed, TypeOK, SyncTypeOK
<1>6. /\ ThreadTypeOK' /\ panic' = FALSE
      /\ UNCHANGED <<thread_ready_list, status, current, ticks, intr, saved_if>>
  <2>1. (holder_repeat_nr[arg[t]] = 0) = TRUE
    BY <1>3, Zenon
  <2>2. panic' = FALSE /\ UNCHANGED <<thread_ready_list, status, current, ticks, intr, saved_if>>
    BY <1>1, <2>1, Zenon DEF assert
  <2>. QED  BY <1>2, <2>2, Zenon DEF SchedInv, ThreadTypeOK
<1>7. Typed'
  BY <1>1, <1>2, <1>3, <1>5, <1>6, Zenon DEF Typed, TypeOK, SyncTypeOK, Kept
<1>8. ThreadOK(t)'
  <2>1. req[t].lba \in Nat /\ req[t].sec_cnt > 0
    <3>1. req[t].lba \in 0..max_lba /\ req[t].sec_cnt \in 1..MaxSecs
      BY <1>3, Zenon DEF Request
    <3>. QED  BY <3>1, Ranges, Zenon
  <2>2. moved'[t] = {} /\ secs_done'[t] = 0 /\ req'[t] = req[t]
    BY <1>3, Zenon DEF Kept
  <2>3. Upto(t, secs_done[t])' = {}
    BY <2>1, <2>2, NoSectors, Zenon DEF Upto
  <2>. QED  BY <1>3, <1>4, <2>1, <2>2, <2>3, Zenon DEF ThreadOK, Acquiring, Waits, Releasing, Free, SyncPoint, DriverPoint, Valid
<1>9. Drives(t)' /\ Holds(t)' /\ StageOK(t)'
  <2>1. Rest'
    BY <1>1, <1>3, Zenon DEF Kept, Rest
  <2>2. req'[t].op # "identify"
    BY <1>3, Zenon DEF Kept
  <2>. QED  BY <1>4, <2>1, <2>2, Zenon DEF Holds, Locked, Drives, DriverPoint, Waits, StageOK
<1>10. LockInv'
  BY <1>1, <1>3, <1>4, <1>5, <1>9, LockInside, Zenon
<1>11. ChannelInv'
  BY <1>3, <1>4, <1>9, ChannelDriver, Zenon DEF Kept
<1>12. IdentifyInv'
  BY <1>3, <1>4, <1>9, IdentifyStep, Zenon DEF Kept
<1>. QED  BY <1>1, <1>4, <1>6, <1>7, <1>8, <1>10, <1>11, <1>12, QuietStep, ThreadsStep, Zenon DEF IdeInv

LEMMA ReleaseTestStep ==
  ASSUME IdeInv, NEW t \in Thread, lock_release_test(t), Kept  PROVE IdeInv'
<1>1. t = current /\ pc[t] = "lock_release" /\ UNCHANGED <<value, waiters, arg, ret, old_status>>
  BY Zenon DEF lock_release_test, At
<1>2. Typed /\ SchedInv
  BY DEF IdeInv
<1>3. /\ \A u \in Thread \ {t} : ~Inside(u) /\ ~Drives(u)
      /\ ~Drives(t) /\ Rest /\ clash = FALSE /\ identified
      /\ arg[t] = channel_lock /\ value[channel_lock] = 0 /\ holder_repeat_nr[channel_lock] = 1
      /\ holder[channel_lock] = t
      /\ req[t].op # "identify" /\ ret[t] = "io_done" /\ moved[t] = Upto(t, req[t].sec_cnt)
      /\ t \in Proc \cup {main_thread} /\ req[t] \in Request /\ Valid(req[t])
  BY <1>1, LockFrame, Zenon DEF Releasing
<1>4. /\ assert(holder[arg[t]] = t /\ holder_repeat_nr[arg[t]] = 1)
      /\ holder' = [holder EXCEPT ![arg[t]] = NULL] /\ pc' = [pc EXCEPT ![t] = "lr_repeat"]
      /\ holder_repeat_nr' = holder_repeat_nr
  <2>1. ~(holder_repeat_nr[arg[t]] > 1)
    <3>1. holder_repeat_nr[arg[t]] = 1
      BY <1>3, Zenon
    <3>. QED  BY <3>1, Small, Zenon
  <2>. QED  BY <2>1, Zenon DEF lock_release_test, goto
<1>5. /\ ThreadTypeOK' /\ panic' = FALSE
      /\ UNCHANGED <<thread_ready_list, status, current, ticks, intr, saved_if>>
  <2>1. (holder[arg[t]] = t /\ holder_repeat_nr[arg[t]] = 1) = TRUE
    BY <1>3, Zenon
  <2>2. panic' = FALSE /\ UNCHANGED <<thread_ready_list, status, current, ticks, intr, saved_if>>
    BY <1>4, <2>1, Zenon DEF assert
  <2>. QED  BY <1>2, <2>2, Zenon DEF SchedInv, ThreadTypeOK
<1>6. Alone(t) /\ pc'[t] = "lr_repeat"
  BY <1>1, <1>2, <1>4, Zenon DEF Alone, Same, Typed, TypeOK, Kept
<1>7. holder' \in [Lock -> Thread \cup {NULL}] /\ holder'[channel_lock] = NULL
  BY <1>2, <1>3, <1>4, Names, Zenon DEF Typed, TypeOK, SyncTypeOK
<1>8. Typed'
  BY <1>1, <1>2, <1>4, <1>5, <1>7, Zenon DEF Typed, TypeOK, SyncTypeOK, SyncPoint, Kept
<1>9. ThreadOK(t)'
  BY <1>1, <1>3, <1>6, Zenon
  DEF ThreadOK, Acquiring, Waits, Releasing, Free, SyncPoint, DriverPoint, Kept, Valid, Upto
<1>10. ~Drives(t)' /\ ~Holds(t)'
  BY <1>6, Zenon DEF Holds, Locked, Drives, DriverPoint, Waits
<1>11. LockInv'
  BY <1>1, <1>3, <1>4, <1>6, <1>7, <1>10, LockInside, Names, Zenon
<1>12. ChannelInv'
  BY <1>1, <1>3, <1>6, <1>10, ChannelDriver, Zenon DEF Kept, Rest
<1>13. IdentifyInv'
  BY <1>3, <1>6, <1>10, IdentifyStep, Zenon DEF Kept
<1>. QED  BY <1>1, <1>5, <1>6, <1>8, <1>9, <1>11, <1>12, <1>13, QuietStep, ThreadsStep, Zenon DEF IdeInv

LEMMA ReleaseRepeatStep ==
  ASSUME IdeInv, NEW t \in Thread, lock_release_repeat(t), Kept  PROVE IdeInv'
<1>1. /\ t = current /\ pc[t] = "lr_repeat"
      /\ holder_repeat_nr' = [holder_repeat_nr EXCEPT ![arg[t]] = 0] /\ pc' = [pc EXCEPT ![t] = "sema_up"]
      /\ UNCHANGED <<thread_ready_list, status, current, ticks, intr, saved_if, panic, value, waiters,
                     holder, arg, ret, old_status>>
  BY Zenon DEF lock_release_repeat, At, goto, threadVars
<1>2. Typed /\ SchedInv
  BY DEF IdeInv
<1>3. /\ \A u \in Thread \ {t} : ~Inside(u) /\ ~Drives(u)
      /\ ~Drives(t) /\ Rest /\ clash = FALSE /\ identified
      /\ arg[t] = channel_lock /\ value[channel_lock] = 0 /\ holder[channel_lock] = NULL
      /\ req[t].op # "identify" /\ ret[t] = "io_done" /\ moved[t] = Upto(t, req[t].sec_cnt)
      /\ t \in Proc \cup {main_thread} /\ req[t] \in Request /\ Valid(req[t])
  BY <1>1, LockFrame, Zenon DEF Releasing
<1>4. Alone(t) /\ pc'[t] = "sema_up"
  BY <1>1, <1>2 DEF Alone, Same, Typed, TypeOK, Kept
<1>5. holder_repeat_nr' \in [Lock -> Nat] /\ holder_repeat_nr'[channel_lock] = 0
  BY <1>1, <1>2, <1>3, Names, Zenon DEF Typed, TypeOK, SyncTypeOK
<1>6. ThreadTypeOK' /\ panic' = FALSE
  BY <1>1, <1>2 DEF SchedInv, ThreadTypeOK
<1>7. Typed'
  BY <1>1, <1>2, <1>5, <1>6, Zenon DEF Typed, TypeOK, SyncTypeOK, SyncPoint, Kept
<1>8. ThreadOK(t)'
  BY <1>1, <1>3, <1>4, Zenon
  DEF ThreadOK, Acquiring, Waits, Releasing, Free, SyncPoint, DriverPoint, Kept, Valid, Upto
<1>9. ~Drives(t)' /\ ~Holds(t)'
  BY <1>4, Zenon DEF Holds, Locked, Drives, DriverPoint, Waits
<1>10. LockInv'
  BY <1>1, <1>3, <1>4, <1>5, <1>9, LockInside, Names, Zenon
<1>11. ChannelInv'
  BY <1>1, <1>3, <1>4, <1>9, ChannelDriver, Zenon DEF Kept, Rest
<1>12. IdentifyInv'
  BY <1>3, <1>4, <1>9, IdentifyStep, Zenon DEF Kept
<1>. QED  BY <1>1, <1>4, <1>6, <1>7, <1>8, <1>10, <1>11, <1>12, QuietStep, ThreadsStep, Zenon DEF IdeInv

(* sema_up() of a semaphore that is down: the longest waiting thread, which   *)
(* is blocked and in this list only, becomes ready.                          *)
LEMMA UpFacts ==
  ASSUME IdeInv, NEW k \in {channel_lock, disk_done}, sema_up(k), value[k] = 0,
         \A u \in Thread : status[u] = "BLOCKED" /\ pc[u] = "sema_wait" => pc'[u] = pc[u] /\ arg'[u] = arg[u]
  PROVE  /\ SchedInv' /\ TagInOneList' /\ UNCHANGED <<holder, holder_repeat_nr>>
         /\ value' \in [Lock \cup Sema -> {0, 1}] /\ value'[k] = 1
         /\ \A s \in {channel_lock, disk_done} : s # k => value'[s] = value[s]
         /\ waiters' \in [Lock \cup Sema -> Seq(Thread)]
<1>1. Typed /\ SchedInv /\ TagInOneList
  BY Zenon DEF IdeInv
<1>2. UNCHANGED <<holder, holder_repeat_nr, intr>>
  BY Zenon DEF sema_up
<1>3. /\ value' \in [Lock \cup Sema -> {0, 1}] /\ value'[k] = 1
      /\ \A s \in {channel_lock, disk_done} : s # k => value'[s] = value[s]
  <2>1. value' = [value EXCEPT ![k] = @ + 1] /\ value \in [{channel_lock, disk_done} -> {0, 1}]
    BY <1>1, Names, Zenon DEF sema_up, Typed, TypeOK, SyncTypeOK
  <2>2. value' = [value EXCEPT ![k] = 1]
    BY <2>1, Small, Zenon
  <2>3. /\ value' \in [{channel_lock, disk_done} -> {0, 1}] /\ value'[k] = 1
        /\ \A s \in {channel_lock, disk_done} \ {k} : value'[s] = value[s]
    <3>1. value'[k] = 1
      BY <2>1, <2>2, Zenon
    <3>2. \A s \in {channel_lock, disk_done} \ {k} : value'[s] = value[s]
      BY <2>1, <2>2, Zenon
    <3>3. value' \in [{channel_lock, disk_done} -> {0, 1}]
      BY <2>1, <2>2, Zenon
    <3>. QED  BY <3>1, <3>2, <3>3, Zenon
  <2>. QED  BY <2>3, Names, Zenon
<1>4. waiters \in [{channel_lock, disk_done} -> Seq(Thread)] /\ k \in Lock \cup Sema
  BY <1>1, Names, Zenon DEF Typed, TypeOK, SyncTypeOK
<1>5. (value[k] # 0 \/ value'[k] # 1) = FALSE
  BY <1>3
<1>6. CASE waiters[k] = <<>>
  <2>1. UNCHANGED <<waiters, thread_ready_list, status, current, ticks, saved_if>> /\ panic' = FALSE
    BY <1>5, <1>6, Zenon DEF sema_up
  <2>2. SchedInv'
    BY <1>1, <1>2, <2>1, Zenon DEF SchedInv, ThreadTypeOK, ReadyListConsistent
  <2>3. TagInOneList'
    BY <2>1, <2>2, TagKept, Zenon
  <2>. QED  BY <1>2, <1>3, <1>4, <2>1, <2>2, <2>3, Names, Zenon
<1>7. CASE waiters[k] # <<>>
  <2> DEFINE q == waiters[k]
             h == Head(q)
  <2>1. waiters' = [waiters EXCEPT ![k] = Tail(q)] /\ thread_unblock(h, FALSE)
    BY <1>5, <1>7, Zenon DEF sema_up
  <2>2. q \in Seq(Thread) /\ NoRepeat(q) /\ q # <<>>
    BY <1>1, <1>4, <1>7, Zenon DEF TagInOneList
  <2>3. /\ Tail(q) \in Seq(Thread) /\ h \in Thread /\ elem_find(q, h) /\ NoRepeat(Tail(q))
        /\ \A u : elem_find(Tail(q), u) <=> elem_find(q, u) /\ u # h
    BY <2>2, PopFacts, Zenon
  <2>4. status[h] = "BLOCKED" /\ pc[h] = "sema_wait" /\ arg[h] = k
    BY <1>1, <1>4, <2>3, Zenon DEF TagInOneList
  <2> HIDE DEF h, q
  <2>5. SchedInv' /\ status' = [status EXCEPT ![h] = "READY"]
    BY <1>1, <1>2, <2>1, <2>3, <2>4, UnblockFacts, Zenon
  <2>6. \A u \in Thread \ {h} : status'[u] = status[u]
    BY <1>1, <2>3, <2>5, Zenon DEF SchedInv, ThreadTypeOK
  <2>7. /\ waiters'[k] = Tail(q) /\ waiters' \in [Lock \cup Sema -> Seq(Thread)]
        /\ \A s \in {channel_lock, disk_done} : s # k => waiters'[s] = waiters[s]
    BY <1>4, <2>1, <2>3, Names, Zenon
  <2>8. \A u \in Thread : status'[u] = "BLOCKED" => ~elem_find(thread_ready_list', u)
    BY <2>5, Zenon DEF SchedInv, ReadyListConsistent
  <2>9. ASSUME NEW s \in {channel_lock, disk_done}, NEW u \in Thread, elem_find(waiters'[s], u)
        PROVE  /\ status'[u] = "BLOCKED" /\ pc'[u] = "sema_wait" /\ arg'[u] = s
               /\ ~elem_find(thread_ready_list', u)
    <3>1. elem_find(waiters[s], u) /\ (s = k => u # h)
      BY <2>3, <2>7, <2>9, Zenon DEF q
    <3>2. status[u] = "BLOCKED" /\ pc[u] = "sema_wait" /\ arg[u] = s
      BY <1>1, <3>1, Names, Zenon DEF TagInOneList
    <3>3. u # h
      BY <2>4, <3>1, <3>2, Zenon
    <3>. QED  BY <2>6, <2>8, <3>2, <3>3, Zenon
  <2>10. ASSUME NEW s \in {channel_lock, disk_done}  PROVE NoRepeat(waiters'[s])
    BY <1>1, <2>3, <2>7, Names, ZenonT(30) DEF TagInOneList
  <2>11. TagInOneList'
    BY <2>9, <2>10, Names, Zenon DEF TagInOneList
  <2>. QED  BY <1>2, <1>3, <2>5, <2>7, <2>11, Zenon
<1>. QED  BY <1>6, <1>7, Zenon

(* lock_release() ups the semaphore and returns. *)
LEMMA UpStep ==
  ASSUME IdeInv, NEW t \in Thread, sema_up_step(t), Kept  PROVE IdeInv'
<1>1. /\ t = current /\ pc[t] = "sema_up" /\ pc' = [pc EXCEPT ![t] = ret[t]]
      /\ UNCHANGED <<arg, ret, old_status>> /\ sema_up(arg[t])
  BY Zenon DEF sema_up_step, At, goto
<1>2. Typed
  BY DEF IdeInv
<1>3. /\ \A u \in Thread \ {t} : ~Inside(u) /\ ~Drives(u)
      /\ ~Drives(t) /\ Rest /\ clash = FALSE /\ identified
      /\ arg[t] = channel_lock /\ value[channel_lock] = 0 /\ holder[channel_lock] = NULL
      /\ holder_repeat_nr[channel_lock] = 0
      /\ req[t].op # "identify" /\ ret[t] = "io_done" /\ moved[t] = Upto(t, req[t].sec_cnt)
      /\ t \in Proc \cup {main_thread} /\ req[t] \in Request /\ Valid(req[t])
  BY <1>1, LockFrame, Zenon DEF Releasing
<1>4. Alone(t) /\ pc'[t] = "io_done"
  BY <1>1, <1>2, <1>3, Zenon DEF Alone, Same, Typed, TypeOK, Kept
<1>5. /\ SchedInv' /\ TagInOneList' /\ UNCHANGED <<holder, holder_repeat_nr>>
      /\ value' \in [Lock \cup Sema -> {0, 1}] /\ value'[channel_lock] = 1
      /\ value'[disk_done] = value[disk_done]
      /\ waiters' \in [Lock \cup Sema -> Seq(Thread)]
  <2>1. \A u \in Thread : status[u] = "BLOCKED" /\ pc[u] = "sema_wait" => pc'[u] = pc[u] /\ arg'[u] = arg[u]
    BY <1>1, <1>4, Zenon DEF Alone, Same
  <2>2. sema_up(channel_lock)
    BY <1>1, <1>3, Zenon
  <2>. QED  BY <1>3, <2>1, <2>2, UpFacts, Names, Zenon
<1>6. Typed'
  BY <1>1, <1>2, <1>3, <1>5, Zenon DEF Typed, TypeOK, SyncTypeOK, SchedInv, Kept
<1>7. ThreadOK(t)'
  BY <1>1, <1>3, <1>4, Zenon
  DEF ThreadOK, Acquiring, Waits, Releasing, Free, SyncPoint, DriverPoint, Kept, Valid, Upto
<1>8. ~Drives(t)' /\ ~Holds(t)' /\ ~Inside(t)'
  BY <1>4, Zenon DEF Inside, Holds, Locked, Drives, DriverPoint, Waits
<1>9. LockInv'
  BY <1>3, <1>4, <1>5, <1>8, LockInside, Names, Zenon
<1>10. ChannelInv'
  BY <1>3, <1>4, <1>5, <1>8, ChannelDriver, Zenon DEF Kept, Rest
<1>11. IdentifyInv'
  BY <1>3, <1>4, <1>8, IdentifyStep, Zenon DEF Kept
<1>. QED  BY <1>4, <1>5, <1>6, <1>7, <1>9, <1>10, <1>11, ThreadsStep, SMT, Z3 DEF IdeInv

(* sema_down() finds the value: the lock is taken, or the interrupt has come. *)
LEMMA DownTakeStep ==
  ASSUME IdeInv, NEW t \in Thread, sema_down_take(t), Kept  PROVE IdeInv'
<1>1. /\ t = current /\ pc[t] \in {"sema_down", "sema_wait"} /\ value[arg[t]] # 0
      /\ value' = [value EXCEPT ![arg[t]] = @ - 1] /\ panic' = (value'[arg[t]] # 0)
      /\ intr' = (IF pc[t] = "sema_down" THEN intr ELSE old_status[t])
      /\ old_status' = [old_status EXCEPT ![t] = FALSE]
      /\ pc' = [pc EXCEPT ![t] = after_down(t)]
      /\ UNCHANGED <<thread_ready_list, status, current, ticks, saved_if, waiters, holder,
                     holder_repeat_nr, arg, ret>>
  BY Zenon DEF sema_down_take, At, goto
<1>2. Typed /\ SchedInv /\ ThreadOK(t) /\ LockInv /\ ChannelInv /\ IdentifyInv
  BY DEF IdeInv, ThreadsInv
<1>3. PICK k \in {channel_lock, disk_done} : arg[t] = k
  BY <1>1, <1>2, Zenon DEF ThreadOK, SyncPoint, Acquiring, Waits, Releasing
<1>4. /\ value[k] = 1 /\ value'[k] = 0 /\ value' \in [Lock \cup Sema -> {0, 1}]
      /\ \A s \in {channel_lock, disk_done} : s # k => value'[s] = value[s]
  <2>1. value \in [{channel_lock, disk_done} -> {0, 1}] /\ value' = [value EXCEPT ![k] = @ - 1]
    BY <1>1, <1>2, <1>3, Names, Zenon DEF Typed, TypeOK, SyncTypeOK
  <2>2. value[k] = 1
    BY <1>1, <1>3, <2>1
  <2>3. value' = [value EXCEPT ![k] = 0]
    BY <2>1, <2>2, SMT, Z3
  <2>. QED  BY <2>1, <2>2, <2>3, Names
<1>5. ThreadTypeOK' /\ panic' = FALSE
  <2>1. panic' = FALSE
    BY <1>1, <1>3, <1>4, Zenon
  <2>2. intr' \in BOOLEAN
    BY <1>1, <1>2, Zenon DEF SchedInv, ThreadTypeOK, Typed, TypeOK, SyncTypeOK
  <2>. QED  BY <1>1, <1>2, <2>1, <2>2 DEF SchedInv, ThreadTypeOK
<1>6. old_status' \in [Thread -> BOOLEAN]
  BY <1>1, <1>2, Zenon DEF Typed, TypeOK, SyncTypeOK
<1>7. CASE k = channel_lock
  <2>1. ~Drives(t) /\ Acquiring(t) /\ after_down(t) = "la_holder"
    BY <1>1, <1>3, <1>7, Names, Zenon DEF Drives, DriverPoint, Waits, Acquiring, after_down
  <2>2. /\ ret[t] = "io_cmd" /\ req[t].op # "identify" /\ secs_done[t] = 0 /\ moved[t] = {}
        /\ t \in Proc \cup {main_thread} /\ req[t] \in Request /\ Valid(req[t])
    BY <1>1, <1>2, <2>1, Zenon DEF ThreadOK, Free
  <2>3. Alone(t) /\ pc'[t] = "la_holder"
    BY <1>1, <1>2, <2>1, Zenon DEF Alone, Same, Typed, TypeOK, Kept
  <2>4. Typed'
    BY <1>1, <1>2, <1>4, <1>5, <1>6, <2>1, ZenonT(30) DEF Typed, TypeOK, SyncTypeOK, SyncPoint, Kept
  <2>5. ThreadOK(t)'
    BY <1>1, <1>3, <1>7, <2>2, <2>3, Zenon
    DEF ThreadOK, Acquiring, Waits, Releasing, Free, SyncPoint, DriverPoint, Kept, Valid
  <2>6. \A u \in Thread : ~Inside(u) /\ ~Holds(u)
    <3>1. \A u \in Thread : ~Inside(u)
      BY <1>2, <1>4, <1>7, Small, Zenon DEF LockInv
    <3>. QED  BY <3>1, Zenon DEF Inside, Holds
  <2>7. holder[channel_lock] = NULL /\ holder_repeat_nr[channel_lock] = 0
    BY <1>2, <1>4, <1>7, <2>6, Names, Zenon DEF LockInv, Typed, TypeOK, SyncTypeOK
  <2>8. ~Drives(t)' /\ ~Holds(t)'
    BY <2>3 DEF Holds, Locked, Drives, DriverPoint, Waits
  <2>9. LockInv'
    BY <1>1, <1>4, <1>7, <2>3, <2>6, <2>7, <2>8, LockInside, Names, Zenon
  <2>10. identified
    BY <1>1, <1>2, <2>1, Zenon DEF IdentifyInv
  <2>11. ChannelInv'
    <3>1. \A u \in Thread : (Drives(u)' <=> Drives(u)) /\ (Drives(u) => Same(u))
      BY <2>1, <2>3, <2>8, SameFacts, Zenon DEF Alone
    <3>. QED  BY <1>4, <1>7, <3>1, ChannelOutside, Names, Zenon DEF Kept
  <2>12. IdentifyInv'
    BY <2>3, <2>8, <2>10, IdentifyStep, Zenon DEF Kept
  <2>. QED  BY <1>1, <1>5, <2>3, <2>4, <2>5, <2>9, <2>11, <2>12, QuietStep, ThreadsStep, Zenon DEF IdeInv
<1>8. CASE k = disk_done
  <2>1. Waits(t) /\ Drives(t) /\ after_down(t) = ret[t]
    BY <1>1, <1>3, <1>8, Names, Zenon DEF Drives, Waits, after_down
  <2>2. StageOK(t) /\ clash = FALSE
    BY <1>2, <2>1 DEF ChannelInv, Typed, TypeOK
  <2>3. /\ Mine(t) /\ ~expecting_intr
        /\ drive = IF req[t].op = "write" THEN "ready" ELSE "drq"
    BY <1>4, <1>8, <2>1, <2>2, Small, Zenon DEF StageOK, Answer
  <2>4. ret[t] = IF req[t].op = "write" THEN "io_next" ELSE "busy_wait"
    BY <1>2, <2>1, Zenon DEF ThreadOK
  <2>5. PICK p \in {"io_next", "busy_wait"} : p = ret[t] /\ (p = "io_next" <=> req[t].op = "write")
    BY <2>4, Zenon
  <2>6. Alone(t) /\ pc'[t] = p
    BY <1>1, <1>2, <2>1, <2>5, Zenon DEF Alone, Same, Typed, TypeOK, Kept
  <2>7. Typed'
    BY <1>1, <1>2, <1>4, <1>5, <1>6, <2>1, <2>5, ZenonT(30) DEF Typed, TypeOK, SyncTypeOK, Kept
  <2>8. ThreadOK(t)'
    <3>1. /\ t \in Proc \cup {main_thread} /\ req[t] \in Request /\ Valid(req[t])
          /\ secs_done[t] < req[t].sec_cnt /\ time_limit[t] > 0
      BY <1>1, <1>2, <2>1, Zenon DEF ThreadOK, Free
    <3>2. /\ p = "busy_wait" => moved[t] = Upto(t, secs_done[t])
          /\ p = "io_next" => moved[t] = Upto(t, secs_done[t] + Round(t))
      BY <1>2, <2>1, <2>5, Zenon DEF ThreadOK
    <3>3. /\ p = "busy_wait" => moved'[t] = Upto(t, secs_done[t])'
          /\ p = "io_next" => moved'[t] = Upto(t, secs_done[t] + Round(t))'
      BY <3>2, Zenon DEF Kept, Upto, Round
    <3>. QED
      BY <2>6, <3>1, <3>3, Zenon DEF ThreadOK, Acquiring, Waits, Releasing, Free, SyncPoint, DriverPoint, Kept, Valid
  <2>9. Drives(t)' /\ StageOK(t)'
    <3>1. Mine(t)'
      BY <2>3, Zenon DEF Kept, Mine, Round
    <3>2. p = "io_next" => Rest' /\ command'.by = t
      BY <1>4, <1>8, <2>3, <2>5, Zenon DEF Kept, Rest, Mine
    <3>3. p = "busy_wait" => drive' = "drq" /\ ~expecting_intr' /\ value'[disk_done] = 0 /\ req'[t].op # "write"
      BY <1>4, <1>8, <2>3, <2>5, Zenon DEF Kept
    <3>. QED  BY <2>6, <3>1, <3>2, <3>3, Zenon DEF StageOK, Drives, DriverPoint, Waits
  <2>10. LockInv' /\ ChannelInv' /\ IdentifyInv'
    BY <1>1, <1>4, <1>8, <2>1, <2>2, <2>6, <2>9, DriverStep, Names, Zenon DEF Kept
  <2>. QED  BY <1>1, <1>5, <2>6, <2>7, <2>8, <2>10, QuietStep, ThreadsStep, Zenon DEF IdeInv
<1>. QED  BY <1>7, <1>8

(* sema_down() without the value: the thread is queued once and blocks. *)
LEMMA DownWaitStep ==
  ASSUME IdeInv, NEW t \in Thread, sema_down_wait(t), Kept  PROVE IdeInv'
<1>1. /\ t = current /\ pc[t] \in {"sema_down", "sema_wait"}
      /\ waiters' = [waiters EXCEPT ![arg[t]] = list_append(@, t)]
      /\ old_status' = [old_status EXCEPT ![t] = IF pc[t] = "sema_down" THEN intr ELSE @]
      /\ thread_block(FALSE, elem_find(waiters[arg[t]], t))
      /\ pc' = [pc EXCEPT ![t] = "sema_wait"]
      /\ UNCHANGED <<value, holder, holder_repeat_nr, arg, ret>>
  BY Zenon DEF sema_down_wait, At, goto
<1>2. Typed /\ SchedInv /\ ThreadOK(t) /\ TagInOneList /\ IdentifyInv
  BY DEF IdeInv, ThreadsInv
<1>3. PICK k \in {channel_lock, disk_done} : arg[t] = k
  BY <1>1, <1>2, Zenon DEF ThreadOK, SyncPoint, Acquiring, Waits, Releasing
<1>4. /\ \A s \in {channel_lock, disk_done} : ~elem_find(waiters[s], t)
      /\ t # idle_thread
  BY <1>1, CurrentRuns, SleepersAreNotIdle, Zenon DEF Free
<1>5. SchedInv' /\ BlockedAre({u \in Thread : status[u] = "BLOCKED"} \cup {t})
  <2>1. elem_find(waiters[arg[t]], t) = FALSE
    BY <1>3, <1>4 DEF elem_find
  <2>2. thread_block(FALSE, FALSE)
    BY <1>1, <2>1, Zenon
  <2>. QED  BY <1>1, <1>2, <2>2, BlockFacts, Zenon
<1>6. \A u \in Thread \ {idle_thread} : status[u] = "BLOCKED" \/ u = t => status'[u] = "BLOCKED"
  BY <1>5 DEF BlockedAre
<1>7. Alone(t) /\ pc'[t] = "sema_wait"
  BY <1>1, <1>2, Zenon DEF Alone, Same, Typed, TypeOK, Kept
<1>8. waiters[k] \in Seq(Thread) /\ NoRepeat(waiters[k]) /\ waiters \in [{channel_lock, disk_done} -> Seq(Thread)]
  BY <1>2, Names, ZenonT(30) DEF Typed, TypeOK, SyncTypeOK, TagInOneList
<1>9. /\ waiters' \in [{channel_lock, disk_done} -> Seq(Thread)] /\ NoRepeat(waiters'[k])
      /\ \A u : elem_find(waiters'[k], u) <=> u = t \/ elem_find(waiters[k], u)
      /\ \A s \in {channel_lock, disk_done} : s # k => waiters'[s] = waiters[s]
  <2> DEFINE q == list_append(waiters[k], t)
  <2>1. /\ q \in Seq(Thread) /\ NoRepeat(q)
        /\ \A u : elem_find(q, u) <=> u = t \/ elem_find(waiters[k], u)
    BY <1>4, <1>8, AppendFacts, Zenon
  <2>2. waiters' = [waiters EXCEPT ![k] = q]
    BY <1>1, <1>3
  <2> HIDE DEF q
  <2>3. waiters'[k] = q
    BY <1>8, <2>2
  <2>. QED  BY <1>8, <2>1, <2>2, <2>3
<1>10. Typed'
  <2>1. old_status' \in [Thread -> BOOLEAN]
    BY <1>1, <1>2, Zenon DEF Typed, TypeOK, SyncTypeOK, SchedInv, ThreadTypeOK
  <2>2. pc' \in [Thread -> SyncPoint \cup {"user", "main", "spin", "blocked", "idle", "hlt", "io_cmd",
                                       "busy_wait", "ticks_to_sleep", "transfer",
                                       "io_next", "io_unlock", "io_done"}]
    BY <1>1, <1>2, Zenon DEF Typed, TypeOK, SyncPoint
  <2>. QED  BY <1>1, <1>2, <1>5, <1>9, <2>1, <2>2, Names, ZenonT(30) DEF Typed, TypeOK, SyncTypeOK, SchedInv, Kept
<1>11. ASSUME NEW s \in {channel_lock, disk_done}, NEW u \in Thread, elem_find(waiters[s], u)
       PROVE  u # t /\ status'[u] = "BLOCKED" /\ pc'[u] = "sema_wait" /\ arg'[u] = s
  <2>1. status[u] = "BLOCKED" /\ pc[u] = "sema_wait" /\ arg[u] = s /\ u # t
    BY <1>2, <1>4, <1>11, Names, Zenon DEF TagInOneList
  <2>2. u # idle_thread
    BY <2>1, SleepersAreNotIdle DEF Free
  <2>. QED  BY <1>6, <1>7, <2>1, <2>2, Zenon DEF Alone, Same
<1>12. TagInOneList'
  <2>1. \A u \in Thread : status'[u] = "BLOCKED" => ~elem_find(thread_ready_list', u)
    BY <1>5, Zenon DEF SchedInv, ReadyListConsistent
  <2>2. status'[t] = "BLOCKED" /\ arg'[t] = k
    BY <1>1, <1>3, <1>4, <1>6, Zenon
  <2>3. ASSUME NEW s \in {channel_lock, disk_done}, NEW u \in Thread, elem_find(waiters'[s], u)
        PROVE  /\ status'[u] = "BLOCKED" /\ pc'[u] = "sema_wait" /\ arg'[u] = s
               /\ ~elem_find(thread_ready_list', u)
    BY <1>7, <1>9, <1>11, <2>1, <2>2, <2>3, Zenon
  <2>4. ASSUME NEW s \in {channel_lock, disk_done}  PROVE NoRepeat(waiters'[s])
    BY <1>2, <1>9, Names, Zenon DEF TagInOneList
  <2>. QED  BY <2>3, <2>4, Names, Zenon DEF TagInOneList
<1>13. (Waits(t)' <=> Waits(t)) /\ (Acquiring(t) <=> k = channel_lock) /\ (Acquiring(t)' <=> k = channel_lock)
  BY <1>1, <1>3, <1>7, Names, Zenon DEF Waits, Acquiring
<1>14. ThreadOK(t)'
  <2>1. Upto(t, secs_done[t])' = Upto(t, secs_done[t])
        /\ Upto(t, secs_done[t] + Round(t))' = Upto(t, secs_done[t] + Round(t))
    BY Zenon DEF Kept, Upto, Round
  <2>. QED
    BY <1>1, <1>2, <1>7, <1>13, <2>1, Zenon DEF ThreadOK, Releasing, Free, SyncPoint, DriverPoint, Kept, Valid
<1>15. LockInv' /\ ChannelInv' /\ IdentifyInv'
  <2>1. CASE k = channel_lock
    <3>1. ~Drives(t) /\ ~Drives(t)' /\ ~Inside(t) /\ ~Inside(t)'
      BY <1>1, <1>3, <1>7, <2>1, Names, Zenon DEF Inside, Locked, Drives, DriverPoint, Waits
    <3>2. LockInv' /\ ChannelInv'
      BY <1>1, <1>7, <3>1, OutsideStep DEF Kept
    <3>3. identified
      BY <1>1, <1>2, <3>1, Zenon DEF IdentifyInv
    <3>. QED  BY <1>7, <3>1, <3>2, <3>3, IdentifyStep, Zenon DEF Kept
  <2>2. CASE k = disk_done
    <3>1. Waits(t) /\ Waits(t)' /\ Drives(t) /\ Drives(t)'
      BY <1>1, <1>3, <1>7, <2>2 DEF Drives, Waits
    <3>2. StageOK(t) /\ clash' = FALSE
      BY <3>1, Zenon DEF IdeInv, ChannelInv, Typed, TypeOK, Kept
    <3>3. Mine(t)'
      BY <3>1, <3>2, Zenon DEF StageOK, Mine, Round, Kept
    <3>4. Answer(IF req[t].op = "write" THEN "ready" ELSE "drq")'
      BY <1>1, <3>1, <3>2, Zenon DEF StageOK, Answer, Kept
    <3>5. StageOK(t)'
      BY <1>7, <3>1, <3>2, <3>3, <3>4, Zenon DEF StageOK, Kept
    <3>. QED  BY <1>1, <1>7, <3>1, <3>2, <3>5, DriverStep, Zenon DEF Kept
  <2>. QED  BY <2>1, <2>2
<1>. QED  BY <1>5, <1>7, <1>10, <1>12, <1>14, <1>15, ThreadsStep, Zenon DEF IdeInv

-----------------------------------------------------------------------------
LEMMA SysCallStep ==
  ASSUME IdeInv, NEW t \in Thread, SysCall(t)  PROVE IdeInv'
<1>1. /\ t = current /\ pc[t] = "user" /\ t \in Proc /\ identified /\ intr' = FALSE
      /\ UNCHANGED <<thread_ready_list, status, current, ticks, saved_if, panic, syncVars,
                     old_status, expecting_intr, driveVars, secs_done, moved, time_limit, ticked,
                     identified>>
  BY DEF SysCall, At
<1>2. PICK r \in Request : Valid(r) /\ r.op # "identify" /\ enter(t, r)
  BY Zenon DEF SysCall
<1>. QED  BY <1>1, <1>2, EnterStep, Zenon

LEMMA MainRequestStep ==
  ASSUME IdeInv, MainStep  PROVE IdeInv'
<1>1. /\ main_thread = current /\ pc[main_thread] = "main"
      /\ UNCHANGED <<thread_ready_list, status, current, ticks, intr, saved_if, panic, syncVars,
                     old_status, expecting_intr, driveVars, secs_done, moved, time_limit, ticked,
                     identified>>
  BY SMT, Z3 DEF MainStep, At, threadVars
<1>2. PICK r \in Request : /\ Valid(r) /\ enter(main_thread, r)
                           /\ IF identified THEN r.op # "identify"
                                            ELSE r.op = "identify" /\ r.lba = 0 /\ r.sec_cnt = 1
  BY SMT, Z3 DEF MainStep
<1>3. intr' \in BOOLEAN
  BY <1>1 DEF IdeInv, SchedInv, ThreadTypeOK
<1>4. IF identified THEN r.op # "identify"
                    ELSE r.op = "identify" /\ r.lba = 0 /\ r.sec_cnt = 1 /\ main_thread = main_thread
  BY <1>2
<1>. QED  BY <1>1, <1>2, <1>3, <1>4, EnterStep, Zenon

(* main ends: in its loop, or blocked for good. *)
LEMMA MainEndStep ==
  ASSUME IdeInv, MainDone \/ MainBlocks  PROVE IdeInv'
<1> DEFINE t == main_thread
<1>1. /\ t = current /\ pc[t] = "main" /\ identified
      /\ UNCHANGED <<value, waiters, holder, holder_repeat_nr, arg, ret, old_status>> /\ Kept
  BY Zenon DEF MainDone, MainBlocks, At, syncVars, driveVars, ioVars, Kept
<1>2. PICK p \in {"spin", "blocked"} : pc' = [pc EXCEPT ![t] = p]
  BY Zenon DEF MainDone, MainBlocks, goto
<1>3. Typed /\ SchedInv /\ ThreadOK(t) /\ t \in Thread /\ t # idle_thread
  BY Names DEF IdeInv, ThreadsInv
<1> HIDE DEF t
<1>4. SchedInv' /\ \A u \in Thread \ {idle_thread} : status[u] = "BLOCKED" => status'[u] = "BLOCKED"
  <2>1. CASE UNCHANGED threadVars
    BY <1>3, <2>1 DEF SchedInv, ThreadTypeOK, ReadyListConsistent, threadVars
  <2>2. CASE thread_block(FALSE, FALSE)
    <3>1. SchedInv' /\ BlockedAre({u \in Thread : status[u] = "BLOCKED"} \cup {current})
      BY <1>3, <2>2, BlockFacts, Zenon
    <3>. QED  BY <3>1, Zenon DEF BlockedAre
  <2>. QED  BY <2>1, <2>2, Zenon DEF MainDone, MainBlocks
<1>5. Alone(t) /\ pc'[t] = p
  BY <1>1, <1>2, <1>3, Zenon DEF Alone, Same, Typed, TypeOK, Kept
<1>6. Typed'
  BY <1>1, <1>2, <1>3, <1>4, Zenon DEF Typed, TypeOK, SyncTypeOK, SchedInv, Kept
<1>7. ThreadOK(t)'
  BY <1>1, <1>3, <1>5, Zenon DEF ThreadOK, Acquiring, Waits, Releasing, Free, SyncPoint, DriverPoint, Kept
<1>8. ~Drives(t) /\ ~Drives(t)' /\ ~Inside(t) /\ ~Inside(t)'
  BY <1>1, <1>5, Zenon DEF Inside, Locked, Drives, DriverPoint, Waits
<1>9. LockInv' /\ ChannelInv'
  BY <1>1, <1>3, <1>5, <1>8, OutsideStep, Zenon DEF Kept
<1>10. IdentifyInv'
  BY <1>1, <1>3, <1>5, <1>8, IdentifyStep, Zenon DEF Kept
<1>11. TagInOneList'
  <2>1. ASSUME NEW u \in Thread, status[u] = "BLOCKED", pc[u] = "sema_wait"
        PROVE  status'[u] = "BLOCKED" /\ pc'[u] = pc[u] /\ arg'[u] = arg[u]
    <3>1. u # idle_thread /\ u # t
      BY <1>1, <2>1, SleepersAreNotIdle, Zenon DEF Free
    <3>. QED  BY <1>4, <1>5, <2>1, <3>1, Zenon DEF Alone, Same
  <2>. QED  BY <1>1, <1>4, <2>1, TagKept, Zenon
<1>. QED  BY <1>3, <1>4, <1>5, <1>6, <1>7, <1>9, <1>10, <1>11, ThreadsStep, Zenon DEF IdeInv

LEMMA ForkStep ==
  ASSUME IdeInv, NEW t \in Thread, Fork(t)  PROVE IdeInv'
<1>1. PICK c \in Proc : thread_start(c)
  BY DEF Fork
<1>2. /\ UNCHANGED <<value, waiters, holder, holder_repeat_nr, pc, arg, ret, old_status>> /\ Kept
      /\ c \in Thread
  BY Names, Zenon DEF Fork, syncVars, frameVars, driveVars, ioVars, Kept
<1>3. SchedInv' /\ status' = [status EXCEPT ![c] = "READY"] /\ status[c] = "NONE"
  BY <1>1, <1>2, StartFacts DEF IdeInv
<1>4. \A u \in Thread \ {idle_thread} : status[u] = "BLOCKED" => status'[u] = "BLOCKED"
  BY <1>2, <1>3, Zenon DEF IdeInv, SchedInv, ThreadTypeOK
<1>5. Typed'
  BY <1>2, <1>3, ZenonT(30) DEF IdeInv, Typed, TypeOK, SyncTypeOK, SchedInv, Kept
<1>6. \A u \in Thread : Same(u)
  BY <1>2, Zenon DEF Same, Kept
<1>. QED  BY <1>2, <1>3, <1>4, <1>5, <1>6, ElsewhereStep, SMT, Z3 DEF Kept

(* An interrupt ends hlt and moves nobody else. *)
LEMMA LeaveHlt ==
  ASSUME IdeInv, leave_hlt, UNCHANGED <<arg, ret, req, secs_done, moved, time_limit>>
  PROVE  /\ pc' \in [Thread -> SyncPoint \cup {"user", "main", "spin", "blocked", "idle", "hlt", "io_cmd",
                                       "busy_wait", "ticks_to_sleep", "transfer",
                                       "io_next", "io_unlock", "io_done"}]
         /\ \A u \in Thread : Same(u) \/ Idles(u)
<1>1. /\ pc \in [Thread -> SyncPoint \cup {"user", "main", "spin", "blocked", "idle", "hlt", "io_cmd",
                                       "busy_wait", "ticks_to_sleep", "transfer",
                                       "io_next", "io_unlock", "io_done"}]
      /\ current \in Thread
  BY Zenon DEF IdeInv, SchedInv, ThreadTypeOK, Typed, TypeOK
<1>2. pc' = [pc EXCEPT ![current] = IF pc[current] = "hlt" THEN "idle" ELSE pc[current]]
  BY <1>1 DEF leave_hlt
<1>. QED  BY <1>1, <1>2, Zenon DEF Same, Idles

LEMMA TimerStep ==
  ASSUME IdeInv, Timer  PROVE IdeInv'
<1>1. /\ intr_timer_handler /\ leave_hlt /\ ticked' = [t \in Thread |-> pc[t] = "ticks_to_sleep"]
      /\ UNCHANGED <<value, waiters, holder, holder_repeat_nr, arg, ret, old_status, expecting_intr, regs,
                     drive, command, irq, clash, req, secs_done, moved, time_limit, identified>>
  BY DEF Timer, syncVars, driveVars
<1>2. SchedInv' /\ BlockedAre({u \in Thread : status[u] = "BLOCKED"})
  BY <1>1, TimerFacts, Zenon DEF IdeInv
<1>3. \A u \in Thread \ {idle_thread} : status[u] = "BLOCKED" => status'[u] = "BLOCKED"
  BY <1>2 DEF BlockedAre
<1>4. ticked' \in [Thread -> BOOLEAN]
  BY <1>1
<1>5. Typed'
  <2>1. ThreadTypeOK' /\ pc' \in [Thread -> SyncPoint \cup {"user", "main", "spin", "blocked", "idle", "hlt", "io_cmd",
                                       "busy_wait", "ticks_to_sleep", "transfer",
                                       "io_next", "io_unlock", "io_done"}]
    BY <1>1, <1>2, LeaveHlt, Zenon DEF SchedInv
  <2>. QED  BY <1>1, <1>4, <2>1, Zenon DEF IdeInv, Typed, TypeOK, SyncTypeOK
<1>. QED  BY <1>1, <1>2, <1>3, <1>5, LeaveHlt, ElsewhereStep, Zenon

LEMMA IdleStep ==
  ASSUME IdeInv, idle_block  PROVE IdeInv'
<1>1. /\ idle_thread = current /\ pc[idle_thread] = "idle" /\ thread_block(intr, FALSE)
      /\ pc' = [pc EXCEPT ![idle_thread] = "hlt"]
      /\ UNCHANGED <<value, waiters, holder, holder_repeat_nr, arg, ret, old_status>> /\ Kept
  BY Zenon DEF idle_block, At, goto, syncVars, driveVars, ioVars, Kept
<1>2. Typed /\ SchedInv /\ intr \in BOOLEAN
  BY DEF IdeInv, SchedInv, ThreadTypeOK
<1>3. SchedInv' /\ BlockedAre({u \in Thread : status[u] = "BLOCKED"} \cup {idle_thread})
  BY <1>1, <1>2, BlockFacts, Zenon
<1>4. \A u \in Thread \ {idle_thread} : status[u] = "BLOCKED" => status'[u] = "BLOCKED"
  BY <1>3, Zenon DEF BlockedAre
<1>5. Typed'
  BY <1>1, <1>2, <1>3, Zenon DEF Typed, TypeOK, SyncTypeOK, SchedInv, Kept
<1>6. \A u \in Thread : Same(u) \/ Idles(u)
  BY <1>1, <1>2, Zenon DEF Same, Idles, Typed, TypeOK, Kept
<1>. QED  BY <1>1, <1>3, <1>4, <1>5, <1>6, ElsewhereStep, Zenon DEF Kept

(* The drive works for one thread, or it is at rest. *)
LEMMA SomeDriver ==
  ASSUME IdeInv, drive = "busy" \/ expecting_intr
  PROVE  \E t \in Thread : Drives(t) /\ StageOK(t)
<1>1. ChannelInv
  BY DEF IdeInv
<1>2. ~Rest
  BY DEF Rest
<1>. QED  BY <1>1, <1>2 DEF ChannelInv

(* The drive finishes: the data of a read is there, or the data of a write    *)
(* is wanted, or written.                                                    *)
LEMMA DriveFinishes ==
  ASSUME IdeInv, DriveStep  PROVE IdeInv'
<1>1. /\ drive = "busy" /\ irq' = (irq \/ command.sent)
      /\ drive' = (IF command.op = "write" /\ command.sent THEN "ready" ELSE "drq")
      /\ UNCHANGED <<thread_ready_list, status, current, ticks, intr, saved_if, panic, value, waiters,
                     holder, holder_repeat_nr, pc, arg, ret, old_status, expecting_intr, regs, command,
                     clash, req, secs_done, moved, time_limit, ticked, identified>>
  BY DEF DriveStep, threadVars, syncVars, frameVars, ioVars
<1>2. Typed /\ SchedInv /\ ChannelInv
  BY SMT, Z3 DEF IdeInv
<1>3. PICK t \in Thread : Drives(t) /\ StageOK(t)
  BY <1>1, SomeDriver
<1>4. \A u \in Thread : Same(u)
  BY <1>1, Zenon DEF Same
<1>5. ThreadsInv' /\ LockInv' /\ IdentifyInv'
  BY <1>1, <1>4, ElsewhereFacts, Zenon
<1>6. SchedInv' /\ ThreadTypeOK'
  BY <1>1, <1>2, Zenon DEF SchedInv, ThreadTypeOK, ReadyListConsistent
<1>7. TagInOneList'
  BY <1>1, <1>6, TagKept, Zenon
<1>8. command.sent \in BOOLEAN /\ irq \in BOOLEAN /\ irq' \in BOOLEAN /\ drive' \in {"ready", "drq"}
      /\ clash = FALSE
  BY <1>1, <1>2, Zenon DEF Typed, TypeOK, ChannelInv
<1>9. Typed'
  BY <1>1, <1>2, <1>6, <1>8, Zenon DEF Typed, TypeOK, SyncTypeOK
<1>10. StageOK(t)'
  <2>1. pc[t] \notin {"io_cmd", "io_next", "io_unlock"}
    BY <1>1, <1>3, Zenon DEF StageOK, Rest
  <2>2. Mine(t) /\ Mine(t)' /\ command.op = req[t].op
    <3>1. Mine(t)
      BY <1>3, <2>1 DEF StageOK, Drives, DriverPoint
    <3>. QED  BY <1>1, <3>1, Zenon DEF Mine, Round
  <2>3. CASE Waits(t)
    <3>1. command.sent = TRUE /\ expecting_intr /\ value[disk_done] = 0
      BY <1>1, <1>3, <1>8, <2>3, Zenon DEF StageOK, Answer
    <3>2. drive' = (IF req[t].op = "write" THEN "ready" ELSE "drq") /\ irq' = TRUE
      BY <1>1, <1>8, <2>2, <3>1, Zenon
    <3>3. Answer(IF req[t].op = "write" THEN "ready" ELSE "drq")'
      BY <1>1, <3>1, <3>2, Zenon DEF Answer
    <3>4. Waits(t)' /\ pc'[t] \in {"sema_down", "sema_wait"}
      BY <1>1, <2>3, Zenon DEF Waits
    <3>. QED  BY <1>1, <2>2, <3>1, <3>3, <3>4, Zenon DEF StageOK
  <2>4. CASE ~Waits(t)
    <3>1. pc[t] \in {"busy_wait", "ticks_to_sleep", "transfer"}
      BY <1>3, <2>1, <2>4 DEF Drives, DriverPoint
    <3>2. /\ req[t].op = "write" /\ expecting_intr /\ value[disk_done] = 0
          /\ irq = FALSE /\ command.sent = FALSE
      BY <1>1, <1>3, <1>8, <3>1, Zenon DEF StageOK
    <3>3. drive' = "drq" /\ irq' = FALSE
      BY <1>1, <3>2, Zenon
    <3>4. ~Waits(t)'
      BY <1>1, <2>4, Zenon DEF Waits
    <3>. QED  BY <1>1, <2>2, <3>1, <3>2, <3>3, <3>4, Zenon DEF StageOK
  <2>. QED  BY <2>3, <2>4
<1>11. ChannelInv'
  <2>1. \A u \in Thread \ {t} : ~Drives(u)
    BY <1>3, OneDriver
  <2>2. Drives(t)'
    BY <1>3, <1>4, SameFacts
  <2>. QED  BY <1>1, <1>4, <1>8, <1>10, <2>1, <2>2, ChannelDriver, Zenon DEF Alone
<1>. QED  BY <1>5, <1>6, <1>7, <1>9, <1>11, Zenon DEF IdeInv

(* The disk interrupt: when one is expected, the driver waits for it and is   *)
(* woken; a late one, of the later sectors of a read, changes nothing.       *)
LEMMA HandlerStep ==
  ASSUME IdeInv, intr_hd_handler  PROVE IdeInv'
<1>1. /\ irq /\ irq' = FALSE /\ leave_hlt /\ expecting_intr' = FALSE
      /\ UNCHANGED <<arg, ret, old_status, regs, drive, command, clash, req, secs_done, moved, time_limit,
                     ticked, identified>>
  BY Zenon DEF intr_hd_handler, ioVars
<1>2. Typed /\ SchedInv /\ ChannelInv
  BY DEF IdeInv
<1>3. /\ pc' \in [Thread -> SyncPoint \cup {"user", "main", "spin", "blocked", "idle", "hlt", "io_cmd",
                                       "busy_wait", "ticks_to_sleep", "transfer",
                                       "io_next", "io_unlock", "io_done"}]
      /\ \A u \in Thread : Same(u) \/ Idles(u)
  BY <1>1, LeaveHlt
<1>4. \A u \in Thread : pc[u] = "sema_wait" => pc'[u] = pc[u] /\ arg'[u] = arg[u]
  BY <1>3, Zenon DEF Same, Idles
<1>5. clash' = FALSE
  BY <1>1, <1>2, Zenon DEF ChannelInv, Typed, TypeOK
<1>6. CASE expecting_intr
  <2>1. PICK t \in Thread : Drives(t) /\ StageOK(t)
    BY <1>6, SomeDriver
  <2>2. Waits(t) /\ value[disk_done] = 0 /\ command.sent /\ Mine(t)
        /\ drive = IF req[t].op = "write" THEN "ready" ELSE "drq"
    <3>1. pc[t] \notin {"io_cmd", "io_next", "io_unlock"}
      BY <1>6, <2>1, Zenon DEF StageOK, Rest
    <3>2. pc[t] \notin {"busy_wait", "ticks_to_sleep", "transfer"}
      BY <1>1, <1>6, <2>1, Zenon DEF StageOK
    <3>3. Waits(t)
      BY <2>1, <3>1, <3>2 DEF Drives, DriverPoint
    <3>. QED  BY <1>1, <1>6, <2>1, <3>3, Zenon DEF StageOK, Answer
  <2>3. /\ SchedInv' /\ TagInOneList' /\ UNCHANGED <<holder, holder_repeat_nr>>
        /\ value' \in [Lock \cup Sema -> {0, 1}] /\ value'[disk_done] = 1
        /\ value'[channel_lock] = value[channel_lock]
        /\ waiters' \in [Lock \cup Sema -> Seq(Thread)]
    <3>1. sema_up(disk_done)
      BY <1>6 DEF intr_hd_handler
    <3>. QED  BY <1>4, <2>2, <3>1, UpFacts, Names, Zenon
  <2>4. /\ ThreadsInv' /\ LockInv' /\ IdentifyInv'
        /\ \A u \in Thread : (Drives(u)' <=> Drives(u)) /\ (Drives(u) => Same(u))
    BY <1>1, <1>3, <2>3, ElsewhereFacts, Zenon
  <2>5. Typed'
    BY <1>1, <1>2, <1>3, <2>3, Zenon DEF Typed, TypeOK, SyncTypeOK, SchedInv
  <2>6. StageOK(t)'
    <3>1. Same(t)
      BY <2>1, <2>4
    <3>2. Mine(t)' /\ Waits(t)' /\ pc'[t] \in {"sema_down", "sema_wait"} /\ command'.sent
      BY <1>1, <2>2, <3>1, Zenon DEF Mine, Round, Waits, Same
    <3>3. Answer(IF req[t].op = "write" THEN "ready" ELSE "drq")'
      BY <1>1, <2>2, <2>3, Zenon DEF Answer
    <3>. QED  BY <3>2, <3>3, Zenon DEF StageOK
  <2>7. ChannelInv'
    <3>1. \A u \in Thread : Drives(u)' => u = t
      BY <2>1, <2>4, OneDriver
    <3>. QED  BY <1>5, <2>1, <2>4, <2>6, <3>1, SMT, Z3 DEF ChannelInv
  <2>. QED  BY <2>3, <2>4, <2>5, <2>7 DEF IdeInv
<1>7. CASE ~expecting_intr
  <2>1. UNCHANGED <<thread_ready_list, status, current, ticks, intr, saved_if, panic, value, waiters,
                    holder, holder_repeat_nr>>
    BY <1>7, Zenon DEF intr_hd_handler, threadVars, syncVars
  <2>2. SchedInv'
    BY <1>2, <2>1 DEF SchedInv, ThreadTypeOK, ReadyListConsistent
  <2>3. /\ ThreadsInv' /\ LockInv' /\ IdentifyInv'
        /\ \A u \in Thread : (Drives(u)' <=> Drives(u)) /\ (Drives(u) => Same(u))
    BY <1>1, <1>3, <2>1, ElsewhereFacts, Zenon
  <2>4. Typed'
    BY <1>1, <1>2, <1>3, <2>1, <2>2, Zenon DEF Typed, TypeOK, SyncTypeOK, SchedInv
  <2>5. TagInOneList'
    BY <1>4, <2>1, <2>2, TagKept, Zenon
  <2>6. ASSUME NEW u \in Thread, Drives(u)'  PROVE StageOK(u)'
    <3>1. Same(u) /\ StageOK(u)
      BY <1>2, <2>3, <2>6 DEF ChannelInv
    <3>2. ~Waits(u) /\ ~Waits(u)'
      BY <1>1, <1>7, <3>1, Zenon DEF StageOK, Answer, Same, Waits
    <3>3. Mine(u)' <=> Mine(u)
      BY <1>1, <3>1, Zenon DEF Same, Mine, Round
    <3>4. Rest' <=> Rest
      BY <1>1, <1>7, <2>1 DEF Rest
    <3>. QED  BY <1>1, <1>7, <2>1, <3>1, <3>2, <3>3, <3>4, Zenon DEF StageOK, Same
  <2>7. ChannelInv'
    <3>1. Rest' <=> Rest
      BY <1>1, <1>7, <2>1 DEF Rest
    <3>. QED  BY <1>2, <1>5, <2>3, <2>6, <3>1, Zenon DEF ChannelInv
  <2>. QED  BY <2>2, <2>3, <2>4, <2>5, <2>7, Zenon DEF IdeInv
<1>. QED  BY <1>6, <1>7, Zenon

-----------------------------------------------------------------------------
LEMMA DriverInitially == Init => DriverInv
<1> SUFFICES ASSUME Init  PROVE DriverInv
  OBVIOUS
<1> DEFINE boot == <<init_thread, idle_thread>>
<1>1. /\ thread_ready_list = boot /\ current = main_thread /\ ticks = priority /\ intr = FALSE
      /\ saved_if = [t \in Thread |-> TRUE] /\ panic = FALSE
      /\ status = [t \in Thread |-> IF t = main_thread THEN "RUNNING"
                                    ELSE IF elem_find(boot, t) THEN "READY" ELSE "NONE"]
  BY DEF Init, thread_init
<1>2. \A t : elem_find(boot, t) <=> t = init_thread \/ t = idle_thread
  BY DEF elem_find
<1>3. boot \in Seq(Thread) /\ NoRepeat(boot)
  BY Names, SMT, Z3 DEF NoRepeat
<1> HIDE DEF boot
<1>4. /\ status \in [Thread -> Status] /\ status[idle_thread] = "READY"
      /\ \A t \in Thread : status[t] = "RUNNING" <=> t = main_thread
      /\ \A t \in Thread : status[t] = "READY" <=> elem_find(boot, t)
      /\ \A t \in Thread : status[t] # "BLOCKED"
  BY <1>1, <1>2, Names DEF Status
<1>5. SchedInv
  BY <1>1, <1>3, <1>4, ThreadAssumption, Zenon DEF SchedInv, ThreadTypeOK, ReadyListConsistent
<1>6. /\ value = [s \in Lock \cup Sema |-> IF s \in Lock THEN 1 ELSE [x \in Sema |-> 0][s]]
      /\ waiters = [s \in Lock \cup Sema |-> <<>>]
      /\ holder = [l \in Lock |-> NULL] /\ holder_repeat_nr = [l \in Lock |-> 0]
      /\ old_status = [t \in Thread |-> FALSE]
  BY DEF Init, sync_init
<1>7. pc = [t \in Thread |-> IF t = idle_thread THEN "idle"
                             ELSE IF t = main_thread THEN "main" ELSE "user"]
  BY Names DEF Init
<1>8. /\ arg = [t \in Thread |-> NULL] /\ ret = [t \in Thread |-> "user"]
      /\ expecting_intr = FALSE /\ regs = [lba |-> 0, sec_cnt |-> 0] /\ drive = "ready"
      /\ command = [by |-> NULL, op |-> "none", lba |-> 0, sec_cnt |-> 1, sent |-> TRUE]
      /\ irq = FALSE /\ clash = FALSE /\ req = [t \in Thread |-> NoRequest]
      /\ secs_done = [t \in Thread |-> 0] /\ moved = [t \in Thread |-> {}]
      /\ time_limit = [t \in Thread |-> 0] /\ ticked = [t \in Thread |-> FALSE] /\ identified = FALSE
  BY SMT, Z3 DEF Init
<1>9. value \in [Lock \cup Sema -> {0, 1}] /\ value[channel_lock] = 1 /\ value[disk_done] = 0
  BY <1>6, Names
<1>10. Typed
  <2>1. SyncTypeOK
    BY <1>6, <1>9, SMT, Z3 DEF SyncTypeOK
  <2>2. /\ regs \in [lba : 0..max_lba, sec_cnt : 0..(SecsPerCmd - 1)]
        /\ command \in [by : Thread \cup {NULL}, op : Op \cup {"none"}, lba : 0..max_lba,
                        sec_cnt : 1..SecsPerCmd, sent : BOOLEAN]
    BY <1>8, Numbers, SMT, Z3
  <2>3. /\ req \in [Thread -> Request \cup {NoRequest}] /\ secs_done \in [Thread -> 0..MaxSecs]
        /\ moved \in [Thread -> SUBSET (0..max_lba)] /\ time_limit \in [Thread -> 0..time_limit_ms]
        /\ ticked \in [Thread -> BOOLEAN]
    BY <1>8, Numbers
  <2>4. pc \in [Thread -> SyncPoint \cup {"user", "main", "spin", "blocked", "idle", "hlt", "io_cmd",
                                       "busy_wait", "ticks_to_sleep", "transfer",
                                       "io_next", "io_unlock", "io_done"}]
    BY <1>7
  <2>. QED  BY <1>5, <1>8, <2>1, <2>2, <2>3, <2>4, Zenon DEF Typed, TypeOK, SchedInv
<1>11. ASSUME NEW t \in Thread
       PROVE  /\ pc[t] \in {"idle", "main", "user"} /\ (t # main_thread => pc[t] \in {"user", "idle", "hlt"})
              /\ secs_done[t] = 0 /\ moved[t] = {}
              /\ ~Drives(t) /\ ~Inside(t) /\ ~Holds(t)
  <2>1. pc[t] \in {"idle", "main", "user"} /\ (t # main_thread => pc[t] \in {"user", "idle", "hlt"})
    BY <1>7
  <2>. QED  BY <1>8, <2>1, Zenon DEF Inside, Holds, Locked, Drives, DriverPoint, Waits
<1>12. ThreadsInv
  BY <1>11, Zenon DEF ThreadsInv, ThreadOK, Acquiring, Waits, Releasing, Free, SyncPoint, DriverPoint
<1>13. IdentifyInv
  BY <1>7, <1>8, <1>11, Names, Zenon DEF IdentifyInv
<1>14. LockInv
  <2>1. holder[channel_lock] = NULL /\ holder_repeat_nr[channel_lock] = 0
    BY <1>6, Names
  <2>. QED  BY <1>9, <1>11, <2>1, Names, Zenon DEF LockInv
<1>15. ChannelInv
  BY <1>8, <1>9, <1>11, Zenon DEF ChannelInv, Rest
<1>16. TagInOneList
  BY <1>6 DEF TagInOneList, elem_find, NoRepeat
<1>. QED  BY <1>1, <1>5, <1>10, <1>12, <1>13, <1>14, <1>15, <1>16, SMT, Z3 DEF DriverInv, IdeInv

(* A step that changes nothing, and what PANIC leaves behind. *)
LEMMA SameStep == DriverInv /\ UNCHANGED vars => DriverInv'
<1> SUFFICES ASSUME DriverInv, UNCHANGED vars  PROVE DriverInv'
  BY Zenon
<1>1. /\ UNCHANGED <<thread_ready_list, status, current, ticks, intr, saved_if, panic, value, waiters,
                     holder, holder_repeat_nr, pc, arg, ret, old_status>>
      /\ Kept
  BY SMT, Z3 DEF vars, threadVars, syncVars, frameVars, driveVars, ioVars, Kept
<1>2. CASE panic
  <2>1. Shown
    BY <1>2, Zenon DEF DriverInv
  <2>2. Driving' = Driving
    BY <1>1, Zenon DEF Driving
  <2>3. ChannelExclusive'
    BY <1>1, <2>1, <2>2 DEF Shown, ChannelExclusive, Kept
  <2>4. TransferIsMine'
    BY <1>1, <2>1, Zenon DEF Shown, TransferIsMine, round_sectors, Kept
  <2>5. RequestComplete' /\ PanicOnlyOnTimeout'
    BY <1>1, <2>1, Zenon DEF Shown, RequestComplete, PanicOnlyOnTimeout, Kept
  <2>. QED  BY <1>1, <1>2, <2>3, <2>4, <2>5 DEF DriverInv, Shown
<1>3. CASE ~panic
  <2>1. IdeInv
    BY <1>3, Zenon DEF DriverInv
  <2>2. SchedInv'
    BY <1>1, <2>1 DEF IdeInv, SchedInv, ThreadTypeOK, ReadyListConsistent
  <2>3. Typed'
    BY <1>1, <2>1, <2>2, Zenon DEF IdeInv, Typed, TypeOK, SyncTypeOK, SchedInv, Kept
  <2>4. \A u \in Thread : Same(u)
    BY <1>1, Zenon DEF Same, Kept
  <2>5. IdeInv'
    BY <1>1, <2>1, <2>2, <2>3, <2>4, ElsewhereStep, SMT, Z3 DEF Kept
  <2>. QED  BY <1>1, <1>3, <2>5 DEF DriverInv
<1>. QED  BY <1>2, <1>3

LEMMA DriverStepKeeps == DriverInv /\ [Next]_vars => DriverInv'
<1> SUFFICES ASSUME DriverInv, [Next]_vars  PROVE DriverInv'
  OBVIOUS
<1>1. CASE UNCHANGED vars
  BY <1>1, SameStep
<1>2. CASE panic /\ ~UNCHANGED vars
  BY <1>2, ZenonT(30) DEF Next, KernelStep, io_cmd, busy_wait, ticks_to_sleep, transfer, io_next, io_unlock, io_done,
              SyncStep, lock_acquire_test, sema_down_wait, sema_down_take, lock_acquire_holder,
              lock_acquire_repeat, lock_release_test, lock_release_repeat, sema_up_step, At,
              MainStep, MainDone, MainBlocks, idle_block, SysCall, Fork, Timer, intr_hd_handler,
              DriveStep, Spin, Halted
<1>3. CASE ~panic /\ Next
  <2>1. IdeInv
    BY <1>3 DEF DriverInv
  <2>2. SUFFICES ASSUME ~DriverInv'  PROVE FALSE
    BY Zenon
  <2>3. ~IdeInv'
    BY <2>2, Zenon DEF DriverInv, IdeInv, SchedInv
  <2>4. ASSUME NEW t \in Thread, SyncStep(t), UNCHANGED <<expecting_intr, driveVars, ioVars>>  PROVE FALSE
    BY <2>1, <2>3, <2>4, KeptFacts, AcquireTestStep, DownWaitStep, DownTakeStep, AcquireHolderStep,
       AcquireRepeatStep, ReleaseTestStep, ReleaseRepeatStep, UpStep, Zenon DEF SyncStep
  <2>5. ASSUME NEW t \in Thread, io_cmd(t) \/ busy_wait(t) \/ ticks_to_sleep(t) \/ transfer(t)
                                 \/ io_next(t) \/ io_unlock(t) \/ io_done(t)
        PROVE  FALSE
    BY <2>1, <2>2, <2>3, <2>5, CmdStep, BusyWaitStep, TicksStep, TransferStep, NextStep, UnlockStep, DoneStep, Zenon
  <2>6. ASSUME NEW t \in Thread, SysCall(t) \/ Fork(t)  PROVE FALSE
    BY <2>1, <2>3, <2>6, SysCallStep, ForkStep, SMT, Z3
  <2>7. ASSUME Spin \/ Halted  PROVE FALSE
    BY <2>2, <2>7, SameStep DEF Spin, Halted
  <2>8. ASSUME MainStep \/ MainDone \/ MainBlocks \/ idle_block  PROVE FALSE
    BY <2>1, <2>3, <2>8, MainRequestStep, MainEndStep, IdleStep, SMT, Z3
  <2>9. ASSUME Timer \/ intr_hd_handler \/ DriveStep  PROVE FALSE
    BY <2>1, <2>3, <2>9, TimerStep, HandlerStep, DriveFinishes
  <2>. QED  BY <1>3, <2>4, <2>5, <2>6, <2>7, <2>8, <2>9 DEF Next, KernelStep
<1>. QED  BY <1>1, <1>2, <1>3

LEMMA DriverAlways == Spec => []DriverInv
BY DriverInitially, DriverStepKeeps, PTL DEF Spec

LEMMA DriverShows == DriverInv => ChannelExclusive /\ TransferIsMine /\ RequestComplete /\ PanicOnlyOnTimeout
BY ShownNow DEF DriverInv, Shown

(* For every set of processes and every order of their system calls, the      *)
(* clock and the drive: the drive is never sent a command while it is busy,   *)
(* and one operation at a time is between cmd_out() and its end, though        *)
(* identify_disk() runs without the lock (ide.c).                            *)
THEOREM ChannelIsExclusive == Spec => []ChannelExclusive
BY DriverAlways, DriverShows, PTL

(* A late interrupt of an earlier command never passes for the one that is     *)
(* waited for: whoever moves data finds the drive with the sectors of its own  *)
(* round, and after a write the sectors are stored (intr_hd_handler(),        *)
(* ide_read() and ide_write()).                                             *)
THEOREM TransfersAreMine == Spec => []TransferIsMine
BY DriverAlways, DriverShows, PTL

(* For every length of a request and every number of sectors a command can     *)
(* move, the rounds of ide_read() and ide_write() tile the request.           *)
THEOREM RequestsAreComplete == Spec => []RequestComplete
BY DriverAlways, DriverShows, PTL

(* No ASSERT of ide.c, sync.c or thread.c fires in the driver: the kernel      *)
(* stops only when busy_wait() has counted down to zero.                     *)
THEOREM PanicsOnlyOnTimeout == Spec => []PanicOnlyOnTimeout
BY DriverAlways, DriverShows, PTL
=============================================================================
