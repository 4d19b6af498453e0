-------------------------------- MODULE Ide --------------------------------
(***************************************************************************)
(* The disk driver of src/device/ide.c with the drive behind it, the clock  *)
(* the driver sleeps on (src/device/timer.c) and the threads that use it:   *)
(* main, which boots the system with interrupts disabled and ends in an     *)
(* endless loop (src/kernel/main.c), init, which forks and then spins in    *)
(* user mode, and the processes forked from it, whose system calls read     *)
(* and write sectors.                                                       *)
(*                                                                         *)
(* All of the driver runs with interrupts disabled: other threads and the   *)
(* disk interrupt get in only where it blocks (the channel lock, disk_done) *)
(* or sleeps, so one step goes from one such place to the next.             *)
(***************************************************************************)
EXTENDS Sync

CONSTANTS Proc,          \* the processes init and its descendants fork
          init_thread,   \* the init process
          channel_lock,  \* ide_channel.lock
          disk_done,     \* ide_channel.disk_done
          max_lba,       \* the last sector of the drive
          SecsPerCmd,    \* sectors one command can move: 256, the range of an 8-bit register
          time_limit_ms, \* what busy_wait() starts its countdown with: 30 * 1000
          MainEnd,       \* how main may end: "spin", its while(1), or "block"
          MaxSecs        \* bound: sectors of one request

ASSUME IdeAssumption ==
  /\ Thread = {idle_thread, main_thread, init_thread} \cup Proc
  /\ Proc \cap {idle_thread, main_thread, init_thread} = {}
  /\ init_thread \notin {idle_thread, main_thread}
  /\ Lock = {channel_lock} /\ Sema = {disk_done}
  /\ max_lba \in Nat /\ SecsPerCmd \in Nat \ {0} /\ time_limit_ms \in Nat \ {0}
  /\ MaxSecs \in 1..(max_lba + 1)
  /\ MainEnd \subseteq {"spin", "block"}

VARIABLES expecting_intr, \* ide_channel.expecting_intr
          regs,           \* sector number and sector count registers of the drive
          drive,          \* what the drive does: "ready", "busy" or "drq" (wants a transfer)
          command,        \* the command the drive works on
          irq,            \* the drive's interrupt is pending at the 8259A
          clash,          \* a command was sent to a drive that was still busy
          req,            \* the disk operation a thread is in
          secs_done,      \* the local secs_done of ide_read() and ide_write()
          moved,          \* the sectors the operation has transferred so far
          time_limit,     \* the local time_limit of busy_wait()
          ticked,         \* the clock has ticked since ticks_to_sleep() read it
          identified      \* main has done identify_disk()

driveVars == <<regs, drive, command, irq, clash>>
ioVars == <<req, secs_done, moved, time_limit, ticked, identified>>
vars == <<threadVars, syncVars, frameVars, expecting_intr, driveVars, ioVars>>

Op == {"identify", "read", "write"}
Request == [op : Op, lba : 0..max_lba, sec_cnt : 1..MaxSecs]
NoRequest == [op |-> "none", lba |-> 0, sec_cnt |-> 0]

TypeOK ==
  /\ ThreadTypeOK
  /\ SyncTypeOK
  /\ pc \in [Thread -> SyncPoint \cup {"user", "main", "spin", "blocked", "idle", "hlt", "io_cmd",
                                       "busy_wait", "ticks_to_sleep", "transfer",
                                       "io_next", "io_unlock", "io_done"}]
  /\ expecting_intr \in BOOLEAN
  /\ regs \in [lba : 0..max_lba, sec_cnt : 0..(SecsPerCmd - 1)]
  /\ drive \in {"ready", "busy", "drq"}
  /\ command \in [by : Thread \cup {NULL}, op : Op \cup {"none"}, lba : 0..max_lba,
                  sec_cnt : 1..SecsPerCmd, sent : BOOLEAN]
  /\ irq \in BOOLEAN /\ clash \in BOOLEAN
  /\ req \in [Thread -> Request \cup {NoRequest}]
  /\ secs_done \in [Thread -> 0..MaxSecs]
  /\ moved \in [Thread -> SUBSET (0..max_lba)]
  /\ time_limit \in [Thread -> 0..time_limit_ms]
  /\ ticked \in [Thread -> BOOLEAN]
  /\ identified \in BOOLEAN

Init ==
  /\ thread_init(<<init_thread, idle_thread>>)
  /\ sync_init([s \in Sema |-> 0])
  /\ pc = [t \in Thread |-> CASE t = idle_thread -> "idle"
                              [] t = main_thread -> "main"
                              [] OTHER -> "user"]
  /\ arg = [t \in Thread |-> NULL]
  /\ ret = [t \in Thread |-> "user"]
  /\ expecting_intr = FALSE
  /\ regs = [lba |-> 0, sec_cnt |-> 0]
  /\ drive = "ready"
  /\ command = [by |-> NULL, op |-> "none", lba |-> 0, sec_cnt |-> 1, sent |-> TRUE]
  /\ irq = FALSE /\ clash = FALSE
  /\ req = [t \in Thread |-> NoRequest]
  /\ secs_done = [t \in Thread |-> 0]
  /\ moved = [t \in Thread |-> {}]
  /\ time_limit = [t \in Thread |-> 0]
  /\ ticked = [t \in Thread |-> FALSE]
  /\ identified = FALSE

-----------------------------------------------------------------------------
(* Mutant of enter: the channel lock is not taken. *)
enter_without_lock(t, r) ==
  /\ req' = [req EXCEPT ![t] = r]
  /\ goto(t, "io_cmd")
  /\ UNCHANGED <<arg, ret>>

(* A request enters ide_read() or ide_write(), which take the channel lock, *)
(* or identify_disk(), which does not.                                      *)
enter(t, r) ==
  /\ req' = [req EXCEPT ![t] = r]
  /\ IF r.op = "identify" THEN goto(t, "io_cmd") /\ UNCHANGED <<arg, ret>>
                          ELSE call(t, "lock_acquire", channel_lock, "io_cmd")

(* What callers ask for: sectors of a partition.  ide_read() and ide_write()  *)
(* assert less, that the first sector is on the drive; io_cmd asserts it for  *)
(* the first sector of every round, as select_sector() does.                *)
Valid(r) == r.lba + r.sec_cnt - 1 <= max_lba

(* A system call of a process: the interrupt gate disables interrupts.      *)
(* identify_disk() takes no lock; what keeps processes off the drive until   *)
(* it is over is that there is no mounted partition yet (cur_part) that a    *)
(* system call could read or write.                                         *)
SysCall(t) ==
  /\ At(t, "user")
  /\ t \in Proc
  /\ identified
  /\ \E r \in Request : Valid(r) /\ r.op # "identify" /\ enter(t, r)
  /\ intr' = FALSE
  /\ UNCHANGED <<thread_ready_list, status, current, ticks, saved_if, panic, syncVars,
                 old_status, expecting_intr, driveVars, secs_done, moved, time_limit, ticked,
                 identified>>

(* fork(): init and its descendants add a process to the ready list. *)
Fork(t) ==
  /\ At(t, "user")
  /\ \E c \in Proc : thread_start(c)
  /\ UNCHANGED <<syncVars, frameVars, expecting_intr, driveVars, ioVars>>

(* main: identify the drive, then read and write any number of times (what   *)
(* ide_init(), filesys_init(), sys_open() and sys_write() do depends on what *)
(* is on the disk), then while(1).                                          *)
MainStep ==
  /\ At(main_thread, "main")
  /\ \E r \in Request :
       /\ Valid(r)
       /\ IF identified THEN r.op # "identify"
                        ELSE r.op = "identify" /\ r.lba = 0 /\ r.sec_cnt = 1
       /\ enter(main_thread, r)
  /\ UNCHANGED <<threadVars, syncVars, old_status, expecting_intr, driveVars, secs_done,
                 moved, time_limit, ticked, identified>>

MainDone ==
  /\ At(main_thread, "main")
  /\ identified
  /\ "spin" \in MainEnd
  /\ goto(main_thread, "spin")
  /\ UNCHANGED <<threadVars, syncVars, arg, ret, old_status, expecting_intr, driveVars,
                 ioVars>>

(* Not in main.c: main leaves the CPU for good.  main never gives up the     *)
(* channel between two requests, so with "spin" alone no system call gets    *)
(* past lock_acquire(); "block" adds the processes that share the driver.    *)
MainBlocks ==
  /\ At(main_thread, "main")
  /\ identified
  /\ "block" \in MainEnd
  /\ thread_block(FALSE, FALSE)
  /\ goto(main_thread, "blocked")
  /\ UNCHANGED <<syncVars, arg, ret, old_status, expecting_intr, driveVars, ioVars>>

(* The endless loop at the end of main(). *)
Spin == At(main_thread, "spin") /\ UNCHANGED vars

-----------------------------------------------------------------------------
(* secs_op of the round that starts after done of cnt sectors. *)
secs_op(done, cnt) == IF done + SecsPerCmd <= cnt THEN SecsPerCmd ELSE cnt - done

(* The sector count port is 8 bits wide. *)
reg_sect_cnt(n) == n % SecsPerCmd

(* To the drive, 0 sectors means 256. *)
sectors(reg) == IF reg = 0 THEN SecsPerCmd ELSE reg

(* size_in_byte of read_from_sector() and write2sector(), in sectors: the    *)
(* parameter sec_cnt has 8 bits, and 0 stands for 256.                      *)
size_in_sectors(n) == IF n % SecsPerCmd = 0 THEN SecsPerCmd ELSE n % SecsPerCmd

(* Mutant of cmd_out: expecting_intr is not set. *)
cmd_out_not_expecting(t) ==
  /\ regs' = [lba |-> req[t].lba + secs_done[t],
              sec_cnt |-> reg_sect_cnt(secs_op(secs_done[t], req[t].sec_cnt))]
  /\ command' = [by |-> t, op |-> req[t].op, lba |-> regs'.lba,
                 sec_cnt |-> sectors(regs'.sec_cnt), sent |-> req[t].op # "write"]
  /\ drive' = "busy"
  /\ irq' = FALSE
  /\ UNCHANGED <<expecting_intr, clash>>

(* select_disk(), select_sector() and cmd_out(). Writing the command        *)
(* register withdraws an interrupt of the drive that is still pending.     *)
cmd_out(t) ==
  LET r == req[t]
      n == secs_op(secs_done[t], r.sec_cnt)
      lba == r.lba + secs_done[t]
      cnt == reg_sect_cnt(n)
  IN  /\ regs' = IF r.op = "identify" THEN regs ELSE [lba |-> lba, sec_cnt |-> cnt]
      /\ expecting_intr' = TRUE
      /\ clash' = (clash \/ drive = "busy")
      /\ command' = [by |-> t, op |-> r.op, lba |-> regs'.lba,
                     sec_cnt |-> IF r.op = "identify" THEN 1 ELSE sectors(regs'.sec_cnt),
                     sent |-> r.op # "write"]
      /\ drive' = "busy"
      /\ irq' = FALSE

(* One round of ide_read(), ide_write() or identify_disk() up to where it   *)
(* waits: for the interrupt, or, for a write, for the drive to want data.   *)
io_cmd(t) ==
  /\ At(t, "io_cmd")
  /\ assert(req[t].lba + secs_done[t] <= max_lba)
  /\ cmd_out(t)
  /\ IF req[t].op = "write"
     THEN goto(t, "busy_wait") /\ UNCHANGED <<arg, ret>>
     ELSE call(t, "sema_down", disk_done, "busy_wait")
  /\ time_limit' = [time_limit EXCEPT ![t] = time_limit_ms]
  /\ UNCHANGED <<syncVars, old_status, req, secs_done, moved, ticked, identified>>

(* One turn of the loop of busy_wait(): "time_limit -= 10 >= 0" takes one   *)
(* off. Reading the status register acknowledges the drive's interrupt.     *)
busy_wait(t) ==
  /\ At(t, "busy_wait")
  /\ time_limit' = [time_limit EXCEPT ![t] = @ - 1]
  /\ \/ /\ time_limit'[t] > 0 /\ drive # "busy"
        /\ assert(drive = "drq")
        /\ irq' = FALSE
        /\ goto(t, "transfer")
        /\ UNCHANGED ticked
     \/ /\ time_limit'[t] > 0 /\ drive = "busy"
        /\ assert(TRUE)
        /\ irq' = FALSE
        /\ ticked' = [ticked EXCEPT ![t] = FALSE]
        /\ goto(t, "ticks_to_sleep")
     \/ /\ time_limit'[t] = 0
        /\ assert(FALSE)
        /\ UNCHANGED <<irq, pc, ticked>>
  /\ UNCHANGED <<syncVars, arg, ret, old_status, expecting_intr, regs, drive, command,
                 clash, req, secs_done, moved, identified>>

(* Mutant of ticks_to_sleep: wait for the tick without giving up the CPU. *)
ticks_to_sleep_spins(t) ==
  /\ At(t, "ticks_to_sleep")
  /\ goto(t, IF ticked[t] THEN "busy_wait" ELSE "ticks_to_sleep")
  /\ UNCHANGED <<threadVars, syncVars, arg, ret, old_status, expecting_intr, driveVars, ioVars>>

(* mtime_sleep(10) is one tick: yield until it has come. *)
ticks_to_sleep(t) ==
  /\ At(t, "ticks_to_sleep")
  /\ \/ ~ticked[t] /\ thread_yield /\ UNCHANGED pc
     \/ ticked[t] /\ goto(t, "busy_wait") /\ UNCHANGED threadVars
  /\ UNCHANGED <<syncVars, arg, ret, old_status, expecting_intr, driveVars, ioVars>>

(* The sectors one round moves between the drive's buffer and memory. *)
round_sectors(t) ==
  LET first == req[t].lba + secs_done[t]
  IN  first..(first + size_in_sectors(secs_op(secs_done[t], req[t].sec_cnt)) - 1)

(* read_from_sector() or write2sector(): the drive's buffer is emptied or    *)
(* filled. Emptying it ends a read or identify command (of several sectors,  *)
(* the drive has raised its interrupt again for the later ones); filling it  *)
(* makes the drive busy with the sectors.                                   *)
transfer(t) ==
  /\ At(t, "transfer")
  /\ moved' = [moved EXCEPT ![t] = @ \cup round_sectors(t)]
  /\ \/ /\ req[t].op = "write"
        /\ drive' = "busy"
        /\ command' = [command EXCEPT !.sent = TRUE]
        /\ UNCHANGED irq
        /\ call(t, "sema_down", disk_done, "io_next")
     \/ /\ req[t].op # "write"
        /\ drive' = "ready"
        /\ irq' = (command.sec_cnt > 1)
        /\ goto(t, "io_next")
        /\ UNCHANGED <<command, arg, ret>>
  /\ UNCHANGED <<threadVars, syncVars, old_status, expecting_intr, regs, clash, req,
                 secs_done, time_limit, ticked, identified>>

(* Mutant of io_next: the loop ends one sector early. *)
io_next_stops_early(t) ==
  /\ At(t, "io_next")
  /\ secs_done' = [secs_done EXCEPT ![t] = @ + secs_op(@, req[t].sec_cnt)]
  /\ goto(t, IF req[t].op = "identify" THEN "io_done"
             ELSE IF secs_done'[t] < req[t].sec_cnt - 1 THEN "io_cmd" ELSE "io_unlock")
  /\ UNCHANGED <<threadVars, syncVars, arg, ret, old_status, expecting_intr, driveVars, req,
                 moved, time_limit, ticked, identified>>

(* secs_done += secs_op; another round, or done. *)
io_next(t) ==
  /\ At(t, "io_next")
  /\ secs_done' = [secs_done EXCEPT ![t] = @ + secs_op(@, req[t].sec_cnt)]
  /\ goto(t, IF req[t].op = "identify" THEN "io_done"
             ELSE IF secs_done'[t] < req[t].sec_cnt THEN "io_cmd" ELSE "io_unlock")
  /\ UNCHANGED <<threadVars, syncVars, arg, ret, old_status, expecting_intr, driveVars, req,
                 moved, time_limit, ticked, identified>>

io_unlock(t) ==
  /\ At(t, "io_unlock")
  /\ call(t, "lock_release", channel_lock, "io_done")
  /\ UNCHANGED <<threadVars, syncVars, old_status, expecting_intr, driveVars, ioVars>>

(* Back to the caller; a system call returns to user mode, interrupts on.   *)
(* The locals of the call are gone.                                         *)
io_done(t) ==
  /\ At(t, "io_done")
  /\ req' = [req EXCEPT ![t] = NoRequest]
  /\ secs_done' = [secs_done EXCEPT ![t] = 0]
  /\ moved' = [moved EXCEPT ![t] = {}]
  /\ time_limit' = [time_limit EXCEPT ![t] = 0]
  /\ ticked' = [ticked EXCEPT ![t] = FALSE]
  /\ goto(t, IF t = main_thread THEN "main" ELSE "user")
  /\ intr' = (t # main_thread)
  /\ identified' = TRUE
  /\ UNCHANGED <<thread_ready_list, status, current, ticks, saved_if, panic, syncVars, arg,
                 ret, old_status, expecting_intr, driveVars>>

-----------------------------------------------------------------------------
(* The drive finishes what it is busy with: it has the data of a read (and   *)
(* interrupts), wants the data of a write (no interrupt), or has written it  *)
(* (and interrupts).                                                        *)
DriveStep ==
  /\ ~panic
  /\ drive = "busy"
  /\ drive' = IF command.op = "write" /\ command.sent THEN "ready" ELSE "drq"
  /\ irq' = (irq \/ command.sent)
  /\ UNCHANGED <<threadVars, syncVars, frameVars, expecting_intr, regs, command, clash, ioVars>>

(* An interrupt ends the hlt of idle(). *)
leave_hlt == pc' = [pc EXCEPT ![current] = IF @ = "hlt" THEN "idle" ELSE @]

(* Mutant of intr_hd_handler: expecting_intr is not cleared. *)
intr_hd_handler_keeps_expecting ==
  /\ ~panic
  /\ intr /\ irq
  /\ irq' = FALSE
  /\ leave_hlt
  /\ IF expecting_intr
     THEN sema_up(disk_done)
     ELSE UNCHANGED <<threadVars, syncVars>>
  /\ UNCHANGED <<expecting_intr, arg, ret, old_status, regs, drive, command, clash, ioVars>>

(* The disk interrupt: wake the driver if it expects one. *)
intr_hd_handler ==
  /\ ~panic
  /\ intr /\ irq
  /\ irq' = FALSE
  /\ leave_hlt
  /\ expecting_intr' = FALSE
  /\ IF expecting_intr
     THEN sema_up(disk_done)
     ELSE UNCHANGED <<threadVars, syncVars>>
  /\ UNCHANGED <<arg, ret, old_status, regs, drive, command, clash, ioVars>>

(* The clock interrupt: every sleeper sees another tick. *)
Timer ==
  /\ ~panic
  /\ intr_timer_handler
  /\ leave_hlt
  /\ ticked' = [t \in Thread |-> pc[t] = "ticks_to_sleep"]
  /\ UNCHANGED <<syncVars, arg, ret, old_status, expecting_intr, driveVars, req, secs_done,
                 moved, time_limit, identified>>

idle_block ==
  /\ At(idle_thread, "idle")
  /\ thread_block(intr, FALSE)
  /\ goto(idle_thread, "hlt")
  /\ UNCHANGED <<syncVars, arg, ret, old_status, expecting_intr, driveVars, ioVars>>

(* panic_spin(): interrupts off and an endless loop. *)
Halted == panic /\ UNCHANGED vars

-----------------------------------------------------------------------------
(* What the CPU does in the kernel without being asked. *)
KernelStep ==
  \/ \E t \in Thread :
       \/ io_cmd(t) \/ busy_wait(t) \/ ticks_to_sleep(t) \/ transfer(t)
       \/ io_next(t) \/ io_unlock(t) \/ io_done(t)
       \/ SyncStep(t) /\ UNCHANGED <<expecting_intr, driveVars, ioVars>>
  \/ MainStep
  \/ MainDone
  \/ MainBlocks
  \/ idle_block

Next ==
  \/ KernelStep
  \/ \E t \in Thread : SysCall(t) \/ Fork(t)
  \/ Timer
  \/ intr_hd_handler
  \/ DriveStep
  \/ Spin
  \/ Halted

(* The CPU never stops, the drive answers, and the 8259A keeps an interrupt *)
(* pending until the CPU accepts it.                                       *)
Fairness ==
  /\ WF_vars(KernelStep)
  /\ WF_vars(DriveStep)
  /\ SF_vars(Timer)
  /\ SF_vars(intr_hd_handler)

Spec == Init /\ [][Next]_vars /\ Fairness

-----------------------------------------------------------------------------
(* The threads whose disk operation owns the channel. *)
Driving ==
  {t \in Thread :
     \/ pc[t] \in {"io_cmd", "busy_wait", "ticks_to_sleep", "transfer", "io_next", "io_unlock"}
     \/ pc[t] \in {"sema_down", "sema_wait"} /\ arg[t] = disk_done}

(* The drive is never sent a command while it is busy with another one, and  *)
(* at most one thread is between cmd_out() and the end of its operation:     *)
(* what the channel lock is for, although identify_disk() does not take it   *)
(* and the drive may interrupt for a command that is over.                  *)
ChannelExclusive ==
  /\ ~clash
  /\ \A t, u \in Driving : t = u

(* "Do not worry whether this interrupt belongs to this expecting_intr"     *)
(* (intr_hd_handler()): a thread that passes disk_done finds its own command *)
(* finished. When data is moved the drive holds the sectors this round asks  *)
(* for, and when a write has been waited for the drive has stored them.      *)
TransferIsMine ==
  \A t \in Thread :
    /\ pc[t] = "transfer" =>
         /\ drive = "drq" /\ command.by = t /\ command.op = req[t].op
         /\ req[t].op # "identify" =>
              command.lba..(command.lba + command.sec_cnt - 1) = round_sectors(t)
    /\ pc[t] = "io_next" => drive = "ready" /\ command.by = t

(* A finished request has moved each of its sectors and no other: the        *)
(* 256-sector rounds of ide_read() and ide_write() tile it, the round whose  *)
(* count is 0 in the 8-bit register included.                               *)
RequestComplete ==
  \A t \in Thread :
    pc[t] = "io_done" /\ req[t].op # "identify" =>
      moved[t] = req[t].lba..(req[t].lba + req[t].sec_cnt - 1)

(* The only way the driver stops the kernel is a drive that stays busy for   *)
(* the whole countdown of busy_wait(): no ASSERT of the driver, of           *)
(* sema_up() on disk_done in the interrupt handler, or of the scheduler.    *)
PanicOnlyOnTimeout ==
  panic => \E t \in Thread : pc[t] = "busy_wait" /\ time_limit[t] = 0

(* The operation that owns the channel is finished, however the interrupt,   *)
(* the clock and the other threads fall, unless main has reached its endless *)
(* loop or the drive timed out. (A request that still waits for the channel  *)
(* may be overtaken for ever: lock_release() wakes a waiter but does not     *)
(* hand the lock over.)                                                     *)
OperationsFinish ==
  \A t \in Thread : t \in Driving ~> (t \notin Driving \/ pc[main_thread] = "spin" \/ panic)

(* A ready thread gets the CPU, as long as main has not reached its endless  *)
(* loop: waking threads at the head of the ready list starves nobody here.  *)
ReadyRunsDuringBoot ==
  \A t \in Thread :
    status[t] = "READY" ~> (status[t] = "RUNNING" \/ pc[main_thread] = "spin" \/ panic)

(* "Interrupts are enabled before the function runs, lest the clock          *)
(* interrupt be masked and no other thread be scheduled" (kernel_thread()):  *)
(* a ready thread gets the CPU unless the kernel panicked.                   *)
ReadyRuns ==
  \A t \in Thread : status[t] = "READY" ~> (status[t] = "RUNNING" \/ panic)

(* "Wait 30 seconds", "can wait 30000 milliseconds" (busy_wait()): every    *)
(* turn of the loop sleeps 10 ms, and the sleeps of one wait do not add up   *)
(* to more than the limit.                                                  *)
BusyWaitWithinLimit ==
  \A t \in Thread :
    pc[t] = "ticks_to_sleep" => 10 * (time_limit_ms - time_limit[t]) <= time_limit_ms
=============================================================================
