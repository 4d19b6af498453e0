------------------------------ MODULE IoQueue ------------------------------
(***************************************************************************)
(* The keyboard buffer: the ring buffer of src/device/ioqueue.c, filled by  *)
(* the keyboard interrupt (the end of intr_keyboard_handler() in            *)
(* src/device/keyboard.c) and emptied by read() on the standard input       *)
(* (sys_read() in src/fs/fs.c).                                             *)
(*                                                                         *)
(* A reader runs with interrupts enabled in user mode and disabled inside   *)
(* the system call; the keyboard and the clock interrupt whoever runs with  *)
(* them enabled. The handler tests ioqueue_full() itself and drops the key, *)
(* so ioqueue_putchar() never waits and ioqueue.producer stays NULL.        *)
(*                                                                         *)
(* init spins in user mode.  main boots the system with interrupts disabled: *)
(* it waits for the disk any number of times and ends in an endless loop.    *)
(* Module Ide has the details, and the sleeps of busy_wait(), in which main   *)
(* does nothing but yield the CPU.                                          *)
(***************************************************************************)
EXTENDS Sync

CONSTANTS Reader,       \* the processes that read the standard input
          init_thread,  \* the init process
          kbd_lock,     \* kbd_buf.lock
          disk_done,    \* ide_channel.disk_done
          Char,         \* what keys produce
          bufsize,      \* the slots of the ring: 64
          MaxCount      \* bound: the count of one read()

ASSUME IoQueueAssumption ==
  /\ Thread = {idle_thread, main_thread, init_thread} \cup Reader
  /\ Reader \cap {idle_thread, main_thread, init_thread} = {}
  /\ init_thread \notin {idle_thread, main_thread}
  /\ Lock = {kbd_lock} /\ Sema = {disk_done}
  /\ bufsize \in Nat \ {0, 1} /\ MaxCount \in Nat \ {0}

VARIABLES buf, head, tail, \* struct ioqueue: slots, where to write, where to read
          consumer,        \* ioqueue.consumer: the reader asleep, or NULL
          count,           \* the argument count of the sys_read() a reader is in
          got              \* what that call has read so far

queueVars == <<buf, head, tail, consumer>>
readVars == <<count, got>>
vars == <<threadVars, syncVars, frameVars, queueVars, readVars>>

Slot == 0..(bufsize - 1)

TypeOK ==
  /\ ThreadTypeOK
  /\ SyncTypeOK
  /\ pc \in [Thread -> SyncPoint \cup {"user", "main", "spin", "idle", "hlt", "getchar",
                                       "ioq_wait", "ioq_woken"}]
  /\ buf \in [Slot -> Char] /\ head \in Slot /\ tail \in Slot
  /\ consumer \in Reader \cup {NULL}
  /\ count \in [Reader -> 0..MaxCount]
  /\ \A r \in Reader : got[r] \in Seq(Char) /\ Len(got[r]) <= count[r]

(* main boots the system; init and idle_thread are ready.  No key has been    *)
(* typed: the slots hold whatever character.                                *)
Init ==
  /\ thread_init(<<init_thread, idle_thread>>)
  /\ sync_init([s \in Sema |-> 0])
  /\ pc = [t \in Thread |-> CASE t = idle_thread -> "idle"
                              [] t = main_thread -> "main"
                              [] OTHER -> "user"]
  /\ arg = [t \in Thread |-> NULL]
  /\ ret = [t \in Thread |-> "user"]
  /\ \E c \in Char : buf = [i \in Slot |-> c]
  /\ head = 0 /\ tail = 0 /\ consumer = NULL
  /\ count = [r \in Reader |-> 0]
  /\ got = [r \in Reader |-> <<>>]

-----------------------------------------------------------------------------
next_pos(pos) == (pos + 1) % bufsize

(* Mutant of ioqueue_full: the ring is never full. *)
ioqueue_full_never == FALSE

ioqueue_full == next_pos(head) = tail

ioqueue_empty == head = tail

(* init and its descendants fork the readers. *)
Fork(t) ==
  /\ At(t, "user")
  /\ \E c \in Reader : thread_start(c)
  /\ UNCHANGED <<syncVars, frameVars, queueVars, readVars>>

(* sys_read(stdin_no, buf, n): the interrupt gate disables interrupts. *)
sys_read(t) ==
  /\ At(t, "user")
  /\ t \in Reader
  /\ \E n \in 1..MaxCount : count' = [count EXCEPT ![t] = n]
  /\ goto(t, "getchar")
  /\ intr' = FALSE
  /\ UNCHANGED <<thread_ready_list, status, current, ticks, saved_if, panic, syncVars, arg,
                 ret, old_status, queueVars, got>>

(* ioqueue_getchar() finds the ring empty and goes for the lock. *)
getchar_empty(t) ==
  /\ At(t, "getchar")
  /\ ioqueue_empty
  /\ Len(got[t]) < count[t]
  /\ call(t, "lock_acquire", kbd_lock, "ioq_wait")
  /\ UNCHANGED <<threadVars, syncVars, old_status, queueVars, readVars>>

(* ioqueue_wait(&ioq->consumer), with the lock held. *)
ioqueue_wait(t) ==
  /\ At(t, "ioq_wait")
  /\ consumer' = t
  /\ thread_block(intr, consumer # NULL)
  /\ goto(t, "ioq_woken")
  /\ UNCHANGED <<syncVars, arg, ret, old_status, buf, head, tail, readVars>>

(* Woken up: release the lock and look at the ring again. *)
getchar_woken(t) ==
  /\ At(t, "ioq_woken")
  /\ call(t, "lock_release", kbd_lock, "getchar")
  /\ UNCHANGED <<threadVars, syncVars, old_status, queueVars, readVars>>

(* ioqueue_getchar() takes the oldest character; sys_read() asks for the     *)
(* next one until it has count of them.                                     *)
getchar(t) ==
  /\ At(t, "getchar")
  /\ ~ioqueue_empty
  /\ Len(got[t]) < count[t]
  /\ got' = [got EXCEPT ![t] = Append(@, buf[tail])]
  /\ tail' = next_pos(tail)
  /\ UNCHANGED <<threadVars, syncVars, frameVars, buf, head, consumer, count>>

(* sys_read() has its count and returns to user mode, interrupts on. *)
read_done(t) ==
  /\ At(t, "getchar")
  /\ Len(got[t]) = count[t]
  /\ count' = [count EXCEPT ![t] = 0]
  /\ got' = [got EXCEPT ![t] = <<>>]
  /\ goto(t, "user")
  /\ intr' = TRUE
  /\ UNCHANGED <<thread_ready_list, status, current, ticks, saved_if, panic, syncVars, arg,
                 ret, old_status, queueVars>>

-----------------------------------------------------------------------------
(* An interrupt ends the hlt of idle(). *)
leave_hlt == pc' = [pc EXCEPT ![current] = IF @ = "hlt" THEN "idle" ELSE @]

(* Mutant of ioqueue_putchar: wakeup() does not clear the waiter. *)
ioqueue_putchar_keeps_waiter(c) ==
  /\ buf' = [buf EXCEPT ![head] = c]
  /\ head' = next_pos(head)
  /\ IF consumer # NULL THEN thread_unblock(consumer, FALSE) /\ intr' = intr
                        ELSE UNCHANGED threadVars
  /\ UNCHANGED <<tail, consumer>>

(* Mutant of ioqueue_putchar: no wakeup() at all. *)
ioqueue_putchar_wakes_nobody(c) ==
  /\ buf' = [buf EXCEPT ![head] = c]
  /\ head' = next_pos(head)
  /\ UNCHANGED <<threadVars, tail, consumer>>

(* ioqueue_putchar() of a ring that is not full. *)
ioqueue_putchar(c) ==
  /\ buf' = [buf EXCEPT ![head] = c]
  /\ head' = next_pos(head)
  /\ \/ /\ consumer # NULL
        /\ thread_unblock(consumer, FALSE)
        /\ intr' = intr
        /\ consumer' = NULL
     \/ /\ consumer = NULL
        /\ UNCHANGED <<threadVars, consumer>>
  /\ UNCHANGED tail

(* The keyboard interrupt with a key that has a character. *)
intr_keyboard_handler ==
  /\ ~panic
  /\ intr
  /\ \/ ~ioqueue_full /\ \E c \in Char : ioqueue_putchar(c)
     \/ ioqueue_full /\ UNCHANGED <<threadVars, queueVars>>
  /\ leave_hlt
  /\ UNCHANGED <<syncVars, arg, ret, old_status, readVars>>

Timer ==
  /\ ~panic
  /\ intr_timer_handler
  /\ leave_hlt
  /\ UNCHANGED <<syncVars, arg, ret, old_status, queueVars, readVars>>

(* The disk interrupt, when main waits for it. *)
intr_hd_handler ==
  /\ ~panic
  /\ intr
  /\ pc[main_thread] = "sema_wait" /\ status[main_thread] = "BLOCKED"
  /\ sema_up(disk_done)
  /\ leave_hlt
  /\ UNCHANGED <<arg, ret, old_status, queueVars, readVars>>

idle_block ==
  /\ At(idle_thread, "idle")
  /\ thread_block(intr, FALSE)
  /\ goto(idle_thread, "hlt")
  /\ UNCHANGED <<syncVars, arg, ret, old_status, queueVars, readVars>>

(* main: a disk operation waits for the disk, ... *)
MainWaits ==
  /\ At(main_thread, "main")
  /\ call(main_thread, "sema_down", disk_done, "main")
  /\ UNCHANGED <<threadVars, syncVars, old_status, queueVars, readVars>>

(* ... and after the last one comes while(1). *)
MainDone ==
  /\ At(main_thread, "main")
  /\ goto(main_thread, "spin")
  /\ UNCHANGED <<threadVars, syncVars, arg, ret, old_status, queueVars, readVars>>

Spin == At(main_thread, "spin") /\ UNCHANGED vars

(* What the CPU does in the kernel without being asked. *)
KernelStep ==
  \/ \E t \in Reader : getchar_empty(t) \/ ioqueue_wait(t) \/ getchar_woken(t)
                       \/ getchar(t) \/ read_done(t)
  \/ \E t \in Thread : SyncStep(t) /\ UNCHANGED <<queueVars, readVars>>
  \/ MainWaits
  \/ MainDone
  \/ idle_block

Next ==
  \/ KernelStep
  \/ \E t \in Thread : Fork(t) \/ sys_read(t)
  \/ intr_keyboard_handler
  \/ intr_hd_handler
  \/ Timer
  \/ Spin

(* The CPU never stops and the 8259A keeps the clock's interrupt pending     *)
(* until it is accepted; nobody has to type or to read, and the disk need    *)
(* not answer.                                                              *)
Spec == Init /\ [][Next]_vars /\ WF_vars(KernelStep) /\ SF_vars(Timer)

-----------------------------------------------------------------------------
(* The characters in the ring, the oldest first. *)
contents == [i \in 1..((head + bufsize - tail) % bufsize) |-> buf[(tail + i - 1) % bufsize]]

(* The ring buffer with its wrapping indices, the interrupt handler and the   *)
(* sleeping and waking of readers together implement the bounded queue of    *)
(* KeyQueue, which holds one character less than the ring has slots: no key   *)
(* that found room is lost, read twice or read out of order.                *)
Queue == INSTANCE KeyQueue WITH queue <- contents, Capacity <- bufsize - 1

ImplementsQueue == Queue!Spec

(* "Take the lock so that no other consumer also enters the wait"            *)
(* (ioqueue_getchar()): only the reader recorded in consumer sleeps there,   *)
(* with the lock, so that no ASSERT of ioqueue_wait(), wakeup() or           *)
(* thread_unblock() fires and no sleeper is forgotten.                      *)
SleeperIsRecorded ==
  /\ ~panic
  /\ \A r \in Reader : pc[r] = "ioq_woken" /\ status[r] = "BLOCKED" => consumer = r
  /\ consumer # NULL => /\ pc[consumer] = "ioq_woken" /\ status[consumer] = "BLOCKED"
                        /\ holder[kbd_lock] = consumer

(* "Consumer: goes on while the buffer is not empty, otherwise sleeps"        *)
(* (struct ioqueue): nobody sleeps as the consumer with characters to read.  *)
SleepsOnlyWhenEmpty == consumer # NULL => ioqueue_empty

(* A reader asleep while keys are typed is woken and reads on: a read() in    *)
(* progress with characters in the ring ends, or empties the ring, however    *)
(* main's waiting for the disk and the clock fall.  There are two exceptions: *)
(* another reader (two can leave each other asleep), and main's endless loop, *)
(* behind which nobody runs.                                                *)
TypedIsRead ==
  \A r \in Reader :
    [](\A s \in Reader \ {r} : count[s] = 0) =>
      ((count[r] > 0 /\ ~ioqueue_empty) ~> (ioqueue_empty \/ count[r] = 0 \/ pc[main_thread] = "spin"))
=============================================================================
