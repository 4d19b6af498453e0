------------------------------ MODULE Threads ------------------------------
(***************************************************************************)
(* The thread scheduler of src/thread/thread.c with the clock interrupt of *)
(* src/device/timer.c, on the one CPU the kernel drives.                   *)
(*                                                                         *)
(* The intrusive lists of src/lib/kernel/list.c are sequences of threads:  *)
(* a thread's general_tag links it into the ready list and into the        *)
(* waiting list of a semaphore alike, so a thread may be in one of them    *)
(* only; the modules that add waiting lists state that as an invariant.    *)
(*                                                                         *)
(* An ASSERT or PANIC of the code sets panic; nothing runs after that      *)
(* (debug.c disables interrupts and loops).                                *)
(***************************************************************************)
EXTENDS Naturals, Sequences

CONSTANTS Thread,        \* every PCB there can ever be
          idle_thread,   \* the thread of idle()
          main_thread,   \* the thread main() is turned into
          priority       \* task_struct.priority: the length of a time slice

ASSUME ThreadAssumption ==
  /\ idle_thread \in Thread
  /\ main_thread \in Thread
  /\ idle_thread # main_thread
  /\ priority \in [Thread -> Nat]

VARIABLES thread_ready_list, \* the ready list, its head first
          status,            \* task_struct.status; NONE before the PCB exists
          current,           \* running_thread()
          ticks,             \* task_struct.ticks: what is left of the slice
          intr,              \* IF of the CPU
          saved_if,          \* IF a switched-out thread runs with when it resumes
          panic              \* an ASSERT or a PANIC was hit

threadVars == <<thread_ready_list, status, current, ticks, intr, saved_if, panic>>

Status == {"NONE", "RUNNING", "READY", "BLOCKED"}

ThreadTypeOK ==
  /\ thread_ready_list \in Seq(Thread)
  /\ status \in [Thread -> Status]
  /\ current \in Thread
  /\ ticks \in [Thread -> Nat]
  /\ intr \in BOOLEAN
  /\ saved_if \in [Thread -> BOOLEAN]
  /\ panic \in BOOLEAN

-----------------------------------------------------------------------------
(* The list operations the scheduler and the semaphores use. *)

elem_find(list, t) == \E i \in 1..Len(list) : list[i] = t

list_push(list, t) == <<t>> \o list

list_append(list, t) == Append(list, t)

(* No element is linked in twice. *)
NoRepeat(list) == \A i, j \in 1..Len(list) : list[i] = list[j] => i = j

-----------------------------------------------------------------------------
(* schedule(), called by the current thread when the ready list is rdy and *)
(* the states are st. resume is the interrupt flag the caller continues    *)
(* with once it is switched in again; failed says that an ASSERT of the    *)
(* caller was violated on the way here.                                    *)
schedule(rdy, st, resume, failed) ==
  LET requeue == st[current] = "RUNNING"
      rdy1 == IF requeue THEN list_append(rdy, current) ELSE rdy
      st1  == IF requeue THEN [st EXCEPT ![current] = "READY"] ELSE st
      wake == rdy1 = <<>>
      rdy2 == IF wake THEN list_push(rdy1, idle_thread) ELSE rdy1
      next == Head(rdy2)
  IN  /\ thread_ready_list' = Tail(rdy2)
      /\ status' = [st1 EXCEPT ![next] = "RUNNING"]
      /\ ticks' = IF requeue THEN [ticks EXCEPT ![current] = priority[current]]
                             ELSE ticks
      /\ saved_if' = [saved_if EXCEPT ![current] = resume]
      /\ current' = next
      /\ intr' = saved_if'[next]
      /\ panic' = \/ failed
                  \/ requeue /\ elem_find(rdy, current)
                  \/ wake /\ st1[idle_thread] # "BLOCKED"

(* thread_block(TASK_BLOCKED) by the current thread. *)
thread_block(resume, failed) ==
  schedule(thread_ready_list, [status EXCEPT ![current] = "BLOCKED"], resume, failed)

(* thread_unblock(t): t goes to the head of the ready list; the caller      *)
(* keeps the CPU.                                                          *)
thread_unblock(t, failed) ==
  /\ thread_ready_list' = list_push(thread_ready_list, t)
  /\ status' = [status EXCEPT ![t] = "READY"]
  /\ panic' = (failed \/ status[t] # "BLOCKED" \/ elem_find(thread_ready_list, t))
  /\ UNCHANGED <<current, ticks, saved_if>>

(* Mutant of thread_yield: the status stays RUNNING. *)
thread_yield_still_running ==
  schedule(list_append(thread_ready_list, current), status, intr,
           elem_find(thread_ready_list, current))

(* thread_yield(): to the tail of the ready list, the slice not refilled. *)
thread_yield ==
  schedule(list_append(thread_ready_list, current),
           [status EXCEPT ![current] = "READY"],
           intr,
           elem_find(thread_ready_list, current))

(* A new PCB enters the tail of the ready list; it will start in           *)
(* kernel_thread(), which enables interrupts.                              *)
thread_start(t) ==
  /\ status[t] = "NONE"
  /\ thread_ready_list' = list_append(thread_ready_list, t)
  /\ status' = [status EXCEPT ![t] = "READY"]
  /\ ticks' = [ticks EXCEPT ![t] = priority[t]]
  /\ saved_if' = [saved_if EXCEPT ![t] = TRUE]
  /\ panic' = elem_find(thread_ready_list, t)
  /\ UNCHANGED <<current, intr>>

(* intr_timer_handler(), entered through an interrupt gate while the        *)
(* current thread runs with interrupts enabled.                            *)
intr_timer_handler ==
  /\ intr
  /\ \/ /\ ticks[current] = 0
        /\ schedule(thread_ready_list, status, TRUE, FALSE)
     \/ /\ ticks[current] > 0
        /\ ticks' = [ticks EXCEPT ![current] = @ - 1]
        /\ UNCHANGED <<thread_ready_list, status, current, intr, saved_if, panic>>

(* thread_init(): main runs, with interrupts still disabled, and the        *)
(* threads of boot wait in the ready list in the order of their creation.  *)
thread_init(boot) ==
  /\ thread_ready_list = boot
  /\ status = [t \in Thread |-> IF t = main_thread THEN "RUNNING"
                                ELSE IF elem_find(boot, t) THEN "READY" ELSE "NONE"]
  /\ current = main_thread
  /\ ticks = priority
  /\ intr = FALSE
  /\ saved_if = [t \in Thread |-> TRUE]
  /\ panic = FALSE

-----------------------------------------------------------------------------
(* Exactly the running thread has status RUNNING, the ready list holds      *)
(* every READY thread once and no other: schedule() never runs a thread    *)
(* that is still queued, and never loses one.                              *)
ReadyListConsistent ==
  /\ \A t \in Thread : status[t] = "RUNNING" <=> t = current
  /\ \A t \in Thread : status[t] = "READY" <=> elem_find(thread_ready_list, t)
  /\ NoRepeat(thread_ready_list)

(* No ASSERT and no PANIC of thread.c (and of the code that uses it) fires. *)
NoPanic == ~panic
=============================================================================
