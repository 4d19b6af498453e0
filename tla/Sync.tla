-------------------------------- MODULE Sync --------------------------------
(***************************************************************************)
(* Semaphores and reentrant locks of src/thread/sync.c over the scheduler. *)
(*                                                                         *)
(* A thread inside sync.c is at a program point pc[t]; arg[t] is the        *)
(* semaphore or lock it works on and ret[t] the point its caller continues *)
(* at. Code that runs with interrupts enabled can be preempted between any *)
(* two steps; a thread with interrupts disabled keeps the CPU until it     *)
(* blocks, because the clock interrupt is not delivered. A lock and the    *)
(* semaphore inside it are one name; Sema holds the other semaphores.      *)
(***************************************************************************)
EXTENDS Threads

CONSTANTS Lock,   \* every struct lock
          Sema,   \* every struct semaphore that is not part of a lock
          NULL    \* no thread, no lock

ASSUME SyncAssumption ==
  /\ Lock \cap Sema = {}
  /\ NULL \notin Thread
  /\ NULL \notin Lock \cup Sema

VARIABLES value,            \* semaphore.value
          waiters,          \* semaphore.waiters, the longest waiting first
          holder,           \* lock.holder
          holder_repeat_nr, \* lock.holder_repeat_nr
          pc, arg, ret,     \* the call a thread is in, its argument, its return point
          old_status        \* the local old_status of sema_down()

syncVars == <<value, waiters, holder, holder_repeat_nr>>
frameVars == <<pc, arg, ret, old_status>>

(* The program points inside sync.c. *)
SyncPoint == {"lock_acquire", "sema_down", "sema_wait", "la_holder", "la_repeat",
              "lock_release", "lr_repeat", "sema_up"}

SyncTypeOK ==
  /\ value \in [Lock \cup Sema -> {0, 1}]
  /\ waiters \in [Lock \cup Sema -> Seq(Thread)]
  /\ holder \in [Lock -> Thread \cup {NULL}]
  /\ holder_repeat_nr \in [Lock -> Nat]
  /\ old_status \in [Thread -> BOOLEAN]

-----------------------------------------------------------------------------
goto(t, p) == pc' = [pc EXCEPT ![t] = p]

(* Thread t calls function f of sync.c on x and continues at r afterwards. *)
call(t, f, x, r) ==
  /\ goto(t, f)
  /\ arg' = [arg EXCEPT ![t] = x]
  /\ ret' = [ret EXCEPT ![t] = r]

(* t is the thread on the CPU, and it is at p. *)
At(t, p) == ~panic /\ t = current /\ pc[t] = p

(* ASSERT(ok) as the only thing a step does to the scheduler's state. *)
assert(ok) ==
  /\ panic' = ~ok
  /\ UNCHANGED <<thread_ready_list, status, current, ticks, intr, saved_if>>

-----------------------------------------------------------------------------
(* Mutant of lock_acquire_test: a lock another thread holds is not waited for. *)
lock_acquire_test_no_wait(t) ==
  /\ At(t, "lock_acquire")
  /\ goto(t, IF holder[arg[t]] = NULL THEN "sema_down" ELSE ret[t])
  /\ holder_repeat_nr' = [holder_repeat_nr EXCEPT ![arg[t]] = IF holder[arg[t]] = t THEN @ + 1 ELSE @]
  /\ UNCHANGED <<threadVars, value, waiters, holder, arg, ret, old_status>>

(* lock_acquire(): a lock the caller already holds is only counted. *)
lock_acquire_test(t) ==
  /\ At(t, "lock_acquire")
  /\ \/ /\ holder[arg[t]] # t
        /\ goto(t, "sema_down")
        /\ UNCHANGED holder_repeat_nr
     \/ /\ holder[arg[t]] = t
        /\ holder_repeat_nr' = [holder_repeat_nr EXCEPT ![arg[t]] = @ + 1]
        /\ goto(t, ret[t])
  /\ UNCHANGED <<threadVars, value, waiters, holder, arg, ret, old_status>>

(* Where sema_down() returns to: into lock_acquire() for a lock. *)
after_down(t) == IF arg[t] \in Lock THEN "la_holder" ELSE ret[t]

(* The value is zero: queue up and block. The thread resumes inside the    *)
(* while loop, with interrupts disabled.                                   *)
sema_down_wait(t) ==
  /\ pc[t] \in {"sema_down", "sema_wait"} /\ At(t, pc[t])
  /\ value[arg[t]] = 0
  /\ waiters' = [waiters EXCEPT ![arg[t]] = list_append(@, t)]
  /\ old_status' = [old_status EXCEPT ![t] = IF pc[t] = "sema_down" THEN intr ELSE @]
  /\ thread_block(FALSE, elem_find(waiters[arg[t]], t))
  /\ goto(t, "sema_wait")
  /\ UNCHANGED <<value, holder, holder_repeat_nr, arg, ret>>

(* The value is not zero: take it and restore the interrupt flag. *)
sema_down_take(t) ==
  /\ pc[t] \in {"sema_down", "sema_wait"} /\ At(t, pc[t])
  /\ value[arg[t]] # 0
  /\ value' = [value EXCEPT ![arg[t]] = @ - 1]
  /\ panic' = (value'[arg[t]] # 0)
  /\ intr' = IF pc[t] = "sema_down" THEN intr ELSE old_status[t]
  /\ old_status' = [old_status EXCEPT ![t] = FALSE]
  /\ goto(t, after_down(t))
  /\ UNCHANGED <<thread_ready_list, status, current, ticks, saved_if, waiters, holder,
                 holder_repeat_nr, arg, ret>>

lock_acquire_holder(t) ==
  /\ At(t, "la_holder")
  /\ holder' = [holder EXCEPT ![arg[t]] = t]
  /\ goto(t, "la_repeat")
  /\ UNCHANGED <<threadVars, value, waiters, holder_repeat_nr, arg, ret, old_status>>

lock_acquire_repeat(t) ==
  /\ At(t, "la_repeat")
  /\ assert(holder_repeat_nr[arg[t]] = 0)
  /\ holder_repeat_nr' = [holder_repeat_nr EXCEPT ![arg[t]] = 1]
  /\ goto(t, ret[t])
  /\ UNCHANGED <<value, waiters, holder, arg, ret, old_status>>

-----------------------------------------------------------------------------
(* lock_release(): the count goes down; the last release clears the holder, *)
(* then the count, then ups the semaphore, preemptible in between.         *)
lock_release_test(t) ==
  /\ At(t, "lock_release")
  /\ \/ /\ holder_repeat_nr[arg[t]] > 1
        /\ assert(holder[arg[t]] = t)
        /\ holder_repeat_nr' = [holder_repeat_nr EXCEPT ![arg[t]] = @ - 1]
        /\ goto(t, ret[t])
        /\ UNCHANGED holder
     \/ /\ ~(holder_repeat_nr[arg[t]] > 1)
        /\ assert(holder[arg[t]] = t /\ holder_repeat_nr[arg[t]] = 1)
        /\ holder' = [holder EXCEPT ![arg[t]] = NULL]
        /\ goto(t, "lr_repeat")
        /\ UNCHANGED holder_repeat_nr
  /\ UNCHANGED <<value, waiters, arg, ret, old_status>>

lock_release_repeat(t) ==
  /\ At(t, "lr_repeat")
  /\ holder_repeat_nr' = [holder_repeat_nr EXCEPT ![arg[t]] = 0]
  /\ goto(t, "sema_up")
  /\ UNCHANGED <<threadVars, value, waiters, holder, arg, ret, old_status>>

(* Mutant of sema_up: nobody is woken. *)
sema_up_wakes_nobody(s) ==
  /\ value' = [value EXCEPT ![s] = @ + 1]
  /\ UNCHANGED <<threadVars, holder, holder_repeat_nr, waiters>>

(* sema_up(s): the longest waiting thread becomes ready, then the value     *)
(* goes up; the woken thread must still find the value above zero.         *)
sema_up(s) ==
  /\ value' = [value EXCEPT ![s] = @ + 1]
  /\ UNCHANGED <<intr, holder, holder_repeat_nr>>
  /\ LET failed == value[s] # 0 \/ value'[s] # 1
     IN  \/ /\ waiters[s] # <<>>
            /\ waiters' = [waiters EXCEPT ![s] = Tail(@)]
            /\ thread_unblock(Head(waiters[s]), failed)
         \/ /\ waiters[s] = <<>>
            /\ UNCHANGED <<waiters, thread_ready_list, status, current, ticks, saved_if>>
            /\ panic' = failed

sema_up_step(t) ==
  /\ At(t, "sema_up")
  /\ sema_up(arg[t])
  /\ goto(t, ret[t])
  /\ UNCHANGED <<arg, ret, old_status>>

(* One step of thread t inside sync.c. *)
SyncStep(t) ==
  \/ lock_acquire_test(t)
  \/ sema_down_wait(t)
  \/ sema_down_take(t)
  \/ lock_acquire_holder(t)
  \/ lock_acquire_repeat(t)
  \/ lock_release_test(t)
  \/ lock_release_repeat(t)
  \/ sema_up_step(t)

(* lock_init() and sema_init(). *)
sync_init(sem) ==
  /\ value = [s \in Lock \cup Sema |-> IF s \in Lock THEN 1 ELSE sem[s]]
  /\ waiters = [s \in Lock \cup Sema |-> <<>>]
  /\ holder = [l \in Lock |-> NULL]
  /\ holder_repeat_nr = [l \in Lock |-> 0]
  /\ old_status = [t \in Thread |-> FALSE]

-----------------------------------------------------------------------------
(* general_tag links a thread into one list only: every thread in a waiting *)
(* list is blocked in sema_down() on that semaphore, appears there once,    *)
(* and is not in the ready list. A thread linked twice would cut both       *)
(* doubly linked lists apart.                                              *)
TagInOneList ==
  \A s \in Lock \cup Sema :
    /\ \A t \in Thread :
         elem_find(waiters[s], t) =>
           /\ status[t] = "BLOCKED"
           /\ pc[t] = "sema_wait"
           /\ arg[t] = s
           /\ ~elem_find(thread_ready_list, t)
    /\ NoRepeat(waiters[s])

(* No lost wakeup: a thread blocked in sema_down() is still in the waiting  *)
(* list, and if the semaphore can be taken then a thread that was woken for *)
(* it, and will look at it again, is on its way.                           *)
NoLostWakeup ==
  \A t \in Thread :
    pc[t] = "sema_wait" /\ status[t] = "BLOCKED" =>
      /\ elem_find(waiters[arg[t]], t)
      /\ value[arg[t]] = 1 =>
           \E u \in Thread : /\ pc[u] \in {"sema_down", "sema_wait"}
                             /\ arg[u] = arg[t]
                             /\ status[u] \in {"READY", "RUNNING"}
=============================================================================
