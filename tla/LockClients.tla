----------------------------- MODULE LockClients -----------------------------
(***************************************************************************)
(* The most general legal client of the scheduler and of the locks: any     *)
(* number of threads that are started at any time, run with interrupts      *)
(* enabled (kernel threads, user code) or disabled (a system call comes in  *)
(* through an interrupt gate), take a lock, take it again, give up the CPU  *)
(* while they hold it, and release it. A client releases only what it       *)
(* acquired and holds one lock at a time, as every caller in the kernel     *)
(* does (console.c, memory.c, ide.c, ioqueue.c, allocate_pid()).            *)
(***************************************************************************)
EXTENDS Sync

CONSTANT MaxNest   \* how often a client nests lock_acquire() on its lock

ASSUME NestAssumption == MaxNest \in Nat \ {0} /\ Sema = {}

VARIABLES held,    \* the lock the client believes it holds, or NULL
          depth    \* how many of its lock_acquire() calls are not yet released

clientVars == <<held, depth>>
vars == <<threadVars, syncVars, frameVars, clientVars>>

TypeOK ==
  /\ ThreadTypeOK
  /\ SyncTypeOK
  /\ pc \in [Thread -> SyncPoint \cup {"run", "acquired", "released", "idle", "hlt"}]
  /\ arg \in [Thread -> Lock \cup {NULL}]
  /\ ret \in [Thread -> {"run", "acquired", "released"}]
  /\ held \in [Thread -> Lock \cup {NULL}]
  /\ depth \in [Thread -> 0..MaxNest]

Init ==
  /\ thread_init(<<idle_thread>>)
  /\ sync_init([s \in {} |-> 0])
  /\ pc = [t \in Thread |-> IF t = idle_thread THEN "idle" ELSE "run"]
  /\ arg = [t \in Thread |-> NULL]
  /\ ret = [t \in Thread |-> "run"]
  /\ held = [t \in Thread |-> NULL]
  /\ depth = [t \in Thread |-> 0]

-----------------------------------------------------------------------------
Acquire(t) ==
  /\ At(t, "run")
  /\ depth[t] < MaxNest
  /\ \E l \in Lock : held[t] \in {NULL, l} /\ call(t, "lock_acquire", l, "acquired")
  /\ UNCHANGED <<threadVars, syncVars, old_status, clientVars>>

(* lock_acquire() has returned. *)
Acquired(t) ==
  /\ At(t, "acquired")
  /\ held' = [held EXCEPT ![t] = arg[t]]
  /\ depth' = [depth EXCEPT ![t] = @ + 1]
  /\ goto(t, "run")
  /\ UNCHANGED <<threadVars, syncVars, arg, ret, old_status>>

Release(t) ==
  /\ At(t, "run")
  /\ held[t] # NULL
  /\ call(t, "lock_release", held[t], "released")
  /\ depth' = [depth EXCEPT ![t] = @ - 1]
  /\ held' = [held EXCEPT ![t] = IF depth[t] = 1 THEN NULL ELSE @]
  /\ UNCHANGED <<threadVars, syncVars, old_status>>

(* lock_release() has returned. *)
Released(t) ==
  /\ At(t, "released")
  /\ goto(t, "run")
  /\ UNCHANGED <<threadVars, syncVars, arg, ret, old_status, clientVars>>

Yield(t) ==
  /\ At(t, "run")
  /\ thread_yield
  /\ UNCHANGED <<syncVars, frameVars, clientVars>>

Start(t) ==
  /\ At(t, "run")
  /\ \E c \in Thread : thread_start(c)
  /\ UNCHANGED <<syncVars, frameVars, clientVars>>

(* The client enters or leaves an interrupts-off context. *)
SetIntr(t) ==
  /\ At(t, "run")
  /\ intr' = ~intr
  /\ UNCHANGED <<thread_ready_list, status, current, ticks, saved_if, panic,
                 syncVars, frameVars, clientVars>>

-----------------------------------------------------------------------------
(* idle(): block until the ready list is empty, then halt with interrupts   *)
(* enabled until one comes in.                                             *)
idle_block ==
  /\ At(idle_thread, "idle")
  /\ thread_block(intr, FALSE)
  /\ goto(idle_thread, "hlt")
  /\ UNCHANGED <<syncVars, arg, ret, old_status, clientVars>>

(* An interrupt ends hlt; the loop of idle() goes round. *)
leave_hlt == pc' = [pc EXCEPT ![current] = IF @ = "hlt" THEN "idle" ELSE @]

Timer ==
  /\ ~panic
  /\ intr_timer_handler
  /\ leave_hlt
  /\ UNCHANGED <<syncVars, arg, ret, old_status, clientVars>>

Client(t) ==
  \/ Acquire(t)
  \/ Acquired(t)
  \/ Release(t)
  \/ Released(t)
  \/ Yield(t)
  \/ Start(t)
  \/ SetIntr(t)
  \/ SyncStep(t) /\ UNCHANGED clientVars

Next ==
  \/ \E t \in Thread : Client(t)
  \/ idle_block
  \/ Timer

Spec == Init /\ [][Next]_vars

-----------------------------------------------------------------------------
(* Between the return of lock_acquire() and the call of the matching        *)
(* lock_release() no other thread is in that position for the same lock,    *)
(* whatever the interleaving of preemptions inside lock.c's own code.       *)
MutualExclusion ==
  \A t, u \in Thread :
    t # u /\ depth[t] > 0 /\ depth[u] > 0 => held[t] # held[u]

(* Semaphore, holder and holder_repeat_nr together implement a lock that one  *)
(* thread at a time is inside, counted by its calls, although lock_acquire() *)
(* and lock_release() can be preempted at every step and a thread that was   *)
(* woken may find the lock taken again.                                     *)
Abstract == INSTANCE Mutex WITH
  inside <- [l \in Lock |-> [t \in Thread |-> IF held[t] = l THEN depth[t] ELSE 0]]

ImplementsMutex == Abstract!Spec

(* The bookkeeping of a lock agrees with its client: whoever is between     *)
(* acquire and release is the recorded holder, holder_repeat_nr counts its  *)
(* nesting, and a free semaphore means nobody holds the lock.              *)
HolderMatchesClient ==
  /\ \A t \in Thread :
       depth[t] > 0 /\ pc[t] = "run" =>
         /\ holder[held[t]] = t
         /\ holder_repeat_nr[held[t]] = depth[t]
         /\ value[held[t]] = 0
  /\ \A l \in Lock : value[l] = 1 => holder[l] = NULL /\ holder_repeat_nr[l] = 0
=============================================================================
