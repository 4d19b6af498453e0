------------------------- MODULE LockClientsProofs -------------------------
(***************************************************************************)
(* Proofs about LockClients, for every set of threads and locks, every      *)
(* priority and every nesting bound.                                        *)
(***************************************************************************)
EXTENDS LockClients, ThreadsProofs

(* Thread t is the one that took the semaphore of l: from the moment it     *)
(* counts it down until it counts it up again.                             *)
Owns(t, l) ==
  \/ holder[l] = t
  \/ pc[t] \in {"la_holder", "lr_repeat", "sema_up"} /\ arg[t] = l

(* What the program point of client t says of its locals and of its lock. *)
ClientOK(t) ==
  /\ held[t] = NULL <=> depth[t] = 0
  /\ pc[t] \in SyncPoint \cup {"acquired"} => arg[t] \in Lock
  /\ pc[t] \in {"lock_acquire", "sema_down", "sema_wait", "la_holder", "la_repeat"} =>
       ret[t] = "acquired"
  /\ pc[t] \in {"lock_release", "lr_repeat", "sema_up"} => ret[t] = "released"
  /\ pc[t] \in {"run", "released", "lock_acquire"} /\ depth[t] # 0 =>
       holder[held[t]] = t /\ holder_repeat_nr[held[t]] = depth[t]
  /\ pc[t] = "lock_acquire" => held[t] \in {NULL, arg[t]} /\ depth[t] < MaxNest
  /\ pc[t] \in {"sema_down", "sema_wait", "la_holder", "la_repeat", "lr_repeat",
                "sema_up", "idle", "hlt"} => depth[t] = 0
  /\ pc[t] \in {"acquired", "lock_release"} =>
       /\ holder[arg[t]] = t
       /\ holder_repeat_nr[arg[t]] = depth[t] + 1
       /\ held[t] = IF depth[t] = 0 THEN NULL ELSE arg[t]
       /\ depth[t] < MaxNest
  /\ pc[t] = "la_repeat" => holder[arg[t]] = t
  /\ pc[t] \in {"la_holder", "la_repeat", "sema_up"} => holder_repeat_nr[arg[t]] = 0

ClientInv == \A t \in Thread : ClientOK(t)

(* Where a thread that is recorded as the holder of l can be. *)
HolderAt(t, l) ==
  holder[l] = t =>
    \/ pc[t] \in {"run", "released", "lock_acquire"} /\ held[t] = l
    \/ pc[t] \in {"la_repeat", "acquired", "lock_release"} /\ arg[t] = l

(* A lock has at most one owner, and none while its semaphore can be taken. *)
OneOwner(l) ==
  /\ \A t, u \in Thread : Owns(t, l) /\ Owns(u, l) => t = u
  /\ value[l] = 1 => holder_repeat_nr[l] = 0 /\ \A t \in Thread : ~Owns(t, l)
  /\ value[l] = 0 => \E t \in Thread : Owns(t, l)

LockInv == \A l \in Lock : OneOwner(l) /\ \A t \in Thread : HolderAt(t, l)

(* Why a thread that is not ready does not run. *)
StatusInv ==
  \A t \in Thread :
    /\ t = idle_thread <=> pc[t] \in {"idle", "hlt"}
    /\ status[t] = "NONE" => t \notin {idle_thread, main_thread} /\ pc[t] = "run"
    /\ status[t] = "BLOCKED" /\ t # idle_thread =>
         pc[t] = "sema_wait" /\ elem_find(waiters[arg[t]], t)


(* The inductive invariant. *)
Inv ==
  /\ SchedInv
  /\ TypeOK
  /\ ClientInv
  /\ LockInv
  /\ TagInOneList
  /\ StatusInv
  /\ NoLostWakeup

(* The thread at the CPU is in no list, so it is nobody's waiter. *)
LEMMA CurrentIsNotWaiting ==
  ASSUME Inv
  PROVE  /\ status[current] = "RUNNING"
         /\ \A l \in Lock : ~elem_find(waiters[l], current)
BY DEF Inv, SchedInv, ThreadTypeOK, ReadyListConsistent, TagInOneList

-----------------------------------------------------------------------------
(* The frame of a step of thread t: nothing of another client moves. *)
OthersSame(t) ==
  \A u \in Thread \ {t} : /\ pc'[u] = pc[u] /\ arg'[u] = arg[u] /\ ret'[u] = ret[u]
                          /\ held'[u] = held[u] /\ depth'[u] = depth[u]

(* A client that does not move, and whose locks are not touched, stays OK. *)
LEMMA ClientFrame ==
  ASSUME TypeOK, NEW u \in Thread, ClientOK(u),
         pc'[u] = pc[u], arg'[u] = arg[u], ret'[u] = ret[u],
         held'[u] = held[u], depth'[u] = depth[u],
         \A l \in Lock : Owns(u, l) => holder'[l] = holder[l]
                                       /\ holder_repeat_nr'[l] = holder_repeat_nr[l]
  PROVE  ClientOK(u)'
<1>1. pc[u] \in {"run", "released", "lock_acquire"} /\ depth[u] # 0 => held[u] \in Lock
  BY DEF TypeOK, ClientOK
<1>2. pc[u] \in {"acquired", "lock_release", "la_repeat", "la_holder", "sema_up"} =>
        arg[u] \in Lock
  BY DEF ClientOK, SyncPoint
<1>3. pc[u] \in {"run", "released", "lock_acquire"} /\ depth[u] # 0 =>
        holder'[held[u]] = u /\ holder_repeat_nr'[held[u]] = depth[u]
  BY <1>1 DEF ClientOK, Owns
<1>4. pc[u] \in {"acquired", "lock_release", "la_repeat"} =>
        holder'[arg[u]] = holder[arg[u]] /\ holder_repeat_nr'[arg[u]] = holder_repeat_nr[arg[u]]
  BY <1>2 DEF ClientOK, Owns
<1>5. pc[u] \in {"la_holder", "sema_up"} => holder_repeat_nr'[arg[u]] = holder_repeat_nr[arg[u]]
  BY <1>2 DEF Owns
<1>. QED  BY <1>3, <1>4, <1>5 DEF ClientOK

(* So a step of t has to look after t, and after the locks of the others. *)
LEMMA ClientStep ==
  ASSUME Inv, NEW t \in Thread, OthersSame(t), ClientOK(t)',
         \A u \in Thread \ {t}, l \in Lock :
           Owns(u, l) => holder'[l] = holder[l] /\ holder_repeat_nr'[l] = holder_repeat_nr[l]
  PROVE  ClientInv'
<1>1. ASSUME NEW u \in Thread, u # t  PROVE ClientOK(u)'
  <2>1. TypeOK /\ ClientOK(u)
    BY DEF Inv, ClientInv
  <2>2. /\ pc'[u] = pc[u] /\ arg'[u] = arg[u] /\ ret'[u] = ret[u]
        /\ held'[u] = held[u] /\ depth'[u] = depth[u]
    BY <1>1 DEF OthersSame
  <2>. QED  BY <1>1, <2>1, <2>2, ClientFrame
<1>. QED  BY <1>1 DEF ClientInv

LEMMA LockStep ==
  ASSUME Inv, NEW t \in Thread, OthersSame(t),
         \A l \in Lock : HolderAt(t, l)' /\ OneOwner(l)',
         \A u \in Thread \ {t}, l \in Lock : holder'[l] = u => holder[l] = u
  PROVE  LockInv'
<1>1. ASSUME NEW u \in Thread, u # t, NEW l \in Lock  PROVE HolderAt(u, l)'
  <2>1. HolderAt(u, l)
    BY DEF Inv, LockInv
  <2>. QED  BY <1>1, <2>1 DEF HolderAt, OthersSame
<1>2. ASSUME NEW l \in Lock  PROVE OneOwner(l)' /\ \A u \in Thread : HolderAt(u, l)'
  BY <1>1
<1>. QED  BY <1>2 DEF LockInv

(* The owners stay the same when neither they nor the semaphores change. *)
LEMMA SameOwners ==
  ASSUME Inv, value' = value,
         \A u \in Thread, l \in Lock : Owns(u, l)' <=> Owns(u, l),
         \A l \in Lock : value[l] = 1 => holder_repeat_nr'[l] = holder_repeat_nr[l]
  PROVE  \A l \in Lock : OneOwner(l)'
<1> TAKE l \in Lock
<1>1. OneOwner(l)
  BY DEF Inv, LockInv
<1>2. \A u \in Thread : Owns(u, l)' <=> Owns(u, l)
  OBVIOUS
<1>3. \A u, v \in Thread : Owns(u, l)' /\ Owns(v, l)' => u = v
  BY <1>1, <1>2 DEF OneOwner
<1>4. value'[l] = 1 => holder_repeat_nr'[l] = 0 /\ \A u \in Thread : ~Owns(u, l)'
  BY <1>1, <1>2 DEF OneOwner
<1>5. value'[l] = 0 => \E u \in Thread : Owns(u, l)'
  BY <1>1, <1>2 DEF OneOwner
<1>. QED  BY <1>3, <1>4, <1>5 DEF OneOwner

-----------------------------------------------------------------------------
LEMMA InitInv == Init => Inv
<1> SUFFICES ASSUME Init  PROVE Inv
  OBVIOUS
<1> USE ThreadAssumption, SyncAssumption, NestAssumption
<1>1. /\ status \in [Thread -> Status]
      /\ status[idle_thread] = "READY" /\ status[main_thread] = "RUNNING"
      /\ \A t \in Thread \ {idle_thread, main_thread} : status[t] = "NONE"
  BY DEF Init, thread_init, Status, elem_find
<1>2. ThreadTypeOK
  <2>1. thread_ready_list \in Seq(Thread)
    BY DEF Init, thread_init
  <2>. QED  BY <1>1, <2>1, Zenon DEF Init, thread_init, ThreadTypeOK
<1>3. ReadyListConsistent
  BY <1>1 DEF Init, thread_init, ReadyListConsistent, elem_find, NoRepeat
<1>4. SchedInv
  BY <1>1, <1>2, <1>3 DEF SchedInv, Init, thread_init
<1>5. TypeOK
  BY <1>2 DEF Init, sync_init, TypeOK, SyncTypeOK, SyncPoint
<1>6. \A t \in Thread : /\ pc[t] = IF t = idle_thread THEN "idle" ELSE "run"
                        /\ held[t] = NULL /\ depth[t] = 0
  BY Zenon DEF Init
<1>7. ClientInv
  <2>1. ASSUME NEW t \in Thread  PROVE ClientOK(t)
    BY <1>6 DEF ClientOK, SyncPoint
  <2>. QED  BY <2>1, Zenon DEF ClientInv
<1>8. LockInv
  <2>1. ASSUME NEW l \in Lock
        PROVE  holder[l] = NULL /\ holder_repeat_nr[l] = 0 /\ value[l] = 1
    BY DEF Init, sync_init
  <2>2. ASSUME NEW l \in Lock, NEW t \in Thread  PROVE ~Owns(t, l) /\ HolderAt(t, l)
    BY <1>6, <2>1 DEF Owns, HolderAt
  <2>3. ASSUME NEW l \in Lock  PROVE OneOwner(l)
    BY <2>1, <2>2 DEF OneOwner
  <2>. QED  BY <2>2, <2>3 DEF LockInv
<1>9. TagInOneList
  BY DEF Init, sync_init, TagInOneList, elem_find, NoRepeat
<1>10. StatusInv
  BY <1>1, <1>6, Zenon DEF StatusInv
<1>11. NoLostWakeup
  BY <1>6 DEF NoLostWakeup
<1>. QED  BY <1>4, <1>5, <1>7, <1>8, <1>9, <1>10, <1>11 DEF Inv

(* A step that leaves scheduler and waiting lists alone keeps what they     *)
(* say, as long as it moves the current thread between program points that *)
(* are not those of a blocked thread and touches no value.                 *)
LEMMA QuietStep ==
  ASSUME Inv, NEW t \in Thread, t = current, t # idle_thread,
         UNCHANGED <<threadVars, value, waiters>>,
         NEW p, p \notin {"idle", "hlt", "sema_wait"},
         pc[t] \notin {"sema_down", "sema_wait"},
         pc' = [pc EXCEPT ![t] = p],
         \A u \in Thread : u # t => arg'[u] = arg[u]
  PROVE  SchedInv' /\ TagInOneList' /\ StatusInv' /\ NoLostWakeup'
<1> USE ThreadAssumption, SyncAssumption, NestAssumption
<1>1. status[t] = "RUNNING" /\ \A l \in Lock : ~elem_find(waiters[l], t)
  BY CurrentIsNotWaiting
<1>2. SchedInv'
  BY DEF Inv, SchedInv, ThreadTypeOK, ReadyListConsistent, threadVars
<1>3. TagInOneList'
  BY <1>1 DEF Inv, TypeOK, TagInOneList, threadVars
<1>4. StatusInv'
  BY <1>1 DEF Inv, TypeOK, StatusInv, threadVars
<1>5. NoLostWakeup'
  BY <1>1 DEF Inv, TypeOK, NoLostWakeup, threadVars
<1>. QED  BY <1>2, <1>3, <1>4, <1>5

(* A step of the client's own code: the locks are not touched, and t is no   *)
(* recorded holder in a place where a holder cannot be.                     *)
LEMMA OwnCodeStep ==
  ASSUME Inv, NEW t \in Thread, OthersSame(t), ClientOK(t)',
         UNCHANGED <<holder, holder_repeat_nr, value>>,
         pc[t] \notin {"la_holder", "lr_repeat", "sema_up"},
         pc'[t] \notin {"la_holder", "lr_repeat", "sema_up"},
         \A l \in Lock : HolderAt(t, l)'
  PROVE  ClientInv' /\ LockInv'
<1>1. ClientInv'
  BY ClientStep
<1>2. \A u \in Thread, l \in Lock : Owns(u, l)' <=> Owns(u, l)
  BY DEF Owns, OthersSame
<1>3. \A l \in Lock : OneOwner(l)'
  BY <1>2, SameOwners
<1>. QED  BY <1>1, <1>3, LockStep

(* A step of the owner t of k that touches k's holder or count only. *)
LEMMA OwnLockStep ==
  ASSUME Inv, NEW t \in Thread, OthersSame(t), ClientOK(t)',
         NEW k \in Lock, Owns(t, k), Owns(t, k)', value' = value, holder'[k] \in {t, NULL},
         \A l \in Lock : l # k => /\ holder'[l] = holder[l]
                                   /\ holder_repeat_nr'[l] = holder_repeat_nr[l],
         \A l \in Lock : l # k => (Owns(t, l)' <=> Owns(t, l)),
         \A l \in Lock : HolderAt(t, l)'
  PROVE  ClientInv' /\ LockInv'
<1>1. OneOwner(k)
  BY DEF Inv, LockInv
<1>2. ASSUME NEW u \in Thread, u # t  PROVE ~Owns(u, k) /\ ~Owns(u, k)'
  <2>1. ~Owns(u, k)
    BY <1>1, <1>2 DEF OneOwner
  <2>. QED  BY <1>2, <2>1, SyncAssumption DEF Owns, OthersSame
<1>3. ClientInv'
  <2>1. ASSUME NEW u \in Thread \ {t}, NEW l \in Lock, Owns(u, l)
        PROVE  holder'[l] = holder[l] /\ holder_repeat_nr'[l] = holder_repeat_nr[l]
    BY <1>2, <2>1
  <2>. QED  BY <2>1, ClientStep
<1>4. ASSUME NEW u \in Thread, NEW l \in Lock  PROVE Owns(u, l)' <=> Owns(u, l)
  <2>1. CASE l = k
    BY <1>2, <2>1
  <2>2. CASE l # k /\ u = t
    BY <2>2
  <2>3. CASE l # k /\ u # t
    BY <2>3 DEF Owns, OthersSame
  <2>. QED  BY <2>1, <2>2, <2>3
<1>5. value[k] # 1
  BY <1>1 DEF OneOwner
<1>6. \A l \in Lock : OneOwner(l)'
  BY <1>4, <1>5, SameOwners
<1>7. \A u \in Thread \ {t}, l \in Lock : holder'[l] = u => holder[l] = u
  BY SyncAssumption
<1>. QED  BY <1>3, <1>6, <1>7, LockStep

LEMMA AcquireInv ==
  ASSUME Inv, NEW t \in Thread, Acquire(t)  PROVE Inv'
<1> USE ThreadAssumption, SyncAssumption, NestAssumption
<1>0. /\ t = current /\ pc[t] = "run" /\ t # idle_thread
      /\ depth[t] < MaxNest
      /\ UNCHANGED <<threadVars, syncVars, old_status, clientVars>>
  BY DEF Acquire, At, Inv, StatusInv
<1>1. PICK l \in Lock : /\ held[t] \in {NULL, l}
                        /\ pc' = [pc EXCEPT ![t] = "lock_acquire"]
                        /\ arg' = [arg EXCEPT ![t] = l]
                        /\ ret' = [ret EXCEPT ![t] = "acquired"]
  BY Zenon DEF Acquire, call, goto
<1>2. /\ pc'[t] = "lock_acquire" /\ arg'[t] = l /\ ret'[t] = "acquired"
      /\ held' = held /\ depth' = depth /\ OthersSame(t)
  BY <1>0, <1>1 DEF Inv, TypeOK, OthersSame, clientVars
<1>3. SchedInv' /\ TagInOneList' /\ StatusInv' /\ NoLostWakeup'
  <2>1. \A u \in Thread : u # t => arg'[u] = arg[u]
    BY <1>2 DEF OthersSame
  <2>. QED  BY <1>0, <1>1, <2>1, QuietStep, Zenon DEF syncVars
<1>4. TypeOK'
  BY <1>0, <1>1, Zenon DEF Inv, TypeOK, ThreadTypeOK, SyncTypeOK, SyncPoint, threadVars, syncVars, clientVars
<1>5. ClientOK(t) /\ holder' = holder /\ holder_repeat_nr' = holder_repeat_nr
  BY <1>0 DEF Inv, ClientInv, syncVars
<1>6. ClientOK(t)'
  BY <1>0, <1>1, <1>2, <1>5 DEF ClientOK, SyncPoint
<1>7. ASSUME NEW k \in Lock  PROVE HolderAt(t, k)'
  <2>1. HolderAt(t, k)
    BY DEF Inv, LockInv
  <2>. QED  BY <1>0, <1>2, <1>5, <2>1 DEF HolderAt
<1>8. ClientInv' /\ LockInv'
  BY <1>0, <1>2, <1>6, <1>7, OwnCodeStep DEF syncVars
<1>. QED  BY <1>3, <1>4, <1>8 DEF Inv

LEMMA AcquiredInv ==
  ASSUME Inv, NEW t \in Thread, Acquired(t)  PROVE Inv'
<1> USE ThreadAssumption, SyncAssumption, NestAssumption
<1>0. /\ t = current /\ pc[t] = "acquired" /\ t # idle_thread
      /\ pc' = [pc EXCEPT ![t] = "run"]
      /\ held' = [held EXCEPT ![t] = arg[t]]
      /\ depth' = [depth EXCEPT ![t] = @ + 1]
      /\ UNCHANGED <<threadVars, syncVars, arg, ret, old_status>>
  BY DEF Acquired, At, goto, Inv, StatusInv
<1>1. SchedInv' /\ TagInOneList' /\ StatusInv' /\ NoLostWakeup'
  BY <1>0, QuietStep, Zenon DEF syncVars
<1>2. ClientOK(t) /\ holder' = holder /\ holder_repeat_nr' = holder_repeat_nr
  BY <1>0 DEF Inv, ClientInv, syncVars
<1>3. /\ arg[t] \in Lock /\ depth[t] < MaxNest /\ depth[t] \in Nat
      /\ holder[arg[t]] = t /\ holder_repeat_nr[arg[t]] = depth[t] + 1
  BY <1>0, <1>2 DEF Inv, TypeOK, ClientOK
<1>4. /\ pc'[t] = "run" /\ held'[t] = arg[t] /\ depth'[t] = depth[t] + 1
      /\ arg'[t] = arg[t] /\ OthersSame(t)
  BY <1>0 DEF Inv, TypeOK, OthersSame
<1>5. TypeOK'
  <2>1. depth' \in [Thread -> 0..MaxNest]
    BY <1>0, <1>3 DEF Inv, TypeOK
  <2>. QED
    BY <1>0, <1>3, <2>1, Zenon DEF Inv, TypeOK, ThreadTypeOK, SyncTypeOK, SyncPoint, threadVars, syncVars
<1>6. ClientOK(t)'
  BY <1>2, <1>3, <1>4 DEF ClientOK, SyncPoint
<1>7. ASSUME NEW k \in Lock  PROVE HolderAt(t, k)'
  <2>1. HolderAt(t, k)
    BY DEF Inv, LockInv
  <2>. QED  BY <1>0, <1>2, <1>4, <2>1 DEF HolderAt
<1>8. ClientInv' /\ LockInv'
  BY <1>0, <1>4, <1>6, <1>7, OwnCodeStep, SMT, Z3 DEF syncVars
<1>. QED  BY <1>1, <1>5, <1>8 DEF Inv

LEMMA ReleaseInv ==
  ASSUME Inv, NEW t \in Thread, Release(t)  PROVE Inv'
<1> USE ThreadAssumption, SyncAssumption, NestAssumption
<1>0. /\ t = current /\ pc[t] = "run" /\ t # idle_thread /\ held[t] # NULL
      /\ pc' = [pc EXCEPT ![t] = "lock_release"]
      /\ arg' = [arg EXCEPT ![t] = held[t]]
      /\ ret' = [ret EXCEPT ![t] = "released"]
      /\ held' = [held EXCEPT ![t] = IF depth[t] = 1 THEN NULL ELSE @]
      /\ depth' = [depth EXCEPT ![t] = @ - 1]
      /\ UNCHANGED <<threadVars, syncVars, old_status>>
  BY DEF Release, At, call, goto, Inv, StatusInv
<1>1. /\ pc'[t] = "lock_release" /\ arg'[t] = held[t] /\ ret'[t] = "released"
      /\ held'[t] = (IF depth[t] = 1 THEN NULL ELSE held[t]) /\ depth'[t] = depth[t] - 1
      /\ OthersSame(t)
  BY <1>0 DEF Inv, TypeOK, OthersSame
<1>2. SchedInv' /\ TagInOneList' /\ StatusInv' /\ NoLostWakeup'
  <2>1. \A u \in Thread : u # t => arg'[u] = arg[u]
    BY <1>1 DEF OthersSame
  <2>. QED  BY <1>0, <2>1, QuietStep, Zenon DEF syncVars
<1>3. ClientOK(t) /\ holder' = holder /\ holder_repeat_nr' = holder_repeat_nr
  BY <1>0 DEF Inv, ClientInv, syncVars
<1>4. /\ held[t] \in Lock /\ depth[t] \in 1..MaxNest
      /\ holder[held[t]] = t /\ holder_repeat_nr[held[t]] = depth[t]
  BY <1>0, <1>3 DEF Inv, TypeOK, ClientOK
<1>5. TypeOK'
  <2>1. depth' \in [Thread -> 0..MaxNest]
    BY <1>0, <1>4 DEF Inv, TypeOK
  <2>2. held' \in [Thread -> Lock \cup {NULL}]
    BY <1>0 DEF Inv, TypeOK
  <2>3. arg' \in [Thread -> Lock \cup {NULL}]
    BY <1>0 DEF Inv, TypeOK
  <2>. QED
    BY <1>0, <2>1, <2>2, <2>3, SMT, Z3
    DEF Inv, TypeOK, ThreadTypeOK, SyncTypeOK, SyncPoint, threadVars, syncVars
<1>6. ClientOK(t)'
  BY <1>1, <1>3, <1>4, SMT, Z3 DEF ClientOK, SyncPoint
<1>7. ASSUME NEW k \in Lock  PROVE HolderAt(t, k)'
  <2>1. HolderAt(t, k)
    BY DEF Inv, LockInv
  <2>. QED  BY <1>0, <1>1, <1>3, <2>1 DEF HolderAt
<1>8. ClientInv' /\ LockInv'
  BY <1>0, <1>1, <1>6, <1>7, OwnCodeStep, SMT, Z3 DEF syncVars
<1>. QED  BY <1>2, <1>5, <1>8 DEF Inv

LEMMA ReleasedInv ==
  ASSUME Inv, NEW t \in Thread, Released(t)  PROVE Inv'
<1> USE ThreadAssumption, SyncAssumption, NestAssumption
<1>0. /\ t = current /\ pc[t] = "released" /\ t # idle_thread
      /\ pc' = [pc EXCEPT ![t] = "run"]
      /\ UNCHANGED <<threadVars, syncVars, arg, ret, old_status, clientVars>>
  BY DEF Released, At, goto, Inv, StatusInv
<1>1. SchedInv' /\ TagInOneList' /\ StatusInv' /\ NoLostWakeup'
  BY <1>0, QuietStep, Zenon DEF syncVars
<1>2. pc'[t] = "run" /\ held' = held /\ depth' = depth /\ OthersSame(t)
  BY <1>0 DEF Inv, TypeOK, OthersSame, clientVars
<1>3. TypeOK'
  BY <1>0, SMT, Z3 DEF Inv, TypeOK, ThreadTypeOK, SyncTypeOK, SyncPoint, threadVars, syncVars, clientVars
<1>4. ClientOK(t) /\ holder' = holder /\ holder_repeat_nr' = holder_repeat_nr
  BY <1>0 DEF Inv, ClientInv, syncVars
<1>5. ClientOK(t)'
  BY <1>0, <1>2, <1>4, SMT, Z3 DEF ClientOK, SyncPoint
<1>6. ASSUME NEW k \in Lock  PROVE HolderAt(t, k)'
  <2>1. HolderAt(t, k)
    BY DEF Inv, LockInv
  <2>. QED  BY <1>0, <1>2, <1>4, <2>1 DEF HolderAt
<1>7. ClientInv' /\ LockInv'
  BY <1>0, <1>2, <1>5, <1>6, OwnCodeStep DEF syncVars
<1>. QED  BY <1>1, <1>3, <1>7 DEF Inv

-----------------------------------------------------------------------------
LEMMA AcquireTestInv ==
  ASSUME Inv, NEW t \in Thread, lock_acquire_test(t), UNCHANGED clientVars  PROVE Inv'
<1> USE ThreadAssumption, SyncAssumption, NestAssumption
<1> DEFINE k == arg[t]
<1>0. /\ t = current /\ pc[t] = "lock_acquire" /\ t # idle_thread
      /\ UNCHANGED <<threadVars, value, waiters, holder, arg, ret, old_status, clientVars>>
  BY DEF lock_acquire_test, At, Inv, StatusInv
<1>1. ClientOK(t) /\ HolderAt(t, k) /\ held' = held /\ depth' = depth /\ depth[t] \in Nat
      /\ k \in Lock /\ ret[t] = "acquired" /\ depth[t] < MaxNest /\ held[t] \in {NULL, k}
  <2>1. ClientOK(t)
    BY SMT, Z3 DEF Inv, ClientInv
  <2>2. k \in Lock /\ ret[t] = "acquired" /\ depth[t] < MaxNest /\ held[t] \in {NULL, k}
    BY <1>0, <2>1 DEF ClientOK, SyncPoint
  <2>. QED  BY <1>0, <2>1, <2>2 DEF Inv, TypeOK, LockInv, clientVars
<1>2. CASE /\ holder[k] # t
           /\ pc' = [pc EXCEPT ![t] = "sema_down"]
           /\ UNCHANGED holder_repeat_nr
  <2>1. SchedInv' /\ TagInOneList' /\ StatusInv' /\ NoLostWakeup'
    BY <1>0, <1>2, QuietStep, Zenon
  <2>2. TypeOK'
    BY <1>0, <1>2, SMT, Z3 DEF Inv, TypeOK, ThreadTypeOK, SyncTypeOK, SyncPoint, threadVars, clientVars
  <2>3. depth[t] = 0 /\ held[t] = NULL
    BY <1>0, <1>1, <1>2 DEF ClientOK
  <2>4. pc'[t] = "sema_down" /\ OthersSame(t)
    BY <1>0, <1>1, <1>2, SMT, Z3 DEF Inv, TypeOK, OthersSame
  <2>5. ClientOK(t)'
    BY <1>0, <1>1, <2>3, <2>4, Zenon DEF ClientOK, SyncPoint
  <2>6. ASSUME NEW l \in Lock  PROVE HolderAt(t, l)'
    <3>1. HolderAt(t, l)
      BY DEF Inv, LockInv
    <3>. QED  BY <1>0, <2>3, <3>1 DEF HolderAt
  <2>7. ClientInv' /\ LockInv'
    BY <1>0, <1>2, <2>4, <2>5, <2>6, OwnCodeStep, SMT, Z3
  <2>. QED  BY <2>1, <2>2, <2>7 DEF Inv
<1>3. CASE /\ holder[k] = t
           /\ holder_repeat_nr' = [holder_repeat_nr EXCEPT ![k] = @ + 1]
           /\ pc' = [pc EXCEPT ![t] = ret[t]]
  <2>1. SchedInv' /\ TagInOneList' /\ StatusInv' /\ NoLostWakeup'
    BY <1>0, <1>1, <1>3, QuietStep, Zenon
  <2>2. TypeOK'
    <3>1. holder_repeat_nr' \in [Lock -> Nat]
      BY <1>1, <1>3 DEF Inv, TypeOK, SyncTypeOK
    <3>. QED
      BY <1>0, <1>1, <1>3, <3>1, Zenon
      DEF Inv, TypeOK, ThreadTypeOK, SyncTypeOK, SyncPoint, threadVars, clientVars
  <2>3. held[t] = k /\ depth[t] # 0 /\ holder_repeat_nr[k] = depth[t]
    BY <1>0, <1>1, <1>3 DEF ClientOK, HolderAt
  <2>4. /\ pc'[t] = "acquired" /\ OthersSame(t)
        /\ holder_repeat_nr'[k] = depth[t] + 1
        /\ \A l \in Lock \ {k} : holder_repeat_nr'[l] = holder_repeat_nr[l]
    BY <1>0, <1>1, <1>3, <2>3, SMT, Z3 DEF Inv, TypeOK, SyncTypeOK, OthersSame
  <2>5. ClientOK(t)'
    BY <1>0, <1>1, <1>3, <2>3, <2>4, SMT, Z3 DEF ClientOK, SyncPoint
  <2>6. ASSUME NEW l \in Lock  PROVE HolderAt(t, l)'
    <3>1. HolderAt(t, l)
      BY DEF Inv, LockInv
    <3>. QED  BY <1>0, <2>3, <2>4, <3>1, Zenon DEF HolderAt
  <2>7. ClientInv' /\ LockInv'
    <3>1. PICK q \in Lock : q = k
      BY <1>0, <1>1, <1>3, <2>4, Zenon
    <3>2. Owns(t, q)
      BY <1>0, <1>1, <1>3, <2>4, <3>1, SMT, Z3 DEF Owns
    <3>3. Owns(t, q)' /\ value' = value /\ holder'[q] \in {t, NULL}
      BY <1>0, <1>1, <1>3, <2>4, <3>1, SMT, Z3 DEF Owns
    <3>4. ASSUME NEW l \in Lock, l # q  PROVE Owns(t, l)' <=> Owns(t, l)
      BY <1>0, <1>1, <1>3, <2>4, <3>1, <3>4, SMT, Z3 DEF Owns
    <3>5. ASSUME NEW l \in Lock, l # q
          PROVE  holder'[l] = holder[l] /\ holder_repeat_nr'[l] = holder_repeat_nr[l]
      BY <1>0, <1>1, <1>3, <2>4, <3>1, <3>5, SMT, Z3
    <3>6. OthersSame(t) /\ ClientOK(t)'
      BY <2>4, <2>5, SMT, Z3
    <3>. QED  BY <2>6, <3>2, <3>3, <3>4, <3>5, <3>6, OwnLockStep, Zenon
  <2>. QED  BY <2>1, <2>2, <2>7 DEF Inv
<1>. QED  BY <1>2, <1>3, SMT, Z3 DEF lock_acquire_test, goto

LEMMA AcquireHolderInv ==
  ASSUME Inv, NEW t \in Thread, lock_acquire_holder(t), UNCHANGED clientVars  PROVE Inv'
<1> USE ThreadAssumption, SyncAssumption, NestAssumption
<1> DEFINE k == arg[t]
<1>0. /\ t = current /\ pc[t] = "la_holder" /\ t # idle_thread
      /\ holder' = [holder EXCEPT ![k] = t]
      /\ pc' = [pc EXCEPT ![t] = "la_repeat"]
      /\ UNCHANGED <<threadVars, value, waiters, holder_repeat_nr, arg, ret, old_status,
                     clientVars>>
  BY SMT, Z3 DEF lock_acquire_holder, At, goto, Inv, StatusInv
<1>1. ClientOK(t)
  BY DEF Inv, ClientInv
<1>2. /\ k \in Lock /\ ret[t] = "acquired" /\ depth[t] = 0 /\ held[t] = NULL
      /\ holder_repeat_nr[k] = 0
  BY <1>0, <1>1 DEF ClientOK, SyncPoint
<1>3. SchedInv' /\ TagInOneList' /\ StatusInv' /\ NoLostWakeup'
  BY <1>0, QuietStep, Zenon
<1>4. TypeOK'
  <2>1. holder' \in [Lock -> Thread \cup {NULL}]
    BY <1>0, Zenon DEF Inv, TypeOK, SyncTypeOK
  <2>. QED
    BY <1>0, <1>2, <2>1, SMT, Z3
    DEF Inv, TypeOK, ThreadTypeOK, SyncTypeOK, SyncPoint, threadVars, clientVars
<1>5. /\ pc'[t] = "la_repeat" /\ OthersSame(t) /\ held' = held /\ depth' = depth
      /\ holder'[k] = t /\ \A l \in Lock \ {k} : holder'[l] = holder[l]
  BY <1>0, <1>2 DEF Inv, TypeOK, SyncTypeOK, OthersSame, clientVars
<1>6. ClientOK(t)'
  BY <1>0, <1>2, <1>5 DEF ClientOK, SyncPoint
<1>7. ASSUME NEW l \in Lock  PROVE HolderAt(t, l)'
  <2>1. HolderAt(t, l)
    BY DEF Inv, LockInv
  <2>. QED  BY <1>0, <1>5, <2>1, SMT, Z3 DEF HolderAt
<1>8. ClientInv' /\ LockInv'
  <2>1. PICK q \in Lock : q = k
    BY <1>0, <1>2, <1>5, SMT, Z3
  <2>2. Owns(t, q)
    BY <1>0, <1>2, <1>5, <2>1, SMT, Z3 DEF Owns
  <2>3. Owns(t, q)' /\ value' = value /\ holder'[q] \in {t, NULL}
    BY <1>0, <1>2, <1>5, <2>1, SMT, Z3 DEF Owns
  <2>4. ASSUME NEW l \in Lock, l # q  PROVE Owns(t, l)' <=> Owns(t, l)
    BY <1>0, <1>2, <1>5, <2>1, <2>4, SMT, Z3 DEF Owns
  <2>5. ASSUME NEW l \in Lock, l # q
        PROVE  holder'[l] = holder[l] /\ holder_repeat_nr'[l] = holder_repeat_nr[l]
    BY <1>0, <1>2, <1>5, <2>1, <2>5, SMT, Z3
  <2>6. OthersSame(t) /\ ClientOK(t)'
    BY <1>5, <1>6, SMT, Z3
  <2>. QED  BY <1>7, <2>2, <2>3, <2>4, <2>5, <2>6, OwnLockStep, SMT, Z3
<1>. QED  BY <1>3, <1>4, <1>8 DEF Inv

LEMMA AcquireRepeatInv ==
  ASSUME Inv, NEW t \in Thread, lock_acquire_repeat(t), UNCHANGED clientVars  PROVE Inv'
<1> USE ThreadAssumption, SyncAssumption, NestAssumption
<1> DEFINE k == arg[t]
<1>0. /\ t = current /\ pc[t] = "la_repeat" /\ t # idle_thread
      /\ holder_repeat_nr' = [holder_repeat_nr EXCEPT ![k] = 1]
      /\ pc' = [pc EXCEPT ![t] = ret[t]]
      /\ UNCHANGED <<value, waiters, holder, arg, ret, old_status, clientVars>>
  BY SMT, Z3 DEF lock_acquire_repeat, At, goto, Inv, StatusInv
<1>1. ClientOK(t)
  BY DEF Inv, ClientInv
<1>2. /\ k \in Lock /\ ret[t] = "acquired" /\ depth[t] = 0 /\ held[t] = NULL
      /\ holder[k] = t /\ holder_repeat_nr[k] = 0
  BY <1>0, <1>1, SMT, Z3 DEF ClientOK, SyncPoint
<1>3. UNCHANGED threadVars
  BY <1>2, Zenon DEF lock_acquire_repeat, assert, threadVars, Inv, SchedInv
<1>4. SchedInv' /\ TagInOneList' /\ StatusInv' /\ NoLostWakeup'
  BY <1>0, <1>2, <1>3, QuietStep, Zenon
<1>5. TypeOK'
  BY <1>0, <1>2, <1>3, SMT, Z3 DEF Inv, TypeOK, ThreadTypeOK, SyncTypeOK, SyncPoint, threadVars, clientVars
<1>6. /\ pc'[t] = "acquired" /\ OthersSame(t) /\ held' = held /\ depth' = depth
      /\ holder_repeat_nr'[k] = 1
      /\ \A l \in Lock \ {k} : holder_repeat_nr'[l] = holder_repeat_nr[l]
  BY <1>0, <1>2 DEF Inv, TypeOK, SyncTypeOK, OthersSame, clientVars
<1>7. ClientOK(t)'
  <2>1. arg'[t] = k /\ ret'[t] = "acquired" /\ held'[t] = NULL /\ depth'[t] = 0 /\ holder'[k] = t
    BY <1>0, <1>2, <1>6, Zenon
  <2>. QED  BY <1>2, <1>6, <2>1, SMT, Z3 DEF ClientOK, SyncPoint
<1>8. ASSUME NEW l \in Lock  PROVE HolderAt(t, l)'
  <2>1. HolderAt(t, l)
    BY DEF Inv, LockInv
  <2>. QED  BY <1>0, <1>6, <2>1, SMT, Z3 DEF HolderAt
<1>9. ClientInv' /\ LockInv'
  <2>1. PICK q \in Lock : q = k
    BY <1>0, <1>2, <1>6, SMT, Z3
  <2>2. Owns(t, q)
    BY <1>0, <1>2, <1>6, <2>1, SMT, Z3 DEF Owns
  <2>3. Owns(t, q)' /\ value' = value /\ holder'[q] \in {t, NULL}
    BY <1>0, <1>2, <1>6, <2>1, SMT, Z3 DEF Owns
  <2>4. ASSUME NEW l \in Lock, l # q  PROVE Owns(t, l)' <=> Owns(t, l)
    BY <1>0, <1>2, <1>6, <2>1, <2>4, SMT, Z3 DEF Owns
  <2>5. ASSUME NEW l \in Lock, l # q
        PROVE  holder'[l] = holder[l] /\ holder_repeat_nr'[l] = holder_repeat_nr[l]
    BY <1>0, <1>2, <1>6, <2>1, <2>5, SMT, Z3
  <2>6. OthersSame(t) /\ ClientOK(t)'
    BY <1>6, <1>7, SMT, Z3
  <2>. QED  BY <1>8, <2>2, <2>3, <2>4, <2>5, <2>6, OwnLockStep
<1>. QED  BY <1>4, <1>5, <1>9 DEF Inv

LEMMA ReleaseTestInv ==
  ASSUME Inv, NEW t \in Thread, lock_release_test(t), UNCHANGED clientVars  PROVE Inv'
<1> USE ThreadAssumption, SyncAssumption, NestAssumption
<1> DEFINE k == arg[t]
<1>0. /\ t = current /\ pc[t] = "lock_release" /\ t # idle_thread
      /\ UNCHANGED <<value, waiters, arg, ret, old_status, clientVars>>
  BY DEF lock_release_test, At, Inv, StatusInv
<1>1. /\ ClientOK(t) /\ held' = held /\ depth' = depth /\ depth[t] \in Nat
  BY <1>0, SMT, Z3 DEF Inv, TypeOK, ClientInv, clientVars
<1>2. /\ k \in Lock /\ ret[t] = "released" /\ depth[t] < MaxNest
      /\ holder[k] = t /\ holder_repeat_nr[k] = depth[t] + 1
      /\ held[t] = IF depth[t] = 0 THEN NULL ELSE k
  BY <1>0, <1>1, SMT, Z3 DEF ClientOK, SyncPoint
<1>3. CASE /\ holder_repeat_nr[k] > 1
           /\ assert(holder[k] = t)
           /\ holder_repeat_nr' = [holder_repeat_nr EXCEPT ![k] = @ - 1]
           /\ pc' = [pc EXCEPT ![t] = ret[t]]
           /\ UNCHANGED holder
  <2>1. UNCHANGED threadVars
    BY <1>2, <1>3, Zenon DEF assert, threadVars, Inv, SchedInv
  <2>2. SchedInv' /\ TagInOneList' /\ StatusInv' /\ NoLostWakeup'
    BY <1>0, <1>2, <1>3, <2>1, QuietStep, Zenon
  <2>3. TypeOK'
    <3>1. holder_repeat_nr' \in [Lock -> Nat]
      BY <1>1, <1>2, <1>3 DEF Inv, TypeOK, SyncTypeOK
    <3>. QED
      BY <1>0, <1>2, <1>3, <2>1, <3>1, Zenon
      DEF Inv, TypeOK, ThreadTypeOK, SyncTypeOK, SyncPoint, threadVars, clientVars
  <2>4. depth[t] # 0 /\ held[t] = k
    BY <1>1, <1>2, <1>3
  <2>5. /\ pc'[t] = "released" /\ OthersSame(t) /\ holder_repeat_nr'[k] = depth[t]
        /\ \A l \in Lock \ {k} : holder_repeat_nr'[l] = holder_repeat_nr[l]
    BY <1>0, <1>1, <1>2, <1>3 DEF Inv, TypeOK, SyncTypeOK, OthersSame
  <2>6. ClientOK(t)'
    BY <1>0, <1>1, <1>2, <1>3, <2>4, <2>5, Zenon DEF ClientOK, SyncPoint
  <2>7. ASSUME NEW l \in Lock  PROVE HolderAt(t, l)'
    <3>1. HolderAt(t, l)
      BY DEF Inv, LockInv
    <3>. QED  BY <1>0, <1>1, <1>3, <2>4, <2>5, <3>1, Zenon DEF HolderAt
  <2>8. ClientInv' /\ LockInv'
    <3>1. PICK q \in Lock : q = k
      BY <1>0, <1>2, <1>3, <2>5, SMT, Z3
    <3>2. Owns(t, q)
      BY <1>0, <1>2, <1>3, <2>5, <3>1, SMT, Z3 DEF Owns
    <3>3. Owns(t, q)' /\ value' = value /\ holder'[q] \in {t, NULL}
      BY <1>0, <1>2, <1>3, <2>5, <3>1, SMT, Z3 DEF Owns
    <3>4. ASSUME NEW l \in Lock, l # q  PROVE Owns(t, l)' <=> Owns(t, l)
      BY <1>0, <1>2, <1>3, <2>5, <3>1, <3>4, SMT, Z3 DEF Owns
    <3>5. ASSUME NEW l \in Lock, l # q
          PROVE  holder'[l] = holder[l] /\ holder_repeat_nr'[l] = holder_repeat_nr[l]
      BY <1>0, <1>2, <1>3, <2>5, <3>1, <3>5, SMT, Z3
    <3>6. OthersSame(t) /\ ClientOK(t)'
      BY <2>5, <2>6, SMT, Z3
    <3>. QED  BY <2>7, <3>2, <3>3, <3>4, <3>5, <3>6, OwnLockStep
  <2>. QED  BY <2>2, <2>3, <2>8 DEF Inv
<1>4. CASE /\ ~(holder_repeat_nr[k] > 1)
           /\ assert(holder[k] = t /\ holder_repeat_nr[k] = 1)
           /\ holder' = [holder EXCEPT ![k] = NULL]
           /\ pc' = [pc EXCEPT ![t] = "lr_repeat"]
           /\ UNCHANGED holder_repeat_nr
  <2>1. depth[t] = 0 /\ held[t] = NULL /\ holder_repeat_nr[k] = 1
    <3>1. depth[t] \in Nat /\ holder_repeat_nr[k] = depth[t] + 1 /\ ~(holder_repeat_nr[k] > 1)
      BY <1>1, <1>2, <1>4
    <3>2. depth[t] = 0
      BY <3>1
    <3>3. held[t] = NULL
      BY <1>2, <3>2
    <3>4. holder_repeat_nr[k] = 1
      BY <3>1, <3>2, SMT, Z3
    <3>. QED  BY <3>2, <3>3, <3>4, SMT, Z3
  <2>2. UNCHANGED threadVars
    BY <1>2, <1>4, <2>1, Zenon DEF assert, threadVars, Inv, SchedInv
  <2>3. SchedInv' /\ TagInOneList' /\ StatusInv' /\ NoLostWakeup'
    BY <1>0, <1>4, <2>2, QuietStep, Zenon
  <2>4. TypeOK'
    <3>1. holder' \in [Lock -> Thread \cup {NULL}]
      BY <1>4, Zenon DEF Inv, TypeOK, SyncTypeOK
    <3>. QED
      BY <1>0, <1>4, <2>2, <3>1, Zenon
      DEF Inv, TypeOK, ThreadTypeOK, SyncTypeOK, SyncPoint, threadVars, clientVars
  <2>5. /\ pc'[t] = "lr_repeat" /\ OthersSame(t) /\ holder'[k] = NULL
        /\ \A l \in Lock \ {k} : holder'[l] = holder[l]
    BY <1>0, <1>1, <1>2, <1>4 DEF Inv, TypeOK, SyncTypeOK, OthersSame
  <2>6. ClientOK(t)'
    BY <1>0, <1>1, <1>2, <2>1, <2>5, SMT, Z3 DEF ClientOK, SyncPoint
  <2>7. ASSUME NEW l \in Lock  PROVE HolderAt(t, l)'
    <3>1. HolderAt(t, l)
      BY DEF Inv, LockInv
    <3>. QED  BY <1>0, <2>5, <3>1, Zenon DEF HolderAt
  <2>8. ClientInv' /\ LockInv'
    <3>1. PICK q \in Lock : q = k
      BY <1>0, <1>2, <1>4, <2>5, Zenon
    <3>2. Owns(t, q)
      BY <1>0, <1>2, <1>4, <2>5, <3>1, SMT, Z3 DEF Owns
    <3>3. Owns(t, q)' /\ value' = value /\ holder'[q] \in {t, NULL}
      BY <1>0, <1>2, <1>4, <2>5, <3>1, SMT, Z3 DEF Owns
    <3>4. ASSUME NEW l \in Lock, l # q  PROVE Owns(t, l)' <=> Owns(t, l)
      BY <1>0, <1>2, <1>4, <2>5, <3>1, <3>4, SMT, Z3 DEF Owns
    <3>5. ASSUME NEW l \in Lock, l # q
          PROVE  holder'[l] = holder[l] /\ holder_repeat_nr'[l] = holder_repeat_nr[l]
      BY <1>0, <1>2, <1>4, <2>5, <3>1, <3>5, SMT, Z3
    <3>6. OthersSame(t) /\ ClientOK(t)'
      BY <2>5, <2>6, SMT, Z3
    <3>. QED  BY <2>7, <3>2, <3>3, <3>4, <3>5, <3>6, OwnLockStep
  <2>. QED  BY <2>3, <2>4, <2>8 DEF Inv
<1>. QED  BY <1>3, <1>4, SMT, Z3 DEF lock_release_test, goto

LEMMA ReleaseRepeatInv ==
  ASSUME Inv, NEW t \in Thread, lock_release_repeat(t), UNCHANGED clientVars  PROVE Inv'
<1> USE ThreadAssumption, SyncAssumption, NestAssumption
<1> DEFINE k == arg[t]
<1>0. /\ t = current /\ pc[t] = "lr_repeat" /\ t # idle_thread
      /\ holder_repeat_nr' = [holder_repeat_nr EXCEPT ![k] = 0]
      /\ pc' = [pc EXCEPT ![t] = "sema_up"]
      /\ UNCHANGED <<threadVars, value, waiters, holder, arg, ret, old_status, clientVars>>
  BY SMT, Z3 DEF lock_release_repeat, At, goto, Inv, StatusInv
<1>1. ClientOK(t) /\ HolderAt(t, k)
  <2>1. ClientOK(t)
    BY DEF Inv, ClientInv
  <2>2. k \in Lock
    BY <1>0, <2>1, SMT, Z3 DEF ClientOK, SyncPoint
  <2>. QED  BY <2>1, <2>2, SMT, Z3 DEF Inv, LockInv
<1>2. /\ k \in Lock /\ ret[t] = "released" /\ depth[t] = 0 /\ held[t] = NULL /\ holder[k] # t
  BY <1>0, <1>1 DEF ClientOK, HolderAt, SyncPoint
<1>3. SchedInv' /\ TagInOneList' /\ StatusInv' /\ NoLostWakeup'
  BY <1>0, QuietStep, Zenon
<1>4. TypeOK'
  BY <1>0, <1>2, Zenon DEF Inv, TypeOK, ThreadTypeOK, SyncTypeOK, SyncPoint, threadVars, clientVars
<1>5. /\ pc'[t] = "sema_up" /\ OthersSame(t) /\ held' = held /\ depth' = depth
      /\ holder_repeat_nr'[k] = 0
      /\ \A l \in Lock \ {k} : holder_repeat_nr'[l] = holder_repeat_nr[l]
  BY <1>0, <1>2 DEF Inv, TypeOK, SyncTypeOK, OthersSame, clientVars
<1>6. ClientOK(t)'
  BY <1>0, <1>2, <1>5, Zenon DEF ClientOK, SyncPoint
<1>7. ASSUME NEW l \in Lock  PROVE HolderAt(t, l)'
  <2>1. HolderAt(t, l)
    BY DEF Inv, LockInv
  <2>. QED  BY <1>0, <1>5, <2>1, SMT, Z3 DEF HolderAt
<1>8. holder'[k] \in {t, NULL}
  <2>1. OneOwner(k) /\ Owns(t, k)
    BY <1>0, <1>2, SMT, Z3 DEF Inv, LockInv, Owns
  <2>2. \A u \in Thread : holder[k] = u => u = t
    BY <2>1, SMT, Z3 DEF OneOwner, Owns
  <2>. QED  BY <1>0, <1>2, <2>2, SMT, Z3 DEF Inv, TypeOK, SyncTypeOK
<1>9. ClientInv' /\ LockInv'
  <2>1. PICK q \in Lock : q = k
    BY <1>0, <1>2, <1>5, <1>8, SMT, Z3
  <2>2. Owns(t, q)
    BY <1>0, <1>2, <1>5, <1>8, <2>1, SMT, Z3 DEF Owns
  <2>3. Owns(t, q)' /\ value' = value /\ holder'[q] \in {t, NULL}
    BY <1>0, <1>2, <1>5, <1>8, <2>1, SMT, Z3 DEF Owns
  <2>4. ASSUME NEW l \in Lock, l # q  PROVE Owns(t, l)' <=> Owns(t, l)
    BY <1>0, <1>2, <1>5, <1>8, <2>1, <2>4, SMT, Z3 DEF Owns
  <2>5. ASSUME NEW l \in Lock, l # q
        PROVE  holder'[l] = holder[l] /\ holder_repeat_nr'[l] = holder_repeat_nr[l]
    BY <1>0, <1>2, <1>5, <1>8, <2>1, <2>5, SMT, Z3
  <2>6. OthersSame(t) /\ ClientOK(t)'
    BY <1>5, <1>6
  <2>. QED  BY <1>7, <2>2, <2>3, <2>4, <2>5, <2>6, OwnLockStep
<1>. QED  BY <1>3, <1>4, <1>9 DEF Inv

LEMMA DownTakeInv ==
  ASSUME Inv, NEW t \in Thread, sema_down_take(t), UNCHANGED clientVars  PROVE Inv'
<1> USE ThreadAssumption, SyncAssumption, NestAssumption
<1>0. /\ t = current /\ pc[t] \in {"sema_down", "sema_wait"} /\ t # idle_thread
      /\ value[arg[t]] # 0
      /\ value' = [value EXCEPT ![arg[t]] = @ - 1]
      /\ old_status' = [old_status EXCEPT ![t] = FALSE]
      /\ UNCHANGED <<thread_ready_list, status, current, ticks, saved_if, waiters, holder,
                     holder_repeat_nr, arg, ret, clientVars>>
  BY SMT, Z3 DEF sema_down_take, At, Inv, StatusInv
<1>1. arg[t] \in Lock /\ ret[t] = "acquired" /\ depth[t] = 0 /\ held[t] = NULL
  <2>1. ClientOK(t)
    BY DEF Inv, ClientInv
  <2>. QED  BY <1>0, <2>1, SMT, Z3 DEF ClientOK, SyncPoint
<1>2. /\ value[arg[t]] = 1 /\ value' \in [Lock -> {0, 1}] /\ value'[arg[t]] = 0
      /\ \A l \in Lock : l # arg[t] => value'[l] = value[l]
  BY <1>0, <1>1, SMT, Z3 DEF Inv, TypeOK, SyncTypeOK
<1>3. pc' = [pc EXCEPT ![t] = "la_holder"]
  BY <1>1, Zenon DEF sema_down_take, goto, after_down
<1>4. panic' = FALSE
  BY <1>2, Zenon DEF sema_down_take
<1>5. intr' \in BOOLEAN
  BY SMT, Z3 DEF sema_down_take, Inv, SchedInv, ThreadTypeOK, TypeOK, SyncTypeOK
<1>6. SchedInv'
  BY <1>0, <1>4, <1>5, Zenon DEF Inv, SchedInv, ThreadTypeOK, ReadyListConsistent
<1>7. TypeOK'
  <2>1. old_status' \in [Thread -> BOOLEAN]
    BY <1>0, SMT, Z3 DEF Inv, TypeOK, SyncTypeOK
  <2>. QED
    BY <1>0, <1>2, <1>3, <1>6, <2>1, SMT, Z3
    DEF Inv, TypeOK, SchedInv, SyncTypeOK, SyncPoint, clientVars
<1>8. status[t] = "RUNNING" /\ \A l \in Lock : ~elem_find(waiters[l], t)
  BY <1>0, CurrentIsNotWaiting, SMT, Z3
<1>9. TagInOneList'
  <2>0. waiters' = waiters /\ \A s \in Lock \cup Sema : NoRepeat(waiters[s])
    BY <1>0, SMT, Z3 DEF Inv, TagInOneList
  <2>1. ASSUME NEW s \in Lock \cup Sema, NEW u \in Thread, elem_find(waiters[s], u)
        PROVE  /\ status'[u] = "BLOCKED" /\ pc'[u] = "sema_wait" /\ arg'[u] = s
               /\ ~elem_find(thread_ready_list', u)
    <3>1. /\ u # t /\ status[u] = "BLOCKED" /\ pc[u] = "sema_wait" /\ arg[u] = s
          /\ ~elem_find(thread_ready_list, u)
      BY <1>8, <2>1, SMT, Z3 DEF Inv, TagInOneList
    <3>. QED  BY <1>0, <1>3, <3>1, SMT, Z3 DEF Inv, TypeOK
  <2>. QED  BY <2>0, <2>1, SMT, Z3 DEF TagInOneList
<1>10. StatusInv'
  BY <1>0, <1>3, <1>8, SMT, Z3 DEF Inv, TypeOK, StatusInv
<1>11. \A u \in Thread : pc[u] = "sema_wait" => arg[u] \in Lock
  BY SMT, Z3 DEF Inv, ClientInv, ClientOK, SyncPoint
<1>12. NoLostWakeup'
  <2> SUFFICES ASSUME NEW v \in Thread, pc'[v] = "sema_wait", status'[v] = "BLOCKED"
               PROVE  /\ elem_find(waiters'[arg'[v]], v)
                      /\ value'[arg'[v]] = 1 =>
                           \E u \in Thread : /\ pc'[u] \in {"sema_down", "sema_wait"}
                                             /\ arg'[u] = arg'[v]
                                             /\ status'[u] \in {"READY", "RUNNING"}
    BY Zenon DEF NoLostWakeup
  <2>1. v # t /\ pc[v] = "sema_wait" /\ status[v] = "BLOCKED"
    BY <1>0, <1>3, <1>8, SMT, Z3 DEF Inv, TypeOK
  <2>2. ASSUME value'[arg[v]] = 1
        PROVE  \E u \in Thread : /\ pc'[u] \in {"sema_down", "sema_wait"}
                                 /\ arg'[u] = arg'[v]
                                 /\ status'[u] \in {"READY", "RUNNING"}
    <3>1. arg[v] # arg[t] /\ value[arg[v]] = 1
      <4>1. arg[v] \in Lock
        BY <1>11, <2>1, SMT, Z3
      <4>2. arg[v] # arg[t]
        BY <1>2, <2>2, SMT, Z3
      <4>3. value'[arg[v]] = value[arg[v]]
        BY <1>2, <4>1, <4>2, SMT, Z3
      <4>. QED  BY <2>2, <4>2, <4>3, SMT, Z3
    <3>2. PICK u \in Thread : /\ pc[u] \in {"sema_down", "sema_wait"}
                              /\ arg[u] = arg[v]
                              /\ status[u] \in {"READY", "RUNNING"}
      BY <2>1, <3>1, SMT, Z3 DEF Inv, NoLostWakeup
    <3>. QED  BY <1>0, <1>3, <3>1, <3>2, SMT, Z3 DEF Inv, TypeOK
  <2>. QED  BY <1>0, <2>1, <2>2, SMT, Z3 DEF Inv, NoLostWakeup
<1>13. /\ OneOwner(arg[t]) /\ holder_repeat_nr[arg[t]] = 0 /\ \A u \in Thread : ~Owns(u, arg[t])
  <2>1. OneOwner(arg[t])
    BY <1>1, SMT, Z3 DEF Inv, LockInv
  <2>. QED  BY <1>2, <2>1, SMT, Z3 DEF OneOwner
<1>14. pc'[t] = "la_holder" /\ OthersSame(t) /\ held' = held /\ depth' = depth
  BY <1>0, <1>3, SMT, Z3 DEF Inv, TypeOK, OthersSame, clientVars
<1>15. ClientInv'
  <2>1. ClientOK(t)'
    BY <1>0, <1>1, <1>13, <1>14, Zenon DEF ClientOK, SyncPoint
  <2>. QED  BY <1>0, <1>14, <2>1, ClientStep, SMT, Z3
<1>16. LockInv'
  <2>1. ASSUME NEW l \in Lock  PROVE HolderAt(t, l)'
    <3>1. HolderAt(t, l)
      BY DEF Inv, LockInv
    <3>. QED  BY <1>0, <1>1, <1>13, <3>1, SMT, Z3 DEF HolderAt, Owns
  <2>2. ASSUME NEW u \in Thread, NEW l \in Lock
        PROVE  Owns(u, l)' <=> Owns(u, l) \/ (u = t /\ l = arg[t])
    <3>1. CASE u = t
      BY <1>0, <1>14, <3>1, SMT, Z3 DEF Owns
    <3>2. CASE u # t
      BY <1>0, <1>14, <3>2, SMT, Z3 DEF Owns, OthersSame
    <3>. QED  BY <3>1, <3>2, SMT, Z3
  <2>3. ASSUME NEW l \in Lock  PROVE OneOwner(l)'
    <3>1. CASE l = arg[t]
      <4>1. \A u \in Thread : Owns(u, l)' <=> u = t
        BY <1>13, <2>2, <3>1
      <4>2. \A u, v \in Thread : Owns(u, l)' /\ Owns(v, l)' => u = v
        BY <4>1, SMT, Z3
      <4>3. value'[l] = 0 /\ \E u \in Thread : Owns(u, l)'
        BY <1>2, <3>1, <4>1, SMT, Z3
      <4>. QED  BY <4>2, <4>3, SMT, Z3 DEF OneOwner
    <3>2. CASE l # arg[t]
      <4>1. OneOwner(l) /\ value'[l] = value[l] /\ holder_repeat_nr'[l] = holder_repeat_nr[l]
        BY <1>0, <1>2, <3>2, SMT, Z3 DEF Inv, LockInv
      <4>2. \A u \in Thread : Owns(u, l)' <=> Owns(u, l)
        BY <2>2, <3>2, SMT, Z3
      <4>. QED  BY <4>1, <4>2, SMT, Z3 DEF OneOwner
    <3>. QED  BY <3>1, <3>2, SMT, Z3
  <2>. QED  BY <1>0, <1>14, <2>1, <2>3, LockStep, Zenon
<1>. QED  BY <1>6, <1>7, <1>9, <1>10, <1>12, <1>15, <1>16, SMT, Z3 DEF Inv

LEMMA DownWaitInv ==
  ASSUME Inv, NEW t \in Thread, sema_down_wait(t), UNCHANGED clientVars  PROVE Inv'
<1> USE ThreadAssumption, SyncAssumption, NestAssumption
<1>0. /\ t = current /\ pc[t] \in {"sema_down", "sema_wait"} /\ t # idle_thread
      /\ value[arg[t]] = 0
      /\ waiters' = [waiters EXCEPT ![arg[t]] = list_append(@, t)]
      /\ pc' = [pc EXCEPT ![t] = "sema_wait"]
      /\ UNCHANGED <<value, holder, holder_repeat_nr, arg, ret, clientVars>>
  BY SMT, Z3 DEF sema_down_wait, At, goto, Inv, StatusInv
<1>1. arg[t] \in Lock /\ ret[t] = "acquired" /\ depth[t] = 0 /\ held[t] = NULL
  <2>1. ClientOK(t)
    BY DEF Inv, ClientInv
  <2>. QED  BY <1>0, <2>1, SMT, Z3 DEF ClientOK, SyncPoint
<1>2. status[t] = "RUNNING" /\ \A l \in Lock : ~elem_find(waiters[l], t)
  BY <1>0, CurrentIsNotWaiting
<1>3. SchedInv' /\ BlockedAre({u \in Thread : status[u] = "BLOCKED"} \cup {current})
  <2>1. elem_find(waiters[arg[t]], t) = FALSE
    BY <1>1, <1>2 DEF elem_find
  <2>2. thread_block(FALSE, FALSE)
    BY <2>1, Zenon DEF sema_down_wait
  <2>. QED  BY <2>2, BlockFacts, Zenon DEF Inv
<1>4. /\ status'[t] = "BLOCKED"
      /\ \A u \in Thread : /\ status'[u] = "BLOCKED" => status[u] = "BLOCKED" \/ u = t
                           /\ status[u] = "BLOCKED" /\ u # idle_thread => status'[u] = "BLOCKED"
                           /\ status'[u] = "NONE" <=> status[u] = "NONE"
  BY <1>0, <1>3 DEF BlockedAre
<1>5. /\ waiters' \in [Lock -> Seq(Thread)]
      /\ \A l \in Lock : NoRepeat(waiters'[l])
      /\ \A u \in Thread, l \in Lock :
           elem_find(waiters'[l], u) <=> elem_find(waiters[l], u) \/ (u = t /\ l = arg[t])
  <2>1. waiters \in [Lock -> Seq(Thread)] /\ \A l \in Lock : NoRepeat(waiters[l])
    <3>1. TypeOK /\ TagInOneList
      BY SMT, Z3 DEF Inv
    <3>2. waiters \in [Lock -> Seq(Thread)]
      BY <3>1, SMT, Z3 DEF TypeOK, SyncTypeOK
    <3>. QED  BY <3>1, <3>2 DEF TagInOneList
  <2>2. /\ list_append(waiters[arg[t]], t) \in Seq(Thread)
        /\ NoRepeat(list_append(waiters[arg[t]], t))
        /\ \A u : elem_find(list_append(waiters[arg[t]], t), u)
                    <=> u = t \/ elem_find(waiters[arg[t]], u)
    BY <1>1, <1>2, <2>1, AppendFacts, Zenon
  <2>. QED  BY <1>0, <1>1, <2>1, <2>2, Zenon
<1>6. TypeOK'
  <2>1. old_status' \in [Thread -> BOOLEAN]
    BY SMT, Z3 DEF sema_down_wait, Inv, TypeOK, SyncTypeOK, ThreadTypeOK
  <2>. QED
    BY <1>0, <1>3, <1>5, <2>1, Zenon DEF Inv, TypeOK, SchedInv, SyncTypeOK, SyncPoint, clientVars
<1>7. \A u \in Thread : status'[u] = "BLOCKED" => ~elem_find(thread_ready_list', u)
  BY <1>3, SMT, Z3 DEF SchedInv, ReadyListConsistent
<1>8. TagInOneList'
  <2>1. idle_thread # t /\ pc[idle_thread] # "sema_wait"
    BY <1>0, SMT, Z3 DEF Inv, StatusInv
  <2>2. ASSUME NEW s \in Lock \cup Sema, NEW u \in Thread, elem_find(waiters'[s], u)
        PROVE  status'[u] = "BLOCKED" /\ pc'[u] = "sema_wait" /\ arg'[u] = s
    <3>1. CASE u = t /\ s = arg[t]
      BY <1>0, <1>4, <3>1, SMT, Z3 DEF Inv, TypeOK
    <3>2. CASE ~(u = t /\ s = arg[t])
      <4>1. elem_find(waiters[s], u) /\ u # t
        BY <1>2, <1>5, <2>2, <3>2, NestAssumption, SMT, Z3
      <4>2. status[u] = "BLOCKED" /\ pc[u] = "sema_wait" /\ arg[u] = s
        BY <4>1, SMT, Z3 DEF Inv, TagInOneList
      <4>. QED  BY <1>0, <1>4, <2>1, <4>1, <4>2, Zenon DEF Inv, TypeOK
    <3>. QED  BY <3>1, <3>2, SMT, Z3
  <2>. QED  BY <1>5, <1>7, <2>2, NestAssumption, SMT, Z3 DEF TagInOneList
<1>9. StatusInv'
  <2>1. /\ pc'[t] = "sema_wait" /\ arg'[t] = arg[t] /\ arg[t] \in Lock /\ t # idle_thread
        /\ elem_find(waiters'[arg[t]], t)
    BY <1>0, <1>1, <1>5, Zenon DEF Inv, TypeOK, StatusInv
  <2>2. \A u \in Thread \ {t} : pc'[u] = pc[u] /\ arg'[u] = arg[u]
    BY <1>0, SMT, Z3 DEF Inv, TypeOK
  <2>3. \A u \in Thread \ {t} : status[u] = "BLOCKED" /\ u # idle_thread => arg[u] \in Lock
    BY Zenon DEF Inv, StatusInv, ClientInv, ClientOK, SyncPoint
  <2>4. ASSUME NEW u \in Thread, u # t
        PROVE  /\ u = idle_thread <=> pc'[u] \in {"idle", "hlt"}
               /\ status'[u] = "NONE" => u \notin {idle_thread, main_thread} /\ pc'[u] = "run"
               /\ status'[u] = "BLOCKED" /\ u # idle_thread =>
                    pc'[u] = "sema_wait" /\ elem_find(waiters'[arg'[u]], u)
    BY <1>4, <1>5, <2>2, <2>3, <2>4, Zenon DEF Inv, StatusInv
  <2>. QED  BY <1>4, <2>1, <2>4, Zenon DEF StatusInv
<1>10. NoLostWakeup'
  <2> SUFFICES ASSUME NEW v \in Thread, pc'[v] = "sema_wait", status'[v] = "BLOCKED"
               PROVE  /\ elem_find(waiters'[arg'[v]], v)
                      /\ value'[arg'[v]] = 1 =>
                           \E u \in Thread : /\ pc'[u] \in {"sema_down", "sema_wait"}
                                             /\ arg'[u] = arg'[v]
                                             /\ status'[u] \in {"READY", "RUNNING"}
    BY SMT, Z3 DEF NoLostWakeup
  <2>1. CASE v = t
    <3>1. arg'[v] = arg[t] /\ value'[arg'[v]] = 0
      BY <1>0, <2>1, SMT, Z3
    <3>2. elem_find(waiters'[arg[t]], t)
      BY <1>1, <1>5, SMT, Z3
    <3>. QED  BY <2>1, <3>1, <3>2, SMT, Z3
  <2>2. CASE v # t
    <3>1. pc[v] = "sema_wait" /\ status[v] = "BLOCKED" /\ arg[v] \in Lock /\ arg'[v] = arg[v]
      <4>1. pc[v] = "sema_wait" /\ arg'[v] = arg[v]
        BY <1>0, <2>2, SMT, Z3 DEF Inv, TypeOK
      <4>2. status[v] = "BLOCKED"
        BY <1>4, <2>2, SMT, Z3
      <4>3. ClientOK(v)
        BY SMT, Z3 DEF Inv, ClientInv
      <4>4. arg[v] \in Lock
        BY <4>1, <4>3, SMT, Z3 DEF ClientOK, SyncPoint
      <4>. QED  BY <4>1, <4>2, <4>4, SMT, Z3
    <3>2. elem_find(waiters'[arg'[v]], v)
      BY <1>5, <3>1, Zenon DEF Inv, NoLostWakeup
    <3>3. ASSUME value'[arg'[v]] = 1
          PROVE  \E u \in Thread : /\ pc'[u] \in {"sema_down", "sema_wait"}
                                   /\ arg'[u] = arg'[v]
                                   /\ status'[u] \in {"READY", "RUNNING"}
      <4>0. value[arg[v]] = 1
        BY <1>0, <3>3, SMT, Z3
      <4>1. arg[v] # arg[t]
        BY <1>0, <4>0, SMT, Z3
      <4>2. PICK u \in Thread : /\ pc[u] \in {"sema_down", "sema_wait"}
                                /\ arg[u] = arg[v]
                                /\ status[u] \in {"READY", "RUNNING"}
        BY <3>1, <4>0, SMT, Z3 DEF Inv, NoLostWakeup
      <4>3. u # t /\ status'[u] \in Status
        BY <4>1, <4>2, <1>3, SMT, Z3 DEF SchedInv, ThreadTypeOK
      <4>4. status'[u] \in {"READY", "RUNNING"}
        BY <1>4, <4>2, <4>3, SMT, Z3 DEF Status
      <4>. QED  BY <1>0, <4>2, <4>3, <4>4, SMT, Z3 DEF Inv, TypeOK
    <3>. QED  BY <3>2, <3>3, SMT, Z3
  <2>. QED  BY <2>1, <2>2, SMT, Z3
<1>11. /\ pc'[t] = "sema_wait" /\ OthersSame(t) /\ held' = held /\ depth' = depth
  BY <1>0, SMT, Z3 DEF Inv, TypeOK, OthersSame, clientVars
<1>12. ClientOK(t)'
  BY <1>0, <1>1, <1>11, Zenon DEF ClientOK, SyncPoint
<1>13. ASSUME NEW l \in Lock  PROVE HolderAt(t, l)'
  <2>1. HolderAt(t, l)
    BY DEF Inv, LockInv
  <2>. QED  BY <1>0, <2>1, Zenon DEF HolderAt
<1>14. ClientInv' /\ LockInv'
  BY <1>0, <1>11, <1>12, <1>13, OwnCodeStep, SMT, Z3
<1>. QED  BY <1>3, <1>6, <1>8, <1>9, <1>10, <1>14, SMT, Z3 DEF Inv

LEMMA UpInv ==
  ASSUME Inv, NEW t \in Thread, sema_up_step(t), UNCHANGED clientVars  PROVE Inv'
<1> USE ThreadAssumption, SyncAssumption, NestAssumption
<1> DEFINE s == arg[t]
<1>0. /\ t = current /\ pc[t] = "sema_up" /\ t # idle_thread
      /\ value' = [value EXCEPT ![s] = @ + 1]
      /\ pc' = [pc EXCEPT ![t] = ret[t]]
      /\ UNCHANGED <<intr, holder, holder_repeat_nr, arg, ret, old_status, clientVars>>
  BY Zenon DEF sema_up_step, sema_up, At, goto, Inv, StatusInv
<1>1. /\ s \in Lock /\ ret[t] = "released" /\ depth[t] = 0 /\ held[t] = NULL
      /\ holder_repeat_nr[s] = 0
  <2>1. ClientOK(t)
    BY DEF Inv, ClientInv
  <2>. QED  BY <1>0, <2>1, Zenon DEF ClientOK, SyncPoint
<1>2. value[s] = 0 /\ value' \in [Lock -> {0, 1}] /\ value'[s] = 1
  <2>1. value[s] # 1
    BY <1>0, <1>1, SMT, Z3 DEF Inv, LockInv, OneOwner, Owns
  <2>. QED  BY <1>0, <1>1, <2>1, SMT, Z3 DEF Inv, TypeOK, SyncTypeOK
<1>3. status[t] = "RUNNING" /\ \A l \in Lock : ~elem_find(waiters[l], t)
  BY <1>0, CurrentIsNotWaiting, Zenon
<1>4. ClientInv' /\ LockInv'
  <2>1. pc'[t] = "released" /\ OthersSame(t) /\ held' = held /\ depth' = depth
    BY <1>0, <1>1, SMT, Z3 DEF Inv, TypeOK, OthersSame, clientVars
  <2>2. ClientOK(t)'
    BY <1>0, <1>1, <2>1, Zenon DEF ClientOK, SyncPoint
  <2>3. ClientInv'
    BY <1>0, <2>1, <2>2, ClientStep, Zenon
  <2>4. ASSUME NEW l \in Lock  PROVE HolderAt(t, l)'
    <3>1. HolderAt(t, l)
      BY DEF Inv, LockInv
    <3>. QED  BY <1>0, <3>1, SMT, Z3 DEF HolderAt
  <2>5. ASSUME NEW u \in Thread, NEW l \in Lock
        PROVE  Owns(u, l)' <=> Owns(u, l) /\ ~(u = t /\ l = s)
    <3>1. CASE u = t
      <4>1. HolderAt(t, l)
        BY SMT, Z3 DEF Inv, LockInv
      <4>. QED  BY <1>0, <2>1, <3>1, <4>1 DEF Owns, HolderAt
    <3>2. CASE u # t
      BY <1>0, <2>1, <3>2, SMT, Z3 DEF Owns, OthersSame
    <3>. QED  BY <3>1, <3>2, SMT, Z3
  <2>6. ASSUME NEW l \in Lock  PROVE OneOwner(l)'
    <3>1. OneOwner(l)
      BY SMT, Z3 DEF Inv, LockInv
    <3>2. CASE l = s
      <4>1. Owns(t, s)
        BY <1>0, SMT, Z3 DEF Owns
      <4>2. \A u \in Thread : ~Owns(u, l)'
        BY <2>5, <3>1, <3>2, <4>1, SMT, Z3 DEF OneOwner
      <4>3. value'[l] = 1 /\ holder_repeat_nr'[l] = 0
        BY <1>0, <1>1, <1>2, <3>2, SMT, Z3
      <4>. QED  BY <4>2, <4>3, SMT, Z3 DEF OneOwner
    <3>3. CASE l # s
      <4>1. value'[l] = value[l] /\ holder_repeat_nr'[l] = holder_repeat_nr[l]
        BY <1>0, <3>3, SMT, Z3 DEF Inv, TypeOK, SyncTypeOK
      <4>2. \A u \in Thread : Owns(u, l)' <=> Owns(u, l)
        BY <2>5, <3>3, SMT, Z3
      <4>. QED  BY <3>1, <4>1, <4>2, SMT, Z3 DEF OneOwner
    <3>. QED  BY <3>2, <3>3
  <2>. QED  BY <1>0, <2>1, <2>3, <2>4, <2>6, LockStep, SMT, Z3
<1>6. (value[s] # 0 \/ value'[s] # 1) = FALSE
  BY <1>2, SMT, Z3
<1>7. CASE waiters[s] # <<>>
  <2> DEFINE p == Head(waiters[s])
  <2>1. waiters' = [waiters EXCEPT ![s] = Tail(@)] /\ thread_unblock(p, FALSE)
    BY <1>6, <1>7, Zenon DEF sema_up_step, sema_up
  <2>2. /\ p \in Thread /\ elem_find(waiters[s], p)
        /\ Tail(waiters[s]) \in Seq(Thread) /\ NoRepeat(Tail(waiters[s]))
        /\ \A u : elem_find(Tail(waiters[s]), u) <=> elem_find(waiters[s], u) /\ u # p
    <3>1. waiters[s] \in Seq(Thread) /\ NoRepeat(waiters[s])
      <4>1. TypeOK /\ TagInOneList
        BY DEF Inv
      <4>2. waiters \in [Lock -> Seq(Thread)]
        BY <4>1 DEF TypeOK, SyncTypeOK
      <4>. QED  BY <1>1, <4>1, <4>2, SMT, Z3 DEF TagInOneList
    <3>. QED  BY <1>7, <3>1, PopFacts, SMT, Z3
  <2> HIDE DEF p
  <2>3. status[p] = "BLOCKED" /\ pc[p] = "sema_wait" /\ arg[p] = s
    BY <1>1, <2>2, SMT, Z3 DEF Inv, TagInOneList
  <2>4. SchedInv' /\ status' = [status EXCEPT ![p] = "READY"] /\ current' = current
    BY <1>0, <2>1, <2>2, <2>3, UnblockFacts, Zenon DEF Inv
  <2>5. /\ waiters' \in [Lock -> Seq(Thread)]
        /\ \A l \in Lock : NoRepeat(waiters'[l])
        /\ \A u \in Thread, l \in Lock :
             elem_find(waiters'[l], u) <=> elem_find(waiters[l], u) /\ ~(u = p /\ l = s)
    <3>1. waiters \in [Lock -> Seq(Thread)] /\ \A l \in Lock : NoRepeat(waiters[l])
      <4>1. TypeOK /\ TagInOneList
        BY DEF Inv
      <4>2. waiters \in [Lock -> Seq(Thread)]
        BY <4>1 DEF TypeOK, SyncTypeOK
      <4>. QED  BY <4>1, <4>2 DEF TagInOneList
    <3>2. /\ waiters'[s] = Tail(waiters[s])
          /\ \A l \in Lock : l # s => waiters'[l] = waiters[l]
      BY <1>1, <2>1, <3>1, SMT, Z3
    <3>3. waiters' \in [Lock -> Seq(Thread)]
      BY <1>1, <2>1, <2>2, <3>1, SMT, Z3
    <3>4. \A u \in Thread, l \in Lock :
            elem_find(waiters'[l], u) <=> elem_find(waiters[l], u) /\ ~(u = p /\ l = s)
      BY <2>2, <3>2, SMT, Z3
    <3>. QED  BY <2>2, <3>1, <3>2, <3>3, <3>4, Zenon
  <2>6. TypeOK'
    BY <1>0, <1>1, <1>2, <2>4, <2>5, SMT, Z3 DEF Inv, TypeOK, SchedInv, SyncTypeOK, SyncPoint, clientVars
  <2>7. p # t /\ p # idle_thread
    BY <1>0, <2>3, Zenon DEF Inv, StatusInv
  <2>8. \A u \in Thread : status'[u] = IF u = p THEN "READY" ELSE status[u]
    BY <2>2, <2>4, Zenon DEF Inv, SchedInv, ThreadTypeOK
  <2>9. TagInOneList'
    <3>1. \A u \in Thread : status'[u] = "BLOCKED" => ~elem_find(thread_ready_list', u)
      BY <2>4, SMT, Z3 DEF SchedInv, ReadyListConsistent
    <3>2. ASSUME NEW u \in Thread, NEW l \in Lock, elem_find(waiters'[l], u)
          PROVE  status'[u] = "BLOCKED" /\ pc'[u] = "sema_wait" /\ arg'[u] = l
      <4>1. elem_find(waiters[l], u) /\ ~(u = p /\ l = s) /\ u # t
        BY <1>3, <2>5, <3>2, SMT, Z3
      <4>2. status[u] = "BLOCKED" /\ pc[u] = "sema_wait" /\ arg[u] = l
        BY <4>1, SMT, Z3 DEF Inv, TagInOneList
      <4>3. u # p
        BY <2>3, <4>1, <4>2, SMT, Z3
      <4>. QED  BY <1>0, <2>8, <4>1, <4>2, <4>3, Zenon DEF Inv, TypeOK
    <3>. QED  BY <2>5, <3>1, <3>2, Zenon DEF TagInOneList
  <2>10. StatusInv'
    <3>1. ASSUME NEW u \in Thread, status'[u] = "BLOCKED", u # idle_thread
          PROVE  pc'[u] = "sema_wait" /\ elem_find(waiters'[arg'[u]], u)
      <4>1. u # p /\ u # t /\ status[u] = "BLOCKED"
        BY <1>3, <2>7, <2>8, <3>1, Zenon
      <4>2. pc[u] = "sema_wait" /\ elem_find(waiters[arg[u]], u) /\ arg[u] \in Lock
        BY <3>1, <4>1, Zenon DEF Inv, StatusInv, ClientInv, ClientOK, SyncPoint
      <4>. QED  BY <1>0, <2>5, <4>1, <4>2, SMT, Z3 DEF Inv, TypeOK
    <3>2. \A u \in Thread : u = idle_thread <=> pc'[u] \in {"idle", "hlt"}
      BY <1>0, <1>1, Zenon DEF Inv, TypeOK, StatusInv
    <3>3. \A u \in Thread : status'[u] = "NONE" =>
                              u \notin {idle_thread, main_thread} /\ pc'[u] = "run"
      BY <1>0, <1>3, <2>8, Zenon DEF Inv, TypeOK, StatusInv
    <3>. QED  BY <3>1, <3>2, <3>3, SMT, Z3 DEF StatusInv
  <2>11. NoLostWakeup'
    <3> SUFFICES ASSUME NEW v \in Thread, pc'[v] = "sema_wait", status'[v] = "BLOCKED"
                 PROVE  /\ elem_find(waiters'[arg'[v]], v)
                        /\ value'[arg'[v]] = 1 =>
                             \E u \in Thread : /\ pc'[u] \in {"sema_down", "sema_wait"}
                                               /\ arg'[u] = arg'[v]
                                               /\ status'[u] \in {"READY", "RUNNING"}
      BY DEF NoLostWakeup
    <3>1. /\ v # t /\ v # p /\ pc[v] = "sema_wait" /\ status[v] = "BLOCKED"
          /\ arg[v] \in Lock /\ arg'[v] = arg[v]
      <4>1. v # t /\ pc[v] = "sema_wait" /\ arg'[v] = arg[v]
        BY <1>0, <1>1, SMT, Z3 DEF Inv, TypeOK
      <4>2. v # p /\ status[v] = "BLOCKED"
        BY <2>8, SMT, Z3
      <4>3. ClientOK(v)
        BY DEF Inv, ClientInv
      <4>4. arg[v] \in Lock
        BY <4>1, <4>3, SMT, Z3 DEF ClientOK, SyncPoint
      <4>. QED  BY <4>1, <4>2, <4>4, SMT, Z3
    <3>2. elem_find(waiters'[arg'[v]], v)
      BY <2>5, <3>1, Zenon DEF Inv, NoLostWakeup
    <3>3. CASE arg[v] = s
      BY <1>0, <2>2, <2>3, <2>7, <2>8, <3>1, <3>2, <3>3, Zenon DEF Inv, TypeOK
    <3>4. CASE arg[v] # s
      <4>1. value'[arg[v]] = value[arg[v]]
        BY <1>0, <3>1, <3>4, SMT, Z3 DEF Inv, TypeOK, SyncTypeOK
      <4>2. ASSUME value[arg[v]] = 1
            PROVE  \E u \in Thread : /\ pc'[u] \in {"sema_down", "sema_wait"}
                                     /\ arg'[u] = arg'[v]
                                     /\ status'[u] \in {"READY", "RUNNING"}
        <5>1. PICK u \in Thread : /\ pc[u] \in {"sema_down", "sema_wait"}
                                  /\ arg[u] = arg[v]
                                  /\ status[u] \in {"READY", "RUNNING"}
          BY <3>1, <4>2, Zenon DEF Inv, NoLostWakeup
        <5>. QED  BY <1>0, <2>8, <3>1, <5>1, Zenon DEF Inv, TypeOK
      <4>. QED  BY <3>1, <3>2, <4>1, <4>2, SMT, Z3
    <3>. QED  BY <3>3, <3>4, Zenon
  <2>. QED  BY <1>4, <2>4, <2>6, <2>9, <2>10, <2>11 DEF Inv
<1>8. CASE waiters[s] = <<>>
  <2>1. UNCHANGED <<waiters, thread_ready_list, status, current, ticks, saved_if>>
    BY <1>8, Zenon DEF sema_up_step, sema_up
  <2>2. panic' = FALSE
    BY <1>6, <1>8, Zenon DEF sema_up_step, sema_up
  <2>3. SchedInv'
    BY <1>0, <2>1, <2>2, Zenon DEF Inv, SchedInv, ThreadTypeOK, ReadyListConsistent
  <2>4. TypeOK'
    BY <1>0, <1>1, <1>2, <2>1, <2>3, SMT, Z3 DEF Inv, TypeOK, SchedInv, SyncTypeOK, SyncPoint, clientVars
  <2>5. TagInOneList'
    <3>0. \A l \in Lock \cup Sema : NoRepeat(waiters[l])
      BY SMT, Z3 DEF Inv, TagInOneList
    <3>1. ASSUME NEW l \in Lock \cup Sema, NEW u \in Thread, elem_find(waiters[l], u)
          PROVE  /\ status'[u] = "BLOCKED" /\ pc'[u] = "sema_wait" /\ arg'[u] = l
                 /\ ~elem_find(thread_ready_list', u)
      <4>1. /\ u # t /\ status[u] = "BLOCKED" /\ pc[u] = "sema_wait" /\ arg[u] = l
            /\ ~elem_find(thread_ready_list, u)
        BY <1>3, <3>1 DEF Inv, TagInOneList
      <4>. QED  BY <1>0, <2>1, <4>1, SMT, Z3 DEF Inv, TypeOK
    <3>. QED  BY <2>1, <3>0, <3>1, SMT, Z3 DEF TagInOneList
  <2>6. StatusInv'
    BY <1>0, <1>1, <1>3, <2>1, Zenon DEF Inv, TypeOK, StatusInv
  <2>7. \A u \in Thread : ~elem_find(waiters[s], u)
    BY <1>8, SMT, Z3 DEF elem_find
  <2>8. NoLostWakeup'
    <3> SUFFICES ASSUME NEW v \in Thread, pc'[v] = "sema_wait", status'[v] = "BLOCKED"
                 PROVE  /\ elem_find(waiters'[arg'[v]], v)
                        /\ value'[arg'[v]] = 1 =>
                             \E u \in Thread : /\ pc'[u] \in {"sema_down", "sema_wait"}
                                               /\ arg'[u] = arg'[v]
                                               /\ status'[u] \in {"READY", "RUNNING"}
      BY DEF NoLostWakeup
    <3>1. v # t /\ pc[v] = "sema_wait" /\ status[v] = "BLOCKED"
      BY <1>0, <1>1, <1>3, <2>1, Zenon DEF Inv, TypeOK
    <3>2. arg[v] \in Lock /\ elem_find(waiters[arg[v]], v)
      BY <3>1, Zenon DEF Inv, NoLostWakeup, ClientInv, ClientOK, SyncPoint
    <3>3. value'[arg[v]] = value[arg[v]]
      BY <1>0, <2>7, <3>2, Zenon DEF Inv, TypeOK, SyncTypeOK
    <3>4. ASSUME value[arg[v]] = 1
          PROVE  \E u \in Thread : /\ pc'[u] \in {"sema_down", "sema_wait"}
                                   /\ arg'[u] = arg'[v]
                                   /\ status'[u] \in {"READY", "RUNNING"}
      <4>1. PICK u \in Thread : /\ pc[u] \in {"sema_down", "sema_wait"}
                                /\ arg[u] = arg[v]
                                /\ status[u] \in {"READY", "RUNNING"}
        BY <3>1, <3>4, SMT, Z3 DEF Inv, NoLostWakeup
      <4>. QED  BY <1>0, <2>1, <4>1, SMT, Z3 DEF Inv, TypeOK
    <3>. QED  BY <1>0, <2>1, <3>2, <3>3, <3>4, Zenon
  <2>. QED  BY <1>4, <2>3, <2>4, <2>5, <2>6, <2>8 DEF Inv
<1>. QED  BY <1>7, <1>8, SMT, Z3

-----------------------------------------------------------------------------
(* A step that only reschedules: no thread but idle_thread changes between  *)
(* blocked and not blocked, and only idle_thread may move its program point.*)
LEMMA RescheduleStep ==
  ASSUME Inv, SchedInv',
         \A t \in Thread : /\ status'[t] = "BLOCKED" /\ t # idle_thread => status[t] = "BLOCKED"
                           /\ status[t] = "BLOCKED" /\ t # idle_thread => status'[t] = "BLOCKED"
                           /\ status'[t] = "NONE" => status[t] = "NONE",
         UNCHANGED <<syncVars, arg, ret, old_status, clientVars>>,
         pc' \in [Thread -> SyncPoint \cup {"run", "acquired", "released", "idle", "hlt"}],
         \A t \in Thread \ {idle_thread} : pc'[t] = pc[t],
         pc'[idle_thread] \in {"idle", "hlt"}
  PROVE  Inv'
<1> USE ThreadAssumption, SyncAssumption, NestAssumption
<1>1. pc[idle_thread] \in {"idle", "hlt"}
  BY SMT, Z3 DEF Inv, StatusInv
<1>2. TypeOK'
  BY Zenon DEF Inv, TypeOK, SchedInv, SyncTypeOK, syncVars, clientVars
<1>3. OthersSame(idle_thread) /\ UNCHANGED <<holder, holder_repeat_nr, value>>
  BY Zenon DEF OthersSame, syncVars, clientVars
<1>4. ClientInv' /\ LockInv'
  <2>1. ClientOK(idle_thread)
    BY SMT, Z3 DEF Inv, ClientInv
  <2>2. ClientOK(idle_thread)'
    BY <1>1, <2>1, Zenon DEF ClientOK, SyncPoint, clientVars
  <2>3. ASSUME NEW l \in Lock  PROVE HolderAt(idle_thread, l)'
    <3>1. HolderAt(idle_thread, l)
      BY SMT, Z3 DEF Inv, LockInv
    <3>. QED  BY <1>1, <1>3, <3>1, Zenon DEF HolderAt
  <2>. QED  BY <1>1, <1>3, <2>2, <2>3, OwnCodeStep, Zenon
<1>5. TagInOneList'
  <2>1. \A t \in Thread : status'[t] = "BLOCKED" => ~elem_find(thread_ready_list', t)
    BY Zenon DEF SchedInv, ReadyListConsistent
  <2>2. waiters' = waiters /\ arg' = arg
    BY SMT, Z3 DEF syncVars
  <2>3. ASSUME NEW t \in Thread, NEW s \in Lock \cup Sema, elem_find(waiters[s], t)
        PROVE  status'[t] = "BLOCKED" /\ pc'[t] = "sema_wait" /\ arg[t] = s
    <3>1. status[t] = "BLOCKED" /\ pc[t] = "sema_wait" /\ arg[t] = s
      BY <2>3, Zenon DEF Inv, TagInOneList
    <3>2. t # idle_thread
      BY <1>1, <3>1
    <3>. QED  BY <3>1, <3>2, SMT, Z3
  <2>4. \A s \in Lock \cup Sema : NoRepeat(waiters[s])
    BY SMT, Z3 DEF Inv, TagInOneList
  <2>5. ASSUME NEW t \in Thread, NEW s \in Lock \cup Sema, elem_find(waiters'[s], t)
        PROVE  /\ status'[t] = "BLOCKED" /\ pc'[t] = "sema_wait" /\ arg'[t] = s
               /\ ~elem_find(thread_ready_list', t)
    <3>1. elem_find(waiters[s], t)
      BY <2>2, <2>5, SMT, Z3
    <3>2. status'[t] = "BLOCKED" /\ pc'[t] = "sema_wait" /\ arg[t] = s
      BY <2>3, <3>1, SMT, Z3
    <3>. QED  BY <2>1, <2>2, <3>2, SMT, Z3
  <2>6. \A s \in Lock \cup Sema : NoRepeat(waiters'[s])
    BY <2>2, <2>4, SMT, Z3
  <2>. QED  BY <2>5, <2>6, Zenon DEF TagInOneList
<1>6. StatusInv'
  BY <1>1, SMT, Z3 DEF Inv, StatusInv, SchedInv, syncVars
<1>7. NoLostWakeup'
  <2>1. ASSUME NEW u \in Thread, u # idle_thread, status[u] \in {"READY", "RUNNING"}
        PROVE  status'[u] \in {"READY", "RUNNING"}
    BY <2>1, SMT, Z3 DEF SchedInv, ThreadTypeOK, Status
  <2>2. waiters' = waiters /\ arg' = arg /\ value' = value
    BY SMT, Z3 DEF syncVars
  <2> SUFFICES ASSUME NEW v \in Thread, pc'[v] = "sema_wait", status'[v] = "BLOCKED"
               PROVE  /\ elem_find(waiters'[arg'[v]], v)
                      /\ value'[arg'[v]] = 1 =>
                           \E u \in Thread : /\ pc'[u] \in {"sema_down", "sema_wait"}
                                             /\ arg'[u] = arg'[v]
                                             /\ status'[u] \in {"READY", "RUNNING"}
    BY Zenon DEF NoLostWakeup
  <2>3. v # idle_thread /\ pc[v] = "sema_wait" /\ status[v] = "BLOCKED"
    BY SMT, Z3
  <2>4. ASSUME value[arg[v]] = 1
        PROVE  \E u \in Thread : /\ pc'[u] \in {"sema_down", "sema_wait"}
                                 /\ arg[u] = arg[v]
                                 /\ status'[u] \in {"READY", "RUNNING"}
    <3>1. PICK u \in Thread : /\ pc[u] \in {"sema_down", "sema_wait"}
                              /\ arg[u] = arg[v]
                              /\ status[u] \in {"READY", "RUNNING"}
      BY <2>3, <2>4, SMT, Z3 DEF Inv, NoLostWakeup
    <3>2. u # idle_thread
      BY <1>1, <3>1, SMT, Z3
    <3>. QED  BY <2>1, <3>1, <3>2, SMT, Z3
  <2>5. elem_find(waiters[arg[v]], v)
    BY <2>3, Zenon DEF Inv, NoLostWakeup
  <2>. QED  BY <2>2, <2>4, <2>5, Zenon
<1>. QED  BY <1>2, <1>4, <1>5, <1>6, <1>7, SMT, Z3 DEF Inv

LEMMA YieldInv ==
  ASSUME Inv, NEW t \in Thread, Yield(t)  PROVE Inv'
<1>1. SchedInv' /\ BlockedAre({u \in Thread : status[u] = "BLOCKED"})
  BY YieldFacts DEF Yield, Inv
<1>2. pc' = pc /\ UNCHANGED <<syncVars, arg, ret, old_status, clientVars>>
  BY SMT, Z3 DEF Yield, frameVars
<1>3. /\ pc[idle_thread] \in {"idle", "hlt"}
      /\ pc \in [Thread -> SyncPoint \cup {"run", "acquired", "released", "idle", "hlt"}]
  BY ThreadAssumption, SMT, Z3 DEF Inv, StatusInv, TypeOK
<1>. QED  BY <1>1, <1>2, <1>3, RescheduleStep, SMT, Z3 DEF BlockedAre

LEMMA StartInv ==
  ASSUME Inv, NEW t \in Thread, Start(t)  PROVE Inv'
<1>0. PICK c \in Thread : thread_start(c)
  BY DEF Start
<1>1. SchedInv' /\ status' = [status EXCEPT ![c] = "READY"] /\ status[c] = "NONE"
  BY <1>0, StartFacts DEF Inv
<1>2. pc' = pc /\ UNCHANGED <<syncVars, arg, ret, old_status, clientVars>>
  BY SMT, Z3 DEF Start, frameVars
<1>3. /\ pc[idle_thread] \in {"idle", "hlt"}
      /\ pc \in [Thread -> SyncPoint \cup {"run", "acquired", "released", "idle", "hlt"}]
  BY ThreadAssumption, SMT, Z3 DEF Inv, StatusInv, TypeOK
<1>4. \A u \in Thread : status'[u] = IF u = c THEN "READY" ELSE status[u]
  BY <1>1 DEF Inv, SchedInv, ThreadTypeOK
<1>5. \A u \in Thread :
        /\ status'[u] = "BLOCKED" => status[u] = "BLOCKED"
        /\ status[u] = "BLOCKED" => status'[u] = "BLOCKED"
        /\ status'[u] = "NONE" => status[u] = "NONE"
  BY <1>1, <1>4, SMT, Z3
<1>. QED  BY <1>1, <1>2, <1>3, <1>5, RescheduleStep

LEMMA SetIntrInv ==
  ASSUME Inv, NEW t \in Thread, SetIntr(t)  PROVE Inv'
<1>1. SchedInv'
  BY SMT, Z3 DEF SetIntr, Inv, SchedInv, ThreadTypeOK, ReadyListConsistent
<1>2. pc' = pc /\ status' = status /\ UNCHANGED <<syncVars, arg, ret, old_status, clientVars>>
  BY SMT, Z3 DEF SetIntr, frameVars
<1>3. /\ pc[idle_thread] \in {"idle", "hlt"}
      /\ pc \in [Thread -> SyncPoint \cup {"run", "acquired", "released", "idle", "hlt"}]
  BY ThreadAssumption DEF Inv, StatusInv, TypeOK
<1>. QED  BY <1>1, <1>2, <1>3, RescheduleStep, SMT, Z3

LEMMA IdleInv ==
  ASSUME Inv, idle_block  PROVE Inv'
<1> USE ThreadAssumption
<1>1. intr \in BOOLEAN /\ current = idle_thread
  BY DEF idle_block, At, Inv, SchedInv, ThreadTypeOK
<1>2. SchedInv' /\ BlockedAre({u \in Thread : status[u] = "BLOCKED"} \cup {current})
  BY <1>1, BlockFacts, Zenon DEF idle_block, Inv
<1>3. /\ pc' = [pc EXCEPT ![idle_thread] = "hlt"]
      /\ UNCHANGED <<syncVars, arg, ret, old_status, clientVars>>
  BY DEF idle_block, goto
<1>4. /\ pc' \in [Thread -> SyncPoint \cup {"run", "acquired", "released", "idle", "hlt"}]
      /\ \A t \in Thread \ {idle_thread} : pc'[t] = pc[t]
      /\ pc'[idle_thread] \in {"idle", "hlt"}
  BY <1>3 DEF Inv, TypeOK
<1>. QED  BY <1>1, <1>2, <1>3, <1>4, RescheduleStep, SMT, Z3 DEF BlockedAre

LEMMA TimerInv ==
  ASSUME Inv, Timer  PROVE Inv'
<1> USE ThreadAssumption
<1>1. SchedInv' /\ BlockedAre({u \in Thread : status[u] = "BLOCKED"})
  BY TimerFacts, SMT, Z3 DEF Timer, Inv
<1>2. /\ pc' = [pc EXCEPT ![current] = IF @ = "hlt" THEN "idle" ELSE @]
      /\ UNCHANGED <<syncVars, arg, ret, old_status, clientVars>>
  BY SMT, Z3 DEF Timer, leave_hlt
<1>3. \A t \in Thread : t = idle_thread <=> pc[t] \in {"idle", "hlt"}
  BY Zenon DEF Inv, StatusInv
<1>4. /\ pc' \in [Thread -> SyncPoint \cup {"run", "acquired", "released", "idle", "hlt"}]
      /\ \A t \in Thread \ {idle_thread} : pc'[t] = pc[t]
      /\ pc'[idle_thread] \in {"idle", "hlt"}
  BY <1>2, <1>3, Zenon DEF Inv, TypeOK
<1>. QED  BY <1>1, <1>2, <1>4, RescheduleStep DEF BlockedAre

-----------------------------------------------------------------------------
LEMMA NextInv == Inv /\ [Next]_vars => Inv'
<1> SUFFICES ASSUME Inv, [Next]_vars  PROVE Inv'
  OBVIOUS
<1>1. CASE UNCHANGED vars
  <2>1. SchedInv'
    BY <1>1, SMT, Z3 DEF vars, threadVars, Inv, SchedInv, ThreadTypeOK, ReadyListConsistent
  <2>2. pc[idle_thread] \in {"idle", "hlt"}
    BY ThreadAssumption, Zenon DEF Inv, StatusInv
  <2>. QED
    BY <1>1, <2>1, <2>2, RescheduleStep, Zenon DEF vars, threadVars, frameVars, Inv, TypeOK
<1>2. ASSUME NEW t \in Thread, Client(t)  PROVE Inv'
  <2>1. ASSUME SyncStep(t), UNCHANGED clientVars  PROVE Inv'
    BY <2>1, AcquireTestInv, DownWaitInv, DownTakeInv, AcquireHolderInv, AcquireRepeatInv,
       ReleaseTestInv, ReleaseRepeatInv, UpInv DEF SyncStep
  <2>. QED
    BY <1>2, <2>1, AcquireInv, AcquiredInv, ReleaseInv, ReleasedInv, YieldInv, StartInv,
       SetIntrInv, SMT, Z3 DEF Client
<1>. QED  BY <1>1, <1>2, IdleInv, TimerInv DEF Next

(* The inductive invariant holds in every reachable state. *)
THEOREM Invariance == Spec => []Inv
BY InitInv, NextInv, PTL DEF Spec

(* Every variable keeps its type: in particular a lock's semaphore is        *)
(* always 0 or 1 and no nesting count leaves its bound.                     *)
THEOREM TypeCorrect == Spec => []TypeOK
<1>1. Inv => TypeOK
  BY DEF Inv
<1>. QED  BY <1>1, Invariance, PTL

(* schedule(), thread_block(), thread_unblock(), thread_yield(), the clock  *)
(* interrupt, sema_down(), sema_up(), lock_acquire() and lock_release()     *)
(* never hit one of their ASSERTs, however many threads and locks there     *)
(* are and wherever the clock preempts them.                               *)
THEOREM NeverPanics == Spec => []NoPanic
<1>1. Inv => NoPanic
  BY DEF Inv, SchedInv, NoPanic
<1>. QED  BY <1>1, Invariance, PTL

(* The ready list always holds exactly the READY threads, once each, and    *)
(* exactly the thread on the CPU is RUNNING.                               *)
THEOREM ReadyListSafe == Spec => []ReadyListConsistent
<1>1. Inv => ReadyListConsistent
  BY DEF Inv, SchedInv
<1>. QED  BY <1>1, Invariance, PTL

(* No thread is ever linked by its general_tag into two lists. *)
THEOREM OneListPerTag == Spec => []TagInOneList
<1>1. Inv => TagInOneList
  BY DEF Inv
<1>. QED  BY <1>1, Invariance, PTL

(* sema_up() wakes whoever the semaphore it frees is for: no thread stays    *)
(* blocked on a free semaphore without another one on its way to it.       *)
THEOREM NoWakeupIsLost == Spec => []NoLostWakeup
<1>1. Inv => NoLostWakeup
  BY SMT, Z3 DEF Inv
<1>. QED  BY <1>1, Invariance, PTL

(* Whoever is between lock_acquire() and lock_release() is the holder.       *)
LEMMA InsideIsHolder ==
  ASSUME Inv, NEW v \in Thread, depth[v] > 0
  PROVE  held[v] \in Lock /\ holder[held[v]] = v
<1>1. ClientOK(v) /\ depth[v] \in Nat /\ depth[v] # 0 /\ held[v] \in Lock \cup {NULL}
  BY SMT, Z3 DEF Inv, TypeOK, ClientInv
<1>2. pc[v] \in {"run", "released", "lock_acquire", "acquired", "lock_release"}
  BY <1>1 DEF Inv, TypeOK, ClientOK, SyncPoint
<1>. QED  BY <1>1, <1>2, SMT, Z3 DEF ClientOK

(* Two threads are never both between lock_acquire() and lock_release() of   *)
(* one lock.                                                               *)
THEOREM LocksExclude == Spec => []MutualExclusion
<1>1. ASSUME Inv  PROVE MutualExclusion
  BY <1>1, InsideIsHolder, SMT, Z3 DEF MutualExclusion
<1>. QED  BY <1>1, Invariance, PTL

(* holder and holder_repeat_nr agree with what the clients did. *)
THEOREM BookkeepingAgrees == Spec => []HolderMatchesClient
<1>1. ASSUME Inv  PROVE HolderMatchesClient
  <2>1. ASSUME NEW t \in Thread, depth[t] > 0, pc[t] = "run"
        PROVE  /\ holder[held[t]] = t /\ holder_repeat_nr[held[t]] = depth[t]
               /\ value[held[t]] = 0
    <3>1. ClientOK(t) /\ depth[t] # 0 /\ held[t] \in Lock \cup {NULL}
      BY <1>1, <2>1, SMT, Z3 DEF Inv, TypeOK, ClientInv
    <3>2. held[t] \in Lock /\ holder[held[t]] = t /\ holder_repeat_nr[held[t]] = depth[t]
      BY <2>1, <3>1, SMT, Z3 DEF ClientOK
    <3>3. OneOwner(held[t]) /\ value[held[t]] \in {0, 1}
      BY <1>1, <3>2, SMT, Z3 DEF Inv, TypeOK, SyncTypeOK, LockInv
    <3>. QED  BY <3>2, <3>3 DEF OneOwner, Owns
  <2>2. ASSUME NEW l \in Lock, value[l] = 1
        PROVE  holder[l] = NULL /\ holder_repeat_nr[l] = 0
    <3>1. OneOwner(l) /\ holder[l] \in Thread \cup {NULL}
      BY <1>1, SMT, Z3 DEF Inv, TypeOK, SyncTypeOK, LockInv
    <3>. QED  BY <2>2, <3>1, SMT, Z3 DEF OneOwner, Owns
  <2>. QED  BY <2>1, <2>2, SMT, Z3 DEF HolderMatchesClient
<1>. QED  BY <1>1, Invariance, PTL

-----------------------------------------------------------------------------
inside == [l \in Lock |-> [t \in Thread |-> IF held[t] = l THEN depth[t] ELSE 0]]

(* A step that leaves the clients' view alone leaves the abstract lock alone. *)
LEMMA QuietStutters ==
  ASSUME UNCHANGED clientVars
  PROVE  inside' = inside
BY SMT, Z3 DEF clientVars, inside

(* The return of lock_acquire() is an Enter: by InsideIsHolder in the state   *)
(* before, another thread inside would be the holder.                       *)
LEMMA AcquiredEnters ==
  ASSUME Inv, NEW t \in Thread, Acquired(t), NEW l \in Lock, arg[t] = l
  PROVE  Abstract!Enter(t, l)
<1>1. NULL \notin Lock /\ depth \in [Thread -> Nat] /\ held \in [Thread -> Lock \cup {NULL}]
  BY SyncAssumption DEF Inv, TypeOK
<1>2. ClientOK(t)
  BY SMT, Z3 DEF Inv, ClientInv
<1>3. pc[t] = "acquired"
  BY SMT, Z3 DEF Acquired, At
<1>4. holder[l] = t /\ held[t] = (IF depth[t] = 0 THEN NULL ELSE l)
  BY <1>2, <1>3, Zenon DEF ClientOK
<1>5. ASSUME NEW u \in Thread \ {t}  PROVE inside[l][u] = 0
  <2>1. depth[u] > 0 /\ held[u] = l => FALSE
    BY <1>4, InsideIsHolder, SMT, Z3
  <2>. QED  BY <1>1, <2>1, SMT, Z3 DEF inside
<1>6. inside[l][t] = depth[t]
  BY <1>1, <1>4 DEF inside
<1>7. depth' = [depth EXCEPT ![t] = @ + 1] /\ held' = [held EXCEPT ![t] = l]
  BY SMT, Z3 DEF Acquired
<1>8. ASSUME NEW k \in Lock, NEW u \in Thread
      PROVE  (IF held'[u] = k THEN depth'[u] ELSE 0) =
               IF k = l /\ u = t THEN depth[t] + 1 ELSE IF held[u] = k THEN depth[u] ELSE 0
  BY <1>1, <1>4, <1>7
<1>9. inside' = [inside EXCEPT ![l][t] = @ + 1]
  <2>1. inside' = [k \in Lock |-> [u \in Thread |->
                     IF k = l /\ u = t THEN depth[t] + 1 ELSE inside[k][u]]]
    BY <1>8 DEF inside
  <2>2. inside = [k \in Lock |-> [u \in Thread |-> inside[k][u]]]
    BY DEF inside
  <2>. QED  BY <1>6, <2>1, <2>2, SMT, Z3
<1>. QED  BY <1>5, <1>9 DEF Abstract!Enter, inside

(* The call of lock_release() is a Leave. *)
LEMMA ReleaseLeaves ==
  ASSUME Inv, NEW t \in Thread, Release(t), NEW l \in Lock, held[t] = l
  PROVE  Abstract!Leave(t, l)
<1>1. NULL \notin Lock /\ depth \in [Thread -> Nat] /\ held \in [Thread -> Lock \cup {NULL}]
  BY SyncAssumption, SMT, Z3 DEF Inv, TypeOK
<1>2. ClientOK(t)
  BY DEF Inv, ClientInv
<1>3. pc[t] = "run"
  BY SMT, Z3 DEF Release, At
<1>4. depth[t] \in Nat /\ depth[t] # 0
  BY <1>1, <1>2, <1>3, Zenon DEF ClientOK
<1>5. inside[l][t] = depth[t]
  BY <1>1, SMT, Z3 DEF inside
<1>6. /\ depth' = [depth EXCEPT ![t] = @ - 1]
      /\ held' = [held EXCEPT ![t] = IF depth[t] = 1 THEN NULL ELSE @]
  BY SMT, Z3 DEF Release
<1>7. ASSUME NEW k \in Lock, NEW u \in Thread
      PROVE  (IF held'[u] = k THEN depth'[u] ELSE 0) =
               IF k = l /\ u = t THEN depth[t] - 1 ELSE IF held[u] = k THEN depth[u] ELSE 0
  BY <1>1, <1>4, <1>6, SMT, Z3
<1>8. inside' = [inside EXCEPT ![l][t] = @ - 1]
  <2>1. inside' = [k \in Lock |-> [u \in Thread |->
                     IF k = l /\ u = t THEN depth[t] - 1 ELSE inside[k][u]]]
    BY <1>7 DEF inside
  <2>2. inside = [k \in Lock |-> [u \in Thread |-> inside[k][u]]]
    BY SMT, Z3 DEF inside
  <2>. QED  BY <1>5, <2>1, <2>2, SMTT(30)
<1>9. inside[l][t] > 0
  BY <1>4, <1>5
<1>. QED  BY <1>8, <1>9, Zenon DEF Abstract!Leave, inside

(* sync.c implements the lock it promises, for every set of threads and      *)
(* locks: every step is a step of the abstract lock or leaves it alone.     *)
THEOREM LocksImplementMutex == Spec => ImplementsMutex
<1>1. Init => Abstract!Init
  BY SyncAssumption DEF Init, Abstract!Init
<1>2. Inv /\ [Next]_vars => [Abstract!Next]_inside
  <2>. SUFFICES ASSUME Inv, [Next]_vars  PROVE [Abstract!Next]_inside
    OBVIOUS
  <2>1. ASSUME NEW t \in Thread, Acquired(t)  PROVE Abstract!Next
    <3>1. PICK l \in Lock : arg[t] = l
      BY <2>1 DEF Inv, ClientInv, ClientOK, Acquired, At
    <3>2. Abstract!Enter(t, l)
      BY <2>1, <3>1, AcquiredEnters
    <3>. QED  BY <3>2, SMT, Z3 DEF Abstract!Next
  <2>2. ASSUME NEW t \in Thread, Release(t)  PROVE Abstract!Next
    <3>1. PICK l \in Lock : held[t] = l
      BY <2>2, SMT, Z3 DEF Inv, TypeOK, Release
    <3>2. Abstract!Leave(t, l)
      BY <2>2, <3>1, ReleaseLeaves
    <3>. QED  BY <3>2, SMT, Z3 DEF Abstract!Next
  <2>3. ASSUME NEW t \in Thread, Client(t), ~Acquired(t), ~Release(t)
        PROVE  UNCHANGED clientVars
    BY <2>3, Zenon DEF Client, Acquire, Released, Yield, Start, SetIntr, clientVars
  <2>4. idle_block \/ Timer \/ UNCHANGED vars => UNCHANGED clientVars
    BY Zenon DEF idle_block, Timer, vars, clientVars
  <2>. QED  BY <2>1, <2>2, <2>3, <2>4, QuietStutters DEF Next
<1>. QED  BY <1>1, <1>2, Invariance, PTL DEF Spec, ImplementsMutex, Abstract!Spec, inside
=============================================================================
