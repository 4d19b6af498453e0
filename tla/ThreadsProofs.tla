--------------------------- MODULE ThreadsProofs ---------------------------
(***************************************************************************)
(* Facts about the list operations and about schedule(), for every set of   *)
(* threads and every priority. The modules that compose the scheduler with  *)
(* its users build their proofs on them.                                    *)
(***************************************************************************)
EXTENDS Threads, TLAPS

(* What the provers know of sequences, in the form the lists need it. *)
LEMMA SeqLen ==
  ASSUME NEW S, NEW s \in Seq(S)
  PROVE  Len(s) \in Nat /\ (s # <<>> => Len(s) # 0) /\ \A i \in 1..Len(s) : s[i] \in S
OBVIOUS

LEMMA SameSeq ==
  ASSUME NEW S, NEW s \in Seq(S), NEW r \in Seq(S), Len(r) = Len(s), \A i \in 1..Len(r) : s[i] = r[i]
  PROVE  s = r
OBVIOUS

LEMMA SeqConcat ==
  ASSUME NEW S, NEW s \in Seq(S), NEW r \in Seq(S)
  PROVE  /\ s \o r \in Seq(S) /\ Len(s \o r) = Len(s) + Len(r)
         /\ \A i \in 1..(Len(s) + Len(r)) : (s \o r)[i] = IF i > Len(s) THEN r[i - Len(s)] ELSE s[i]
OBVIOUS

LEMMA SeqTail ==
  ASSUME NEW S, NEW s \in Seq(S), s # <<>>
  PROVE  /\ Head(s) = s[1] /\ Head(s) \in S
         /\ Tail(s) \in Seq(S) /\ Len(s) = Len(Tail(s)) + 1
         /\ \A i \in 1..Len(Tail(s)) : s[i + 1] = Tail(s)[i]
OBVIOUS

-----------------------------------------------------------------------------
(* Pushing onto a list of list.c adds the element at the head and keeps     *)
(* the rest; a list without repetition stays so if the element is new.     *)
LEMMA PushFacts ==
  ASSUME NEW list \in Seq(Thread), NEW t \in Thread
  PROVE  /\ list_push(list, t) \in Seq(Thread)
         /\ list_push(list, t) # <<>>
         /\ Head(list_push(list, t)) = t
         /\ Tail(list_push(list, t)) = list
         /\ \A u : elem_find(list_push(list, t), u) <=> u = t \/ elem_find(list, u)
         /\ NoRepeat(list) /\ ~elem_find(list, t) => NoRepeat(list_push(list, t))
<1> DEFINE p == list_push(list, t)
<1>1. p \in Seq(Thread) /\ Len(p) = Len(list) + 1
  BY SeqConcat DEF list_push
<1>2. \A i \in 1..Len(p) : p[i] = IF i = 1 THEN t ELSE list[i - 1]
  BY SeqConcat DEF list_push
<1>3. Len(list) \in Nat
  BY SeqLen
<1>4. Head(p) = t /\ p # <<>>
  BY <1>1, <1>2, <1>3, SeqTail, SeqLen
<1>5. Tail(p) = list
  <2>1. Tail(p) \in Seq(Thread) /\ Len(Tail(p)) = Len(list)
    BY <1>1, <1>3, <1>4, SeqTail
  <2>2. \A i \in 1..Len(list) : Tail(p)[i] = list[i]
    BY <1>1, <1>2, <1>3, <1>4, SeqTail
  <2>. QED  BY <2>1, <2>2, SameSeq
<1>6. \A u : elem_find(p, u) <=> u = t \/ elem_find(list, u)
  <2> TAKE u
  <2>1. elem_find(p, u) => u = t \/ elem_find(list, u)
    BY <1>1, <1>2, <1>3 DEF elem_find
  <2>2. u = t => elem_find(p, u)
    BY <1>1, <1>2, <1>3 DEF elem_find
  <2>3. ASSUME NEW i \in 1..Len(list), list[i] = u  PROVE elem_find(p, u)
    <3>1. i + 1 \in 1..Len(p) /\ p[i + 1] = u
      BY <1>1, <1>2, <1>3, <2>3
    <3>. QED  BY <3>1 DEF elem_find
  <2>. QED  BY <2>1, <2>2, <2>3 DEF elem_find
<1>7. ASSUME NoRepeat(list), ~elem_find(list, t)  PROVE NoRepeat(p)
  <2> SUFFICES ASSUME NEW i \in 1..Len(p), NEW j \in 1..Len(p), p[i] = p[j]
               PROVE  i = j
    BY DEF NoRepeat
  <2>1. CASE i = 1 \/ j = 1
    <3>1. \A k \in 1..Len(p) : k # 1 => p[k] # t
      <4> SUFFICES ASSUME NEW k \in 1..Len(p), k # 1  PROVE p[k] # t
        OBVIOUS
      <4>1. k - 1 \in 1..Len(list) /\ p[k] = list[k - 1]
        BY <1>1, <1>2, <1>3
      <4>. QED  BY <4>1, <1>7 DEF elem_find
    <3>2. p[1] = t
      BY <1>1, <1>2, <1>3
    <3>. QED  BY <2>1, <3>1, <3>2
  <2>2. CASE i # 1 /\ j # 1
    <3>1. i - 1 \in 1..Len(list) /\ j - 1 \in 1..Len(list) /\ list[i - 1] = list[j - 1]
      BY <2>2, <1>1, <1>2, <1>3
    <3>2. i - 1 = j - 1
      BY <3>1, <1>7 DEF NoRepeat
    <3>. QED  BY <3>2, <1>1, <1>3
  <2>. QED  BY <2>1, <2>2
<1>. QED  BY <1>1, <1>4, <1>5, <1>6, <1>7

(* Appending to a list, likewise at the tail. *)
LEMMA AppendFacts ==
  ASSUME NEW list \in Seq(Thread), NEW t \in Thread
  PROVE  /\ list_append(list, t) \in Seq(Thread)
         /\ list_append(list, t) # <<>>
         /\ \A u : elem_find(list_append(list, t), u) <=> u = t \/ elem_find(list, u)
         /\ NoRepeat(list) /\ ~elem_find(list, t) => NoRepeat(list_append(list, t))
<1> DEFINE p == list_append(list, t)
<1>1. /\ p \in Seq(Thread)
      /\ p # <<>>
      /\ Len(p) = Len(list) + 1
      /\ \A i \in 1..Len(list) : p[i] = list[i]
      /\ p[Len(list) + 1] = t
  BY DEF list_append
<1>2. Len(list) \in Nat
  BY SeqLen
<1>3. \A u : elem_find(p, u) <=> u = t \/ elem_find(list, u)
  <2> TAKE u
  <2>1. elem_find(p, u) => u = t \/ elem_find(list, u)
    BY <1>1, <1>2 DEF elem_find
  <2>2. u = t \/ elem_find(list, u) => elem_find(p, u)
    BY <1>1, <1>2 DEF elem_find
  <2>. QED  BY <2>1, <2>2
<1>4. ASSUME NoRepeat(list), ~elem_find(list, t)  PROVE NoRepeat(p)
  BY <1>1, <1>2, <1>4 DEF NoRepeat, elem_find
<1>. QED  BY <1>1, <1>3, <1>4

(* Popping the head of a nonempty list without repetition removes exactly   *)
(* that element.                                                           *)
LEMMA PopFacts ==
  ASSUME NEW list \in Seq(Thread), list # <<>>, NoRepeat(list)
  PROVE  /\ Tail(list) \in Seq(Thread)
         /\ Head(list) \in Thread
         /\ \A u : elem_find(Tail(list), u) <=> elem_find(list, u) /\ u # Head(list)
         /\ elem_find(list, Head(list))
         /\ NoRepeat(Tail(list))
<1> DEFINE p == Tail(list)
<1>1. /\ Head(list) \in Thread /\ Head(list) = list[1]
      /\ p \in Seq(Thread) /\ Len(p) = Len(list) - 1
      /\ \A i \in 1..Len(p) : p[i] = list[i + 1]
  BY SeqTail
<1>2. Len(list) \in Nat \ {0}
  BY SeqLen
<1>3. \A u : elem_find(p, u) <=> elem_find(list, u) /\ u # Head(list)
  <2> TAKE u
  <2>1. ASSUME NEW i \in 1..Len(p), p[i] = u
        PROVE  elem_find(list, u) /\ u # Head(list)
    <3>1. i + 1 \in 1..Len(list) /\ 1 \in 1..Len(list) /\ list[i + 1] = u /\ i + 1 # 1
      BY <1>1, <1>2, <2>1
    <3>. QED  BY <3>1, <1>1 DEF NoRepeat, elem_find
  <2>2. ASSUME NEW i \in 1..Len(list), list[i] = u, u # Head(list)
        PROVE  elem_find(p, u)
    <3>1. i - 1 \in 1..Len(p) /\ p[i - 1] = u
      BY <1>1, <1>2, <2>2
    <3>. QED  BY <3>1 DEF elem_find
  <2>. QED  BY <2>1, <2>2 DEF elem_find
<1>4. elem_find(list, Head(list))
  BY <1>1, <1>2 DEF elem_find
<1>5. NoRepeat(p)
  <2> SUFFICES ASSUME NEW i \in 1..Len(p), NEW j \in 1..Len(p), p[i] = p[j]
               PROVE  i = j
    BY DEF NoRepeat
  <2>1. /\ i + 1 \in 1..Len(list) /\ j + 1 \in 1..Len(list)
        /\ list[i + 1] = list[j + 1]
    BY <1>1, <1>2
  <2>2. i + 1 = j + 1
    BY <2>1 DEF NoRepeat
  <2>. QED  BY <2>2, <1>2
<1>. QED  BY <1>1, <1>3, <1>4, <1>5

-----------------------------------------------------------------------------
(* What a caller of schedule() must establish: the ready list rdy holds the *)
(* READY threads of st once each, nobody else is RUNNING, the caller is in  *)
(* no list, and if nothing else can run then idle_thread is blocked.       *)
ReadyToSchedule(rdy, st) ==
  /\ rdy \in Seq(Thread)
  /\ st \in [Thread -> Status]
  /\ NoRepeat(rdy)
  /\ \A t \in Thread : st[t] = "READY" <=> elem_find(rdy, t)
  /\ \A t \in Thread : st[t] = "RUNNING" => t = current
  /\ rdy = <<>> /\ st[current] # "RUNNING" => st[idle_thread] = "BLOCKED"

(* schedule() keeps the ready list consistent, hits none of its ASSERTs,    *)
(* wakes no blocked thread but idle_thread and blocks none.                *)
LEMMA ScheduleFacts ==
  ASSUME ThreadTypeOK,
         NEW rdy, NEW st, NEW resume \in BOOLEAN,
         ReadyToSchedule(rdy, st),
         schedule(rdy, st, resume, FALSE)
  PROVE  /\ ThreadTypeOK'
         /\ ReadyListConsistent'
         /\ panic' = FALSE
         /\ \A t \in Thread : status'[t] = "BLOCKED" => st[t] = "BLOCKED"
         /\ \A t \in Thread \ {idle_thread} : st[t] = "BLOCKED" => status'[t] = "BLOCKED"
         /\ \A t \in Thread : status'[t] = "NONE" <=> st[t] = "NONE"
<1> DEFINE requeue == st[current] = "RUNNING"
           rdy1 == IF requeue THEN list_append(rdy, current) ELSE rdy
           st1  == IF requeue THEN [st EXCEPT ![current] = "READY"] ELSE st
           wake == rdy1 = <<>>
           rdy2 == IF wake THEN list_push(rdy1, idle_thread) ELSE rdy1
           next == Head(rdy2)
<1> USE ThreadAssumption
<1>1. /\ rdy1 \in Seq(Thread) /\ NoRepeat(rdy1)
      /\ st1 \in [Thread -> Status]
      /\ \A t \in Thread : st1[t] = "READY" <=> elem_find(rdy1, t)
      /\ \A t \in Thread : st1[t] # "RUNNING"
      /\ \A t \in Thread : st1[t] = "BLOCKED" <=> st[t] = "BLOCKED"
      /\ \A t \in Thread : st1[t] = "NONE" <=> st[t] = "NONE"
      /\ requeue => ~elem_find(rdy, current) /\ rdy1 # <<>>
  <2>1. CASE requeue
    BY <2>1, AppendFacts DEF ReadyToSchedule, ThreadTypeOK, Status
  <2>2. CASE ~requeue
    BY <2>2 DEF ReadyToSchedule, ThreadTypeOK, Status
  <2>. QED  BY <2>1, <2>2
<1>2. wake => st1[idle_thread] = "BLOCKED"
  BY <1>1 DEF ReadyToSchedule
<1>3. /\ rdy2 \in Seq(Thread) /\ NoRepeat(rdy2) /\ rdy2 # <<>>
      /\ \A t \in Thread : elem_find(rdy2, t) <=>
                             st1[t] = "READY" \/ (wake /\ t = idle_thread)
  <2>1. CASE wake
    BY <2>1, <1>1, <1>2, PushFacts
  <2>2. CASE ~wake
    BY <2>2, <1>1
  <2>. QED  BY <2>1, <2>2
<1>4. /\ next \in Thread /\ elem_find(rdy2, next)
      /\ Tail(rdy2) \in Seq(Thread) /\ NoRepeat(Tail(rdy2))
      /\ \A t \in Thread : elem_find(Tail(rdy2), t) <=> elem_find(rdy2, t) /\ t # next
  BY <1>3, PopFacts
<1>5. wake => next = idle_thread
  BY <1>1, PushFacts
<1>6. /\ thread_ready_list' = Tail(rdy2)
      /\ status' = [st1 EXCEPT ![next] = "RUNNING"]
      /\ current' = next
      /\ saved_if' = [saved_if EXCEPT ![current] = resume]
      /\ intr' = saved_if'[next]
      /\ ticks' = IF requeue THEN [ticks EXCEPT ![current] = priority[current]]
                             ELSE ticks
  BY DEF schedule
<1>7. panic' = (\/ FALSE
                \/ requeue /\ elem_find(rdy, current)
                \/ wake /\ st1[idle_thread] # "BLOCKED")
  BY Zenon DEF schedule
<1> HIDE DEF requeue, rdy1, st1, wake, rdy2, next
<1>8. panic' = FALSE
  BY <1>1, <1>2, <1>7
<1>9. ThreadTypeOK'
  <2>1. ticks' \in [Thread -> Nat]
    BY <1>6 DEF ThreadTypeOK
  <2>2. saved_if' \in [Thread -> BOOLEAN]
    BY <1>6 DEF ThreadTypeOK
  <2>3. intr' \in BOOLEAN
    BY <2>2, <1>4, <1>6
  <2>4. status' \in [Thread -> Status]
    BY <1>1, <1>4, <1>6 DEF Status
  <2>. QED  BY <2>1, <2>2, <2>3, <2>4, <1>4, <1>6, <1>8 DEF ThreadTypeOK
<1>10. ReadyListConsistent'
  BY <1>1, <1>3, <1>4, <1>5, <1>6 DEF ReadyListConsistent, Status
<1>11. \A t \in Thread : status'[t] = "BLOCKED" => st[t] = "BLOCKED"
  BY <1>1, <1>4, <1>6
<1>12. \A t \in Thread \ {idle_thread} : st[t] = "BLOCKED" => status'[t] = "BLOCKED"
  BY <1>1, <1>3, <1>4, <1>6
<1>13. \A t \in Thread : status'[t] = "NONE" <=> st[t] = "NONE"
  BY <1>1, <1>2, <1>3, <1>4, <1>6
<1>. QED  BY <1>8, <1>9, <1>10, <1>11, <1>12, <1>13

(* The scheduler's own invariant, between any two steps of the kernel. *)
SchedInv ==
  /\ ThreadTypeOK
  /\ ReadyListConsistent
  /\ panic = FALSE
  /\ status[idle_thread] # "NONE"

(* Which threads a step may have blocked or woken, given which ones were    *)
(* blocked before (B): none is woken but idle_thread, none appears.        *)
BlockedAre(B) ==
  /\ \A t \in Thread : status'[t] = "BLOCKED" => t \in B
  /\ \A t \in Thread \ {idle_thread} : t \in B => status'[t] = "BLOCKED"
  /\ \A t \in Thread : status'[t] = "NONE" <=> status[t] = "NONE"

(* thread_block(): the caller is blocked, or it is idle_thread and there   *)
(* was nothing else to run.                                                *)
LEMMA BlockFacts ==
  ASSUME SchedInv, NEW resume \in BOOLEAN, thread_block(resume, FALSE)
  PROVE  SchedInv' /\ BlockedAre({t \in Thread : status[t] = "BLOCKED"} \cup {current})
<1> DEFINE st == [status EXCEPT ![current] = "BLOCKED"]
<1> USE ThreadAssumption
<1>1. ReadyToSchedule(thread_ready_list, st)
  <2>1. thread_ready_list = <<>> => ~elem_find(thread_ready_list, idle_thread)
    BY DEF elem_find
  <2>. QED
    BY <2>1 DEF ReadyToSchedule, SchedInv, ThreadTypeOK, ReadyListConsistent, Status
<1>2. schedule(thread_ready_list, st, resume, FALSE)
  BY DEF thread_block
<1>3. \A t \in Thread : /\ st[t] = "BLOCKED" <=> status[t] = "BLOCKED" \/ t = current
                        /\ st[t] = "NONE" <=> status[t] = "NONE"
  BY DEF SchedInv, ThreadTypeOK, ReadyListConsistent, Status
<1> HIDE DEF st
<1>. QED  BY <1>1, <1>2, <1>3, ScheduleFacts, ZenonT(60) DEF SchedInv, BlockedAre

(* thread_yield() blocks and wakes nobody. *)
LEMMA YieldFacts ==
  ASSUME SchedInv, thread_yield
  PROVE  SchedInv' /\ BlockedAre({t \in Thread : status[t] = "BLOCKED"})
<1> DEFINE st == [status EXCEPT ![current] = "READY"]
           rdy == list_append(thread_ready_list, current)
<1> USE ThreadAssumption
<1>1. ~elem_find(thread_ready_list, current) /\ status[current] = "RUNNING"
  BY DEF SchedInv, ThreadTypeOK, ReadyListConsistent
<1>2. ReadyToSchedule(rdy, st)
  BY <1>1, AppendFacts DEF ReadyToSchedule, SchedInv, ThreadTypeOK, ReadyListConsistent, Status
<1>3. schedule(rdy, st, intr, FALSE)
  <2>1. elem_find(thread_ready_list, current) = FALSE
    BY <1>1 DEF elem_find
  <2>. QED  BY <2>1, Zenon DEF thread_yield
<1>4. \A t \in Thread : /\ st[t] = "BLOCKED" <=> status[t] = "BLOCKED"
                        /\ st[t] = "NONE" <=> status[t] = "NONE"
  BY <1>1 DEF SchedInv, ThreadTypeOK, Status
<1>5. intr \in BOOLEAN
  BY DEF SchedInv, ThreadTypeOK
<1> HIDE DEF st, rdy
<1>. QED  BY <1>2, <1>3, <1>4, <1>5, ScheduleFacts, ZenonT(60) DEF SchedInv, BlockedAre

(* The clock interrupt blocks and wakes nobody. *)
LEMMA TimerFacts ==
  ASSUME SchedInv, intr_timer_handler
  PROVE  SchedInv' /\ BlockedAre({t \in Thread : status[t] = "BLOCKED"})
<1> USE ThreadAssumption
<1>1. CASE ticks[current] = 0 /\ schedule(thread_ready_list, status, TRUE, FALSE)
  <2>1. ReadyToSchedule(thread_ready_list, status)
    BY DEF ReadyToSchedule, SchedInv, ThreadTypeOK, ReadyListConsistent
  <2>. QED  BY <1>1, <2>1, ScheduleFacts DEF SchedInv, BlockedAre
<1>2. CASE /\ ticks[current] > 0
           /\ ticks' = [ticks EXCEPT ![current] = @ - 1]
           /\ UNCHANGED <<thread_ready_list, status, current, intr, saved_if, panic>>
  <2>1. ticks' \in [Thread -> Nat]
    BY <1>2 DEF SchedInv, ThreadTypeOK
  <2>. QED  BY <1>2, <2>1 DEF SchedInv, BlockedAre, ThreadTypeOK, ReadyListConsistent
<1>. QED  BY <1>1, <1>2 DEF intr_timer_handler

(* thread_unblock() of a blocked thread makes exactly that one ready. *)
LEMMA UnblockFacts ==
  ASSUME SchedInv, NEW p \in Thread, status[p] = "BLOCKED",
         thread_unblock(p, FALSE), intr' = intr
  PROVE  SchedInv' /\ status' = [status EXCEPT ![p] = "READY"] /\ current' = current
<1> USE ThreadAssumption
<1>1. ~elem_find(thread_ready_list, p)
  BY DEF SchedInv, ReadyListConsistent
<1>2. /\ thread_ready_list' = list_push(thread_ready_list, p)
      /\ status' = [status EXCEPT ![p] = "READY"]
      /\ current' = current /\ ticks' = ticks /\ saved_if' = saved_if
  BY DEF thread_unblock
<1>3. panic' = FALSE
  BY <1>1, Zenon DEF thread_unblock
<1>4. ThreadTypeOK'
  BY <1>2, <1>3, PushFacts DEF SchedInv, ThreadTypeOK, Status
<1>5. ReadyListConsistent'
  BY <1>1, <1>2, PushFacts DEF SchedInv, ThreadTypeOK, ReadyListConsistent, Status
<1>. QED  BY <1>2, <1>3, <1>4, <1>5 DEF SchedInv, ThreadTypeOK, Status

(* thread_start() adds exactly the new thread, ready. *)
LEMMA StartFacts ==
  ASSUME SchedInv, NEW c \in Thread, thread_start(c)
  PROVE  /\ SchedInv' /\ status' = [status EXCEPT ![c] = "READY"] /\ current' = current
         /\ status[c] = "NONE"
<1> USE ThreadAssumption
<1>1. ~elem_find(thread_ready_list, c)
  BY DEF SchedInv, ReadyListConsistent, thread_start
<1>2. /\ thread_ready_list' = list_append(thread_ready_list, c)
      /\ status' = [status EXCEPT ![c] = "READY"]
      /\ current' = current /\ intr' = intr
      /\ ticks' = [ticks EXCEPT ![c] = priority[c]]
      /\ saved_if' = [saved_if EXCEPT ![c] = TRUE]
      /\ status[c] = "NONE"
  BY DEF thread_start
<1>3. panic' = FALSE
  BY <1>1 DEF thread_start, elem_find
<1>4. ThreadTypeOK'
  <2>1. ticks' \in [Thread -> Nat] /\ saved_if' \in [Thread -> BOOLEAN]
    BY <1>2 DEF SchedInv, ThreadTypeOK
  <2>. QED  BY <2>1, <1>2, <1>3, AppendFacts DEF SchedInv, ThreadTypeOK, Status
<1>5. ReadyListConsistent'
  BY <1>1, <1>2, AppendFacts DEF SchedInv, ThreadTypeOK, ReadyListConsistent, Status
<1>. QED  BY <1>2, <1>3, <1>4, <1>5 DEF SchedInv, ThreadTypeOK, Status
=============================================================================
