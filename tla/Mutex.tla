------------------------------- MODULE Mutex -------------------------------
(***************************************************************************)
(* What a lock of thread/sync.c promises its clients: it can be acquired     *)
(* while no other thread is inside, any number of times by one thread, and   *)
(* it is free again after as many releases.                                 *)
(***************************************************************************)
EXTENDS Naturals

CONSTANTS Thread, Lock

VARIABLE inside   \* how often each thread has acquired each lock

Init == inside = [l \in Lock |-> [t \in Thread |-> 0]]

Enter(t, l) ==
  /\ \A u \in Thread \ {t} : inside[l][u] = 0
  /\ inside' = [inside EXCEPT ![l][t] = @ + 1]

Leave(t, l) ==
  /\ inside[l][t] > 0
  /\ inside' = [inside EXCEPT ![l][t] = @ - 1]

Next == \E t \in Thread, l \in Lock : Enter(t, l) \/ Leave(t, l)

Spec == Init /\ [][Next]_inside
=============================================================================
