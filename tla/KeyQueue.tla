------------------------------ MODULE KeyQueue ------------------------------
(***************************************************************************)
(* What the keyboard buffer promises its readers: a bounded queue of         *)
(* characters. A key typed when it is full is lost; every other one is       *)
(* given to exactly one reader, in the order of typing.                     *)
(***************************************************************************)
EXTENDS Naturals, Sequences

CONSTANTS Reader,    \* the processes that read the keyboard
          Char,      \* the characters the keyboard produces
          Capacity   \* how many characters the buffer holds

VARIABLES queue,  \* the characters typed and not yet read
          got     \* what the system call a reader is in has read so far

vars == <<queue, got>>

Init == queue = <<>> /\ got = [r \in Reader |-> <<>>]

(* A key is typed and there is room for it. *)
Type(c) ==
  /\ Len(queue) < Capacity
  /\ queue' = Append(queue, c)
  /\ UNCHANGED got

(* A reader takes the oldest character. *)
Take(r) ==
  /\ queue # <<>>
  /\ queue' = Tail(queue)
  /\ got' = [got EXCEPT ![r] = Append(@, Head(queue))]

(* A read() returns to its caller. *)
Return(r) ==
  /\ got' = [got EXCEPT ![r] = <<>>]
  /\ UNCHANGED queue

Next ==
  \/ \E c \in Char : Type(c)
  \/ \E r \in Reader : Take(r) \/ Return(r)

Spec == Init /\ [][Next]_vars
=============================================================================
