------------------------------ MODULE AtomicFs ------------------------------
(***************************************************************************)
(* What a file system owes its users when the power may fail at any time:   *)
(* a call changes one file, by its whole effect at once; a call that has     *)
(* returned has had its effect; and a crash changes nothing by itself.      *)
(* Calls of the operations in Fragile take effect step by step, and a crash  *)
(* in the middle of one may damage the disk: then nothing more is promised. *)
(***************************************************************************)
CONSTANTS
  Name,      (* the names of files                                          *)
  Fragile,   (* the operations that a crash may not interrupt               *)
  Absent     (* nothing                                                     *)

VARIABLES
  files,     (* what is under each name                                     *)
  call,      (* the call in progress: its operation, its name and what is   *)
             (* to be under that name; op = "none" between calls            *)
  damaged    (* a crash has damaged the disk                                *)

vars == <<files, call, damaged>>

Idle == call.op = "none"

Init ==
  /\ files = [n \in Name |-> Absent]
  /\ Idle
  /\ damaged = FALSE

Begin ==
  /\ Idle /\ call'.op # "none"
  /\ UNCHANGED <<files, damaged>>

Commit ==
  /\ ~Idle
  /\ \A n \in Name \ {call.name} : files'[n] = files[n]
  /\ call.op \notin Fragile => files'[call.name] = call.after
  /\ UNCHANGED <<call, damaged>>

Return ==
  /\ ~Idle
  /\ call.name \in Name => files[call.name] = call.after
  /\ call'.op = "none"
  /\ UNCHANGED <<files, damaged>>

Crash ==
  /\ call'.op = "none"
  /\ files' = files
  /\ damaged' => call.op \in Fragile

Next ==
  \/ ~damaged /\ (Begin \/ Commit \/ Return \/ Crash)
  \/ damaged /\ damaged'

Spec == Init /\ [][Next]_vars
=============================================================================
