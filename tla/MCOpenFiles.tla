---------------------------- MODULE MCOpenFiles -----------------------------
(* Two processes, two files, and tables with few entries. *)
EXTENDS OpenFiles

=============================================================================
