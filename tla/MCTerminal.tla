----------------------------- MODULE MCTerminal -----------------------------
(* A keyboard with a few keys and a shell with short lines. *)
EXTENDS Terminal

mcBuiltin == {<<<<u, 0>>>>}

(* Keys struck when the shell reads no more are not followed.  Lines of more  *)
(* than two characters are made of u and spaces, with the modifiers up again  *)
(* and caps lock off, but for what is erased in them.                       *)
mcReads ==
  /\ shell \in {"readline", "parse"}
  /\ pos > 2 => held = {} /\ ~caps /\ Range(line) \subseteq {<<u, 0>>, space}
=============================================================================
