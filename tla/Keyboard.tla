------------------------------ MODULE Keyboard ------------------------------
(***************************************************************************)
(* device/keyboard.c: the bytes that the keyboard sends when keys go down    *)
(* and up, and what intr_keyboard_handler() makes of them.  A key is the     *)
(* number of its make code, with 0xe000 for keys whose codes have a prefix.  *)
(*                                                                         *)
(* A character is <<index, column>> of keymap; the characters that stand for *)
(* ctrl+l and ctrl+u are column 2.  kbd_buf is the bounded queue that the    *)
(* ring buffer implements (module IoQueue).                                 *)
(***************************************************************************)
EXTENDS Integers, Sequences, FiniteSets

CONSTANTS
  Tap,        (* the keys that are struck: down and up again               *)
  Hold,       (* the keys that are held down for a while                   *)
  Together,   (* whether both shifts or both ctrls are ever down together   *)
  Capacity    (* the characters that fit kbd_buf: 63                       *)

PREFIX == 224                                   (* 0xe0                     *)
EXT == 57344                                    (* 0xe000                   *)
shift_l_make == 42
shift_r_make == 54
alt_l_make == 56
alt_r_make == EXT + 56
ctrl_l_make == 29
ctrl_r_make == EXT + 29
caps_lock_make == 58
l == 38
u == 22

Shift == {shift_l_make, shift_r_make}
Ctrl == {ctrl_l_make, ctrl_r_make}
Alt == {alt_l_make, alt_r_make}

ASSUME KeyboardAssumption ==
  /\ Hold \subseteq Shift \cup Ctrl \cup Alt
  /\ Tap \subseteq ((1 .. 88) \cup (EXT + 1 .. EXT + 88)) \ (Shift \cup Ctrl \cup Alt)
  /\ Together \in BOOLEAN /\ Capacity \in Nat \ {0}

VARIABLES
  held,       (* the keys of Hold that are down                            *)
  caps,       (* ghost: caps lock has been struck an odd number of times   *)
  wire,       (* the bytes sent, each with the character that is meant      *)
  ctrl_status, shift_status, alt_status, caps_lock_status, ext_scancode,
  kbd_buf,    (* the characters that nobody has read yet                   *)
  meant       (* ghost: the characters that were meant by them             *)

handVars == <<held, caps>>
statusVars == <<ctrl_status, shift_status, alt_status, caps_lock_status>>
keyVars == <<handVars, wire, statusVars, ext_scancode, kbd_buf, meant>>

NUL == <<0, 0>>
backspace == <<14, 0>>
enter == <<28, 0>>
space == <<57, 0>>

(* keyboard_init(). *)
keyboard_init ==
  /\ held = {} /\ caps = FALSE /\ wire = <<>>
  /\ ctrl_status = FALSE /\ shift_status = FALSE /\ alt_status = FALSE
  /\ caps_lock_status = FALSE /\ ext_scancode = FALSE
  /\ kbd_buf = <<>> /\ meant = <<>>

-----------------------------------------------------------------------------
(* The keyboard and the user's hands. *)

(* What a key cap says. *)
Letter == (16 .. 25) \cup (30 .. 38) \cup (44 .. 50)
Control == {1, 14, 15, 28, 55, 57}               (* esc, tab, space, ...      *)

Printed(key) ==
  LET shift == held \cap Shift # {}
      upper == IF key \in Letter THEN shift # caps ELSE key \notin Control /\ shift
  IN  IF key > caps_lock_make - 1 THEN NUL
      ELSE IF ~upper /\ held \cap Ctrl # {} /\ key \in {l, u} THEN <<key, 2>>
      ELSE <<key, IF upper THEN 1 ELSE 0>>

(* The bytes of a make or break code; the last one carries the character. *)
prefix == [byte |-> PREFIX, char |-> NUL]
scan(key, up, char) == [byte |-> (key % 256) + (IF up THEN 128 ELSE 0), char |-> char]
extended(key) == key > 255

bytes(key, up) == IF extended(key) THEN <<prefix, scan(key, up, NUL)>> ELSE <<scan(key, up, NUL)>>

(* The keyboard sends when its last bytes have been taken. *)
Press(key) ==
  /\ wire = <<>> /\ key \in Hold \ held
  /\ Together \/ \A kind \in {Shift, Ctrl, Alt} : key \in kind => held \cap kind = {}
  /\ held' = held \cup {key}
  /\ wire' = bytes(key, FALSE)
  /\ UNCHANGED <<caps, statusVars, ext_scancode, kbd_buf, meant>>

Release(key) ==
  /\ wire = <<>> /\ key \in held
  /\ held' = held \ {key}
  /\ wire' = bytes(key, TRUE)
  /\ UNCHANGED <<caps, statusVars, ext_scancode, kbd_buf, meant>>

Strike(key) ==
  /\ wire = <<>> /\ key \in Tap
  /\ LET make == scan(key, FALSE, Printed(key))
         break == scan(key, TRUE, NUL)
     IN  wire' = IF extended(key) THEN <<prefix, make, prefix, break>> ELSE <<make, break>>
  /\ caps' = (caps # (key = caps_lock_make))
  /\ UNCHANGED <<held, statusVars, ext_scancode, kbd_buf, meant>>

-----------------------------------------------------------------------------
(* keymap: a key without a character, one with the same in both columns, and *)
(* one with two.                                                            *)
keymap(index, shift) ==
  IF index \in {0, 29, 42, 54, 56, 58} THEN NUL
  ELSE IF index \in {1, 14, 15, 28, 55, 57} THEN <<index, 0>>
  ELSE <<index, IF shift THEN 1 ELSE 0>>

(* The keys that only shift matters for. *)
two_chars(code) == code < 14 \/ code \in {41, 26, 27, 43, 39, 40, 51, 52, 53}

(* Mutant of column: shift does not undo caps lock. *)
column_either(code) ==
  IF two_chars(code) THEN shift_status ELSE shift_status \/ caps_lock_status

(* The column of keymap. *)
column(code) ==
  IF two_chars(code) THEN shift_status ELSE shift_status # caps_lock_status

(* The character of a make code, ctrl+l and ctrl+u included. *)
cur_char(code) ==
  LET c == keymap(code % 256, column(code))
  IN  IF ctrl_status /\ c \in {<<l, 0>>, <<u, 0>>} THEN <<c[1], 2>> ELSE c

(* Mutant of break_code: only the left ctrl is released. *)
break_code_left(code) ==
  /\ ctrl_status' = (ctrl_status /\ code # ctrl_l_make)
  /\ shift_status' = (shift_status /\ code \notin Shift)
  /\ alt_status' = (alt_status /\ code \notin Alt)
  /\ UNCHANGED <<caps_lock_status, kbd_buf, meant>>

(* A key goes up. *)
break_code(code) ==
  /\ ctrl_status' = (ctrl_status /\ code \notin Ctrl)
  /\ shift_status' = (shift_status /\ code \notin Shift)
  /\ alt_status' = (alt_status /\ code \notin Alt)
  /\ UNCHANGED <<caps_lock_status, kbd_buf, meant>>

(* A key goes down: a character goes to kbd_buf if there is room, a control  *)
(* key is recorded without its prefix, and alt is not recorded at all.      *)
make_code(code, char) ==
  LET c == cur_char(code)
      index == code % 256
      room == Len(kbd_buf) < Capacity
  IN  IF c # NUL
        THEN /\ kbd_buf' = IF room THEN Append(kbd_buf, c) ELSE kbd_buf
             /\ meant' = IF room THEN Append(meant, char) ELSE meant
             /\ UNCHANGED statusVars
        ELSE /\ ctrl_status' = (ctrl_status \/ index \in Ctrl)
             /\ shift_status' = (shift_status \/ index \in Shift)
             /\ caps_lock_status' = (caps_lock_status # (index = caps_lock_make))
             /\ UNCHANGED <<alt_status, kbd_buf, meant>>

known(code) == code \in 1 .. 58 \/ code \in {alt_r_make, ctrl_r_make}

(* The prefix counts for one more byte. *)
merge(byte) == ext_scancode' = FALSE

(* The keyboard interrupt, for one byte. *)
intr_keyboard_handler ==
  LET byte == Head(wire).byte
      code == IF ext_scancode THEN EXT + byte ELSE byte
  IN
  /\ wire # <<>>
  /\ wire' = Tail(wire)
  /\ \/ /\ byte = PREFIX
        /\ ext_scancode' = TRUE
        /\ UNCHANGED <<statusVars, kbd_buf, meant>>
     \/ /\ byte # PREFIX /\ byte >= 128
        /\ merge(byte)
        /\ break_code(code - 128)
     \/ /\ byte < 128 /\ known(code)
        /\ merge(byte)
        /\ make_code(code, Head(wire).char)
     \/ /\ byte < 128 /\ ~known(code)
        /\ merge(byte)
        /\ UNCHANGED <<statusVars, kbd_buf, meant>>
  /\ UNCHANGED handVars

(* A character is read from kbd_buf. *)
getchar ==
  /\ kbd_buf # <<>>
  /\ kbd_buf' = Tail(kbd_buf) /\ meant' = Tail(meant)
  /\ UNCHANGED <<handVars, wire, statusVars, ext_scancode>>

KeyboardStep ==
  \/ \E key \in Hold : Press(key) \/ Release(key)
  \/ \E key \in Tap : Strike(key)
  \/ intr_keyboard_handler

(* The keyboard with any reader. *)
KeyboardSpec == keyboard_init /\ [][KeyboardStep \/ getchar]_keyVars

-----------------------------------------------------------------------------
(* "Variables that record whether the key is down" (keyboard.c): whenever     *)
(* the bytes sent have been handled, ctrl_status and shift_status say whether *)
(* a key of that kind is down and caps_lock_status whether caps lock is on.  *)
StatusMatchesKeys ==
  wire = <<>> =>
    /\ ctrl_status = (held \cap Ctrl # {})
    /\ shift_status = (held \cap Shift # {})
    /\ caps_lock_status = caps
    /\ ~ext_scancode

(* The characters in kbd_buf are those that the keys struck stand for, with  *)
(* the shift, ctrl and caps lock keys as they were then, in their order.    *)
KeysDecoded == kbd_buf = meant

(* The same of alt; refuted: alt_status is never set.                        *)
AltRecorded == wire = <<>> => alt_status = (held \cap Alt # {})
=============================================================================
