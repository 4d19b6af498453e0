------------------------------ MODULE Terminal ------------------------------
(***************************************************************************)
(* What happens to a line that is typed at the shell (shell/shell.c): the    *)
(* keyboard, readline() with its line editing, cmd_parse(), and the choice   *)
(* between built-in and external commands in my_shell().                    *)
(*                                                                         *)
(* cmd_line is an array; its strings end at the first NUL, and what is       *)
(* behind that is left over from earlier keys.  The screen is the text       *)
(* behind the prompt.                                                       *)
(***************************************************************************)
EXTENDS Keyboard, SequencesExt

CONSTANTS
  cmd_len,         (* the length of cmd_line: 128                           *)
  MAX_PATH_LEN,    (* the count that readline() is called with: 512         *)
  MAX_ARG_NR,      (* the length of argv: 16                                *)
  Builtin          (* the words that are commands of the shell              *)

ASSUME TerminalAssumption ==
  cmd_len \in Nat \ {0} /\ MAX_PATH_LEN \in Nat \ {0} /\ MAX_ARG_NR \in Nat \ {0}

VARIABLES
  cmd_line,   (* the array, and the memory behind it that readline() can reach *)
  pos,        (* the local pos - buf of readline()                          *)
  screen,
  shell,      (* "readline", "parse" of the line, "spins" behind an external *)
              (* command, "failed" in an ASSERT                             *)
  line        (* ghost: the text that the keys read so far should have left  *)

shellVars == <<cmd_line, pos, screen, shell, line>>
vars == <<keyVars, shellVars>>

Cell == 0 .. MAX_PATH_LEN
Cleared == [i \in Cell |-> NUL]

Init ==
  /\ keyboard_init
  /\ cmd_line = Cleared /\ pos = 0 /\ screen = <<>> /\ shell = "readline"
  /\ line = <<>>

(* The string at the start of an array. *)
cstring(a) ==
  LET n == CHOOSE k \in 0 .. MAX_PATH_LEN + 1 :
             (k > MAX_PATH_LEN \/ a[k] = NUL) /\ \A i \in 0 .. k - 1 : a[i] # NUL
  IN  [i \in 1 .. n |-> a[i - 1]]

-----------------------------------------------------------------------------
(* What a key does to a line: the reference. *)
edit(text, c) ==
  CASE c = backspace -> IF text = <<>> THEN <<>> ELSE Front(text)
    [] c = <<l, 2>>  -> text
    [] c = <<u, 2>>  -> <<>>
    [] c = enter     -> text
    [] OTHER         -> Append(text, c)

(* '\b': "do not delete what was not typed now" goes by cmd_line[0]. *)
backspace_key(a) ==
  /\ cmd_line' = a
  /\ IF a[0] # backspace THEN pos' = pos - 1 /\ screen' = Front(screen)
                         ELSE UNCHANGED <<pos, screen>>
  /\ UNCHANGED shell

(* ctrl+l: the screen is cleared, prompt and string are printed again. *)
ctrl_l_key(a) ==
  /\ cmd_line' = [a EXCEPT ![pos] = NUL]
  /\ screen' = cstring([a EXCEPT ![pos] = NUL])
  /\ UNCHANGED <<pos, shell>>

(* Mutant of ctrl_u_key: pos stays where it was. *)
ctrl_u_key_stays(a) ==
  /\ cmd_line' = [i \in Cell |-> IF i \in 1 .. pos THEN NUL ELSE a[i]]
  /\ screen' = SubSeq(screen, 1, Len(screen) - pos)
  /\ UNCHANGED <<pos, shell>>

(* ctrl+u: backwards to the first cell, which keeps what it has. *)
ctrl_u_key(a) ==
  /\ cmd_line' = [i \in Cell |-> IF i \in 1 .. pos THEN NUL ELSE a[i]]
  /\ screen' = SubSeq(screen, 1, Len(screen) - pos)
  /\ pos' = 0
  /\ UNCHANGED shell

enter_key(a) ==
  /\ cmd_line' = [a EXCEPT ![pos] = NUL]
  /\ shell' = "parse"
  /\ UNCHANGED <<pos, screen>>

other_key(a) ==
  /\ cmd_line' = a
  /\ screen' = Append(screen, a[pos])
  /\ pos' = pos + 1
  /\ UNCHANGED shell

(* One turn of readline(): a character is read into the next cell first, and *)
(* then the limit is looked at.                                             *)
readline ==
  LET c == Head(kbd_buf)
      a == [cmd_line EXCEPT ![pos] = c]
  IN
  /\ shell = "readline" /\ getchar
  /\ line' = edit(line, Head(meant))
  /\ IF pos = MAX_PATH_LEN THEN cmd_line' = a /\ shell' = "parse" /\ UNCHANGED <<pos, screen>>
     ELSE CASE c = enter     -> enter_key(a)
            [] c = backspace -> backspace_key(a)
            [] c = <<l, 2>>  -> ctrl_l_key(a)
            [] c = <<u, 2>>  -> ctrl_u_key(a)
            [] OTHER         -> other_key(a)

-----------------------------------------------------------------------------
(* Mutant of cmd_parse: at a word too many it breaks off with the words so far. *)
cmd_parse_breaks_off(text) ==
  LET word(w, i) == Append(w.argv, SubSeq(text, w.from, i - 1))
      step(w, i) == IF i <= Len(text) /\ text[i] # space
                      THEN [w EXCEPT !.from = IF @ = 0 THEN i ELSE @]
                      ELSE IF w.from = 0 \/ Len(w.argv) > MAX_ARG_NR THEN w
                      ELSE [from |-> 0, argv |-> word(w, i)]
      walk == FoldLeft(step, [from |-> 0, argv |-> <<>>], [i \in 1 .. Len(text) + 1 |-> i])
  IN  walk.argv

(* cmd_parse(): the words, in a walk over the string that remembers where    *)
(* the current word began (0: between words).  Words that are too many make  *)
(* it give up, two of them behind the end of argv.                          *)
cmd_parse(text) ==
  LET word(w, i) == Append(w.argv, SubSeq(text, w.from, i - 1))
      step(w, i) == IF i <= Len(text) /\ text[i] # space
                      THEN [w EXCEPT !.from = IF @ = 0 THEN i ELSE @]
                      ELSE IF w.from = 0 \/ Len(w.argv) > MAX_ARG_NR + 1 THEN w
                      ELSE [from |-> 0, argv |-> word(w, i)]
      walk == FoldLeft(step, [from |-> 0, argv |-> <<>>], [i \in 1 .. Len(text) + 1 |-> i])
  IN  walk.argv

(* my_shell() with the line that was entered: an empty one is passed over,   *)
(* too many words are refused, strcmp() fails its ASSERT on a line without a *)
(* word, and behind an external command the parent spins for ever.          *)
my_shell ==
  LET text == cstring(cmd_line)
      words == cmd_parse(text)
      prompts == text = <<>> \/ Len(words) > MAX_ARG_NR + 1
                 \/ (words # <<>> /\ words[1] \in Builtin)
  IN
  /\ shell = "parse"
  /\ IF prompts
       THEN /\ shell' = "readline"
            /\ cmd_line' = [i \in Cell |-> IF i < MAX_PATH_LEN THEN NUL ELSE cmd_line[i]]
            /\ pos' = 0 /\ screen' = <<>> /\ line' = <<>>
       ELSE /\ shell' = IF words = <<>> THEN "failed" ELSE "spins"
            /\ UNCHANGED <<cmd_line, pos, screen, line>>
  /\ UNCHANGED keyVars

Next ==
  \/ KeyboardStep /\ UNCHANGED shellVars
  \/ readline
  \/ my_shell

Spec == Init /\ [][Next]_vars

-----------------------------------------------------------------------------
(* While a line is typed, the cells of cmd_line before pos and the screen     *)
(* behind the prompt are the text that the keys read so far leave, backspace *)
(* and ctrl+u included; and when enter ends a line below the limit, the       *)
(* string that my_shell() finds is that text, whatever cells once held.     *)
LineEdited ==
  /\ shell = "readline" => [i \in 1 .. pos |-> cmd_line[i - 1]] = line /\ screen = line
  /\ shell = "parse" /\ pos < MAX_PATH_LEN => cstring(cmd_line) = line

(* The reference: where words begin and end. *)
word_starts(text) ==
  {i \in 1 .. Len(text) : text[i] # space /\ (i = 1 \/ text[i - 1] = space)}
word_end(text, i) ==
  CHOOSE j \in i .. Len(text) :
    (j = Len(text) \/ text[j + 1] = space) /\ \A k \in i .. j : text[k] # space
words_of(text) ==
  LET from == SetToSortSeq(word_starts(text), <)
  IN  [n \in 1 .. Len(from) |-> SubSeq(text, from[n], word_end(text, from[n]))]

(* "Find the words of cmd_str that are separated by token" (cmd_parse()):    *)
(* the words of a line are its maximal runs of other characters, in order,   *)
(* and they are refused only when there are too many of them.               *)
WordsParsed ==
  shell = "parse" =>
    LET text == cstring(cmd_line)
        words == words_of(text)
    IN  IF Len(words) <= MAX_ARG_NR + 1 THEN cmd_parse(text) = words
        ELSE Len(cmd_parse(text)) > MAX_ARG_NR + 1

(* assert(a != NULL && b != NULL) (strcmp() in lib/string.c): every line that  *)
(* is entered has a first word to compare.  Refuted by a line of spaces.    *)
LineHasWord == shell # "failed"

(* "At most 128 characters of a command line" (shell.c): readline() stays in   *)
(* cmd_line.  Refuted: it is called with 512.                               *)
LineInArray == \A i \in Cell : i >= cmd_len => cmd_line[i] = NUL

(* "Lest argv be accessed out of bounds" (cmd_parse()): refuted by two words   *)
(* too many.                                                                *)
ArgvInBounds == shell = "parse" => Len(cmd_parse(cstring(cmd_line))) <= MAX_ARG_NR
=============================================================================
