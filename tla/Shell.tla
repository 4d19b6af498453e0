------------------------------- MODULE Shell --------------------------------
(***************************************************************************)
(* The built-in commands of the shell (shell/buildin_cmd.c and my_shell() in *)
(* shell/shell.c) on the directories of module DirTree, beside programs that *)
(* make their own calls with absolute paths.  An argument is the names of a  *)
(* path and whether it starts with "/".  A command with the wrong number of  *)
(* arguments, and one whose call returns -1, only print: they are no steps.  *)
(***************************************************************************)
EXTENDS DirTree

CONSTANT Typed        (* the arguments that are typed                        *)

ASSUME ShellAssumption ==
  Typed \subseteq [abs : BOOLEAN, names : Seq(Name \cup {".", ".."})]

VARIABLES
  cwd,        (* cwd_inode_nr of the shell                                  *)
  cwd_cache,  (* the string in the prompt: "/" and the names behind it       *)
  gone        (* ghost: the directory that the shell went to was removed     *)

shellVars == <<cwd, cwd_cache, gone>>
allVars == <<vars, shellVars>>

ShellInit == Init /\ cwd = 0 /\ cwd_cache = <<"/">> /\ gone = FALSE

-----------------------------------------------------------------------------
(* Mutant of wash_path: ".." is passed over like ".". *)
wash_path_ignores_up(names) == SelectSeq(names, LAMBDA n : n \notin {".", ".."})

(* wash_path(): ".." takes the last name away if there is one, "." nothing. *)
wash_path(names) ==
  FoldLeft(LAMBDA p, n : IF n = ".." THEN (IF p = <<>> THEN p ELSE Front(p))
                         ELSE IF n = "." THEN p
                         ELSE Append(p, n), <<>>, names)

(* sys_getcwd() climbs through directories only; elsewhere an ASSERT fails. *)
getcwd_fails == cwd # 0 /\ parent_fails(part, cwd)

(* make_clear_abs_path(): what is not absolute goes behind getcwd(). *)
needs_cwd(arg) == ~arg.abs
make_clear_abs_path(arg) ==
  wash_path(IF needs_cwd(arg) THEN getcwd(part, cwd) \o arg.names ELSE arg.names)

(* Whoever removes it, the directory of the shell does not come back. *)
Lost ==
  /\ gone' = (gone \/ cwd \notin part'.inode_bitmap)
  /\ UNCHANGED <<cwd, cwd_cache>>

(* cd: sys_chdir(), and my_shell() clears MAX_PATH_LEN bytes from cwd_cache   *)
(* on before it copies final_path there.  The array is shorter, and           *)
(* final_path lies behind it (build/kernel.map): an empty string is copied.  *)
buildin_cd(path) ==
  LET r == search_file(part, path) IN
  /\ r.at = "DIRECTORY"
  /\ cwd' = r.ino /\ cwd_cache' = <<>> /\ gone' = FALSE
  /\ UNCHANGED vars

(* mkdir, rmdir and rm leave the root alone. *)
buildin_mkdir(path) == path # <<>> /\ sys_mkdir(path) /\ Lost

(* Mutant of buildin_rmdir: the root is not left out. *)
buildin_rmdir_root(path) == sys_rmdir(path) /\ Lost

buildin_rmdir(path) == path # <<>> /\ sys_rmdir(path) /\ Lost

buildin_rm(path) == path # <<>> /\ sys_unlink(path) /\ Lost

(* A command whose argument is turned into a path first. *)
command(arg) ==
  LET final_path == make_clear_abs_path(arg)
  IN
  /\ panic = ""
  /\ IF needs_cwd(arg) /\ getcwd_fails
       THEN fails("getcwd") /\ UNCHANGED shellVars
       ELSE \/ buildin_cd(final_path) \/ buildin_mkdir(final_path)
            \/ buildin_rmdir(final_path) \/ buildin_rm(final_path)

ShellNext ==
  \/ \E arg \in Typed : command(arg)
  \/ Next /\ Lost

ShellSpec == ShellInit /\ [][ShellNext]_allVars

-----------------------------------------------------------------------------
(* pwd and ls change nothing; what they print is in these operators. *)

(* Mutant of dir_read: dir_pos is taken for a place, cleared or not. *)
dir_read_by_place(s, d, dir_pos) ==
  IF dir_pos >= s.inode[d].i_size THEN EMPTY ELSE entries(s, d)[dir_pos]

(* dir_read(): the first entry behind dir_pos others, EMPTY at the end. *)
dir_read(s, d, dir_pos) ==
  LET es == entries(s, d)
      rest == {k \in Pos : /\ es[k].f_type # "UNKNOWN"
                           /\ Cardinality({j \in 0 .. k - 1 : es[j].f_type # "UNKNOWN"}) = dir_pos}
  IN  IF dir_pos >= s.inode[d].i_size \/ rest = {} THEN EMPTY ELSE es[Min(rest)]

(* The loop of buildin_ls() over readdir(), from rewinddir() on. *)
buildin_ls(s, d) ==
  LET from[n \in Pos \cup {MaxBlocks * PerSec}] ==
        IF n \notin Pos \/ dir_read(s, d, n) = EMPTY THEN <<>>
        ELSE <<dir_read(s, d, n)>> \o from[n + 1]
  IN  from[0]

(* sys_stat(): type, inode number and size; "/", "/." and "/.." are the root. *)
sys_stat(s, path) ==
  LET r == search_file(s, path)
  IN  IF path \in {<<>>, <<".">>, <<"..">>} THEN <<"DIRECTORY", 0, s.inode[0].i_size>>
      ELSE IF r.ino = -1 THEN <<>>
      ELSE <<r.at, r.ino, s.inode[r.ino].i_size>>

-----------------------------------------------------------------------------
(* "Turn the .. and . of a path into the real path" (wash_path()): when an     *)
(* argument leads somewhere by the entries "." and ".." on the disk, from the *)
(* root or from the working directory, the path that make_clear_abs_path()    *)
(* gives the command leads to the same inode.                               *)
WashedLeadsThere ==
  LET here == getcwd(part, cwd) IN
  \A arg \in Typed : arg.abs \/ (panic = "" /\ ~gone) =>
    LET names == IF needs_cwd(arg) THEN here \o arg.names ELSE arg.names
        raw == search_file(part, names)
        washed == search_file(part, wash_path(names))
    IN  raw.ino # -1 /\ raw.depth = Len(names) => washed.ino = raw.ino

(* pwd: what sys_getcwd() puts together from the entries of the directories    *)
(* above is a path to the directory that cd went to, through everything that  *)
(* the shell and programs have created and removed since, for as long as the  *)
(* directory has not been removed itself.                                   *)
PwdIsCwd ==
  panic = "" /\ ~gone => <<getcwd(part, cwd), cwd, "DIRECTORY">> \in Reached

(* No command that is typed trips an ASSERT of the file system, whatever "..", *)
(* "." or "/" is in its argument, but one: sys_getcwd() in a directory that   *)
(* was removed.                                                             *)
CommandsSafe == panic # "" => gone /\ panic = "getcwd"

(* ls of a directory lists each of its entries once, also where others have   *)
(* been removed, and the stat() that ls -l makes of each finds its inode.   *)
ListingComplete ==
  \A x \in Reached : x[3] = "DIRECTORY" =>
    LET listed == buildin_ls(part, x[2])
    IN  /\ Len(listed) = part.inode[x[2]].i_size
        /\ {listed[i] : i \in DOMAIN listed} = Range(entries(part, x[2])) \ {EMPTY}
        /\ \A i \in DOMAIN listed :
             LET st == sys_stat(part, Append(x[1], listed[i].filename))
             IN  st[1] = listed[i].f_type /\ st[2] = listed[i].i_no

(* "Returns NULL when it fails" (sys_getcwd()); refuted: in a directory that   *)
(* was removed it fails in an ASSERT.                                       *)
GetcwdAnswers == panic # "getcwd"

(* The prompt names the working directory; refuted by the first cd: the        *)
(* prompt is empty from then on.                                            *)
PromptIsCwd == panic = "" => cwd_cache = <<"/">> \o getcwd(part, cwd)
=============================================================================
