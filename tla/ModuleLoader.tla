----------------------------- MODULE ModuleLoader -----------------------------
(***************************************************************************)
(* How exec finds a program by name: module_loader.c, which keeps a copy   *)
(* of GRUB's module list, and copy_user_string of syscall.c, which fetches *)
(* the name from the calling process.  A string is a sequence of           *)
(* characters; both copies cut it off.                                     *)
(***************************************************************************)
EXTENDS Integers, Sequences, FiniteSetsExt

CONSTANTS
  MAX_MODULES,       \* MODULE_LOADER_MAX_MODULES (8)
  CMDLINE_MAX_LEN,   \* MODULE_CMDLINE_MAX_LEN (63)
  EXEC_PATH_MAX      \* the buffer of sys_exec (64)

ASSUME ModuleLoaderAssumption ==
  /\ MAX_MODULES \in Nat /\ CMDLINE_MAX_LEN \in Nat
  /\ EXEC_PATH_MAX = CMDLINE_MAX_LEN + 1

SPACE == " "
NUL == "NUL"
Char == STRING \ {NUL}

\* s[i] of C, from 1 on: the terminator follows the last character.
At(s, i) == IF i <= Len(s) THEN s[i] ELSE NUL

Cut(s, n) == SubSeq(s, 1, Min({Len(s), n}))

\* copy_cmdline
copy_cmdline(src) == Cut(src, CMDLINE_MAX_LEN)

\* copy_user_string: the last byte of a full buffer becomes the terminator.
copy_user_string(s) ==
  IF Len(s) < EXEC_PATH_MAX THEN s ELSE Cut(s, EXEC_PATH_MAX - 1)

\* Mutant: a path that is only the beginning of the name matches.
path_matches_prefix(path, cmdline) ==
  \A i \in 1 .. Len(path) : path[i] = At(cmdline, i)

\* path_matches_cmdline: where its loop stops decides.
path_matches_cmdline(path, cmdline) ==
  LET stop == Min({i \in 1 .. Len(path) + 1 :
                     \/ At(path, i) = NUL
                     \/ At(cmdline, i) \in {NUL, SPACE}
                     \/ At(path, i) # At(cmdline, i)})
  IN At(path, stop) = NUL /\ At(cmdline, stop) \in {NUL, SPACE}

\* module_loader_set_modules
Registered(mods) ==
  [i \in 1 .. Min({Len(mods), MAX_MODULES}) |->
     [start |-> mods[i].start, end |-> mods[i].end,
      cmdline |-> copy_cmdline(mods[i].cmdline)]]

\* module_loader_find_module_by_path: the index of the module, or 0.
find_module_by_path(path, loaded) ==
  LET hits == {i \in DOMAIN loaded : path_matches_cmdline(path, loaded[i].cmdline)}
  IN IF hits = {} THEN 0 ELSE Min(hits)
=============================================================================
