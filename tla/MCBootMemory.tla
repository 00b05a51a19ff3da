----------------------------- MODULE MCBootMemory -----------------------------
(***************************************************************************)
(* BootMemory with pages of two bytes, room for two registered modules and *)
(* up to three modules, and command lines of up to four characters of      *)
(* which three are kept.                                                   *)
(***************************************************************************)
EXTENDS BootMemory

Chars == {"a", "b", SPACE}
Strings(n) == UNION {[1 .. k -> Chars] : k \in 0 .. n}

\* All paths; command lines with a short, a long, an equal and an empty name.
MCPaths == Strings(4)
CmdLines == {<<>>, <<"a">>, <<"a", SPACE>>, <<"a", SPACE, "b">>, <<"a", "b">>,
             <<"a", "b", SPACE, "a">>, <<"a", "b", "a">>, <<"a", "b", "a", "b">>}

\* Modules of the given sizes, each on the first page after the one before.
StartOf(sizes, first) ==
  LET f[i \in DOMAIN sizes] ==
        IF i = 1 THEN first ELSE PageUp(f[i - 1] + sizes[i - 1])
  IN f

Module(sizes, names, first) ==
  [i \in DOMAIN sizes |-> [start |-> StartOf(sizes, first)[i],
                           end |-> StartOf(sizes, first)[i] + sizes[i],
                           cmdline |-> names[i]]]

\* Lists of up to three modules: all sizes from 0 to 3 bytes, right after the
\* kernel or further up, and all names.
MCModuleLists ==
  UNION {{Module(sizes, [i \in 1 .. n |-> <<"a">>], first) :
            sizes \in [1 .. n -> 0 .. 3], first \in {6, 10}} : n \in 0 .. 3}
    \cup
  UNION {{Module([i \in 1 .. n |-> 2], names, 6) : names \in [1 .. n -> CmdLines]} :
         n \in 1 .. 3}
=============================================================================
