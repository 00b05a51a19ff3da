------------------------------ MODULE BootMemory ------------------------------
(***************************************************************************)
(* What the kernel makes of the memory and the modules that GRUB hands it: *)
(* kmain registers the modules, pfa_init and pfa_reserve set up the bitmap *)
(* of pfa.c, and from then on frames come and go and exec looks modules    *)
(* up.  Addresses are bytes, so that ends of modules fall inside pages.    *)
(* GRUB starts every module on a page: the loader asks for it with bit 0   *)
(* of its flags.                                                           *)
(***************************************************************************)
EXTENDS ModuleLoader, FiniteSets

CONSTANTS
  PAGE_SIZE,         \* bytes in a page (4096)
  MAX_FRAMES,        \* bits in the bitmap
  BitmapBytes,       \* bytes that pfa_init sets aside for it (MAX_FRAMES / 8)
  KernelEnd,         \* kernel_physical_end
  MemEnd,            \* the end of memory (64MB)
  ModuleLists,       \* what GRUB may pass: sequences of modules
  Paths              \* the names that exec is given

ASSUME BootMemoryAssumption ==
  /\ PAGE_SIZE \in Nat \ {0}
  /\ MAX_FRAMES \in Nat /\ BitmapBytes \in Nat /\ KernelEnd \in Nat
  /\ MemEnd \in 0 .. MAX_FRAMES * PAGE_SIZE
  /\ ModuleLists \subseteq Seq([start : Nat, end : Nat, cmdline : Seq(Char)])
  /\ Paths \subseteq Seq(Char)
  /\ \A list \in ModuleLists : \A i \in DOMAIN list :
       /\ list[i].start % PAGE_SIZE = 0
       /\ KernelEnd <= list[i].start
       /\ list[i].start <= list[i].end /\ list[i].end <= MemEnd

VARIABLES
  mods,              \* GRUB's module list
  loaded,            \* loaded_modules
  bitmap,            \* the frames whose bit is set
  start_frame, total_frames,
  out,               \* the frames that pfa_alloc has handed out
  pc                 \* where kmain is

bootVars == <<mods, loaded, bitmap, start_frame, total_frames, out, pc>>

BitmapFrames == 0 .. MAX_FRAMES - 1
PageUp(a) == ((a + PAGE_SIZE - 1) \div PAGE_SIZE) * PAGE_SIZE

BootInit ==
  /\ mods \in ModuleLists
  /\ loaded = <<>>
  /\ bitmap = {}
  /\ start_frame = 0
  /\ total_frames = 0
  /\ out = {}
  /\ pc = "modules"

\* get_module_list and module_loader_set_modules
SetModules ==
  /\ pc = "modules"
  /\ loaded' = Registered(mods)
  /\ pc' = "pfa_init"
  /\ UNCHANGED <<mods, bitmap, start_frame, total_frames, out>>

\* pfa_reserve in steps of a page from the start of a module to its end.
Reserved(m) ==
  {a \div PAGE_SIZE : a \in {b \in m.start .. m.end - 1 :
     (b - m.start) % PAGE_SIZE = 0}}

\* pfa_init: the free memory begins behind the space set aside for the
\* bitmap; the first module is taken out of it.
PfaInit ==
  /\ pc = "pfa_init"
  /\ start_frame' = PageUp(PageUp(KernelEnd) + BitmapBytes) \div PAGE_SIZE
  /\ total_frames' = MemEnd \div PAGE_SIZE
  /\ bitmap' = (BitmapFrames \ (start_frame' .. total_frames' - 1))
                 \cup (IF mods = <<>> THEN {} ELSE Reserved(mods[1]))
  /\ pc' = "reserve"
  /\ UNCHANGED <<mods, loaded, out>>

\* Mutant: only the registered modules are protected.
ReserveRegistered ==
  /\ pc = "reserve"
  /\ bitmap' = bitmap \cup UNION {Reserved(loaded[i]) : i \in DOMAIN loaded}
  /\ pc' = "run"
  /\ UNCHANGED <<mods, loaded, start_frame, total_frames, out>>

\* kmain: the other modules are taken out as well.
ReserveOthers ==
  /\ pc = "reserve"
  /\ bitmap' = bitmap \cup UNION {Reserved(mods[i]) : i \in 2 .. Len(mods)}
  /\ pc' = "run"
  /\ UNCHANGED <<mods, loaded, start_frame, total_frames, out>>

Clear == (start_frame .. total_frames - 1) \ bitmap

\* pfa_alloc when there is a frame; it changes nothing when there is none.
pfa_alloc ==
  /\ pc = "run"
  /\ Clear # {}
  /\ bitmap' = bitmap \cup {Min(Clear)}
  /\ out' = out \cup {Min(Clear)}
  /\ UNCHANGED <<mods, loaded, start_frame, total_frames, pc>>

\* A frame out of range is refused: callers only free what they were given.
pfa_free(f) ==
  /\ pc = "run"
  /\ out' = out \ {f}
  /\ bitmap' = IF f \in start_frame .. total_frames - 1 THEN bitmap \ {f} ELSE bitmap
  /\ UNCHANGED <<mods, loaded, start_frame, total_frames, pc>>

BootNext ==
  \/ SetModules
  \/ PfaInit
  \/ ReserveOthers
  \/ pfa_alloc
  \/ \E f \in out : pfa_free(f)

BootSpec == BootInit /\ [][BootNext]_bootVars

-----------------------------------------------------------------------------
BytesOf(f) == f * PAGE_SIZE .. (f + 1) * PAGE_SIZE - 1

\* Safety: no frame that is handed out holds a byte of the kernel or of any
\* module, also of modules beyond those that the loader registers and of the
\* last, partly filled page of each: exec can load a program at any time.
ModulesSurvive ==
  \A f \in out : \A b \in BytesOf(f) :
    /\ b >= KernelEnd
    /\ \A i \in DOMAIN mods : b \notin mods[i].start .. mods[i].end - 1

\* The name of a module: its command line up to the first space.
NameOf(cmdline) ==
  LET spaces == {i \in DOMAIN cmdline : cmdline[i] = SPACE}
  IN IF spaces = {} THEN cmdline ELSE Cut(cmdline, Min(spaces) - 1)

\* Whether module i is one that exec of path should load.  A path that is cut
\* off, or would be with one character more, stands for all names that begin
\* like it as far as they are kept.
Meant(path, i) ==
  LET name == NameOf(mods[i].cmdline)
  IN IF Len(path) < CMDLINE_MAX_LEN
     THEN name = path
     ELSE Cut(name, CMDLINE_MAX_LEN) = Cut(path, CMDLINE_MAX_LEN)

\* The first of them that is registered, or 0.
Named(path) ==
  LET hits == {i \in 1 .. Min({Len(mods), MAX_MODULES}) : Meant(path, i)}
  IN IF hits = {} THEN 0 ELSE Min(hits)

\* Safety: exec of a path of fewer than CMDLINE_MAX_LEN characters loads the
\* first registered module whose whole name, as GRUB listed it and however
\* long, is that path, from where GRUB put it: never one whose name merely
\* begins like it or that it merely begins like, and whatever the arguments on
\* the command line.  For a longer path it loads the first whose name agrees
\* with it in CMDLINE_MAX_LEN characters: the rest is not told apart.
FindsByName ==
  pc # "modules" => \A path \in Paths :
    LET k == find_module_by_path(copy_user_string(path), loaded)
    IN /\ k = Named(path)
       /\ k # 0 => loaded[k].start = mods[k].start /\ loaded[k].end = mods[k].end
=============================================================================
