--------------------------- MODULE HeaderInstall ---------------------------
(***************************************************************************)
(* The two ways of installing the headers into a prefix, over and over and *)
(* from a tree that changes: `make install' (GNUmakefile) and              *)
(* `meson install' (meson.build, meson_options.txt).                       *)
(*                                                                         *)
(* A source file is a pair <<a, n>>: arch/a/n, or include/n when a is      *)
(* "include".  The target of both is include/n below the prefix.  make     *)
(* installs a file only when it is missing or older than its source, so    *)
(* the model records which sources have been modified since a target was   *)
(* last written.  The tree may change during a run as well as between      *)
(* runs.  How make and meson themselves work is external.                  *)
(***************************************************************************)
EXTENDS Naturals

CONSTANTS
  Arch,      \* the directories below arch/
  AsmName,   \* asm/...
  GenName,   \* the names of all other headers
  Choices,   \* the choices of the option `arch'
  Cpu,       \* the values of build_machine.cpu_family()
  Rev        \* contents a file may have

ASSUME NameAssumption == AsmName \cap GenName = {} /\ "include" \notin Arch

Target == AsmName \cup GenName
Source == (Arch \X AsmName) \cup ({"include"} \X GenName)

VARIABLES
  tree,      \* the sources there are
  rev,       \* the contents of each
  newer,     \* the sources modified since their target was written
  there,     \* the targets there are
  from,      \* the source each was copied from ...
  got,       \* ... its contents then ...
  whole,     \* ... and whether the copy was completed, its source being the same
  run,       \* "idle", or the tool that is running
  sel,       \* the architecture it installs
  todo,      \* the targets it has yet to look at
  moved,     \* whether the tree has changed since the run began
  done       \* the tool whose last run succeeded, the tree being the same
             \* since that run began

treeVars == <<tree, rev>>
destVars == <<newer, there, from, got, whole>>
runVars  == <<run, sel, todo, moved, done>>
vars     == <<treeVars, destVars, runVars>>

TypeOK ==
  /\ tree \in SUBSET Source
  /\ rev \in [Source -> Rev]
  /\ newer \in SUBSET Source
  /\ there \in SUBSET Target
  /\ from \in [Target -> Source]
  /\ got \in [Target -> Rev]
  /\ whole \in [Target -> BOOLEAN]
  /\ run \in {"idle", "make", "meson"}
  /\ todo \in SUBSET Target
  /\ moved \in BOOLEAN
  /\ done \in {"none", "make", "meson"}

(* An empty prefix. *)
Init ==
  /\ tree = Source
  /\ rev \in {[s \in Source |-> r] : r \in Rev}
  /\ newer = {}
  /\ there = {}
  /\ from \in {[t \in Target |-> s] : s \in Source}
  /\ got \in {[t \in Target |-> r] : r \in Rev}
  /\ whole = [t \in Target |-> FALSE]
  /\ run = "idle"
  /\ sel = "generic"
  /\ todo = {}
  /\ moved = FALSE
  /\ done = "none"

(* The sources of a run for a: $(ARCH_INCLUDES) and $(GENERIC_INCLUDES).   *)
SourcesFor(a) == {s \in tree : s[1] \in {a, "include"}}

(* The pattern rules: the one for arch/ comes first. *)
SourceOf(t) ==
  IF <<sel, t>> \in tree THEN <<sel, t>> ELSE <<"include", t>>

-----------------------------------------------------------------------------
(* The tree moves to another release, file by file, at any time: s is      *)
(* written anew, or added, or it is removed.                               *)
Move == moved' = (run # "idle") /\ done' = "none"

WriteSource(s) ==
  /\ tree' = tree \cup {s}
  /\ \E r \in Rev : rev' = [rev EXCEPT ![s] = r]
  /\ newer' = newer \cup {s}
  /\ Move
  /\ UNCHANGED <<there, from, got, whole, run, sel, todo>>

RemoveSource(s) ==
  /\ tree' = tree \ {s}
  /\ Move
  /\ UNCHANGED <<rev, destVars, run, sel, todo>>

(* install: the wildcards are expanded when make reads the makefile. *)
MakeInstall(a) ==
  /\ run = "idle"
  /\ run' = "make"
  /\ sel' = a
  /\ todo' = {s[2] : s \in SourcesFor(a)}
  /\ moved' = FALSE /\ done' = "none"
  /\ UNCHANGED <<treeVars, destVars>>

(* The target is then as new as its source, whatever happened to that in   *)
(* the meantime.                                                           *)
Copy(t, complete) ==
  /\ SourceOf(t) \in tree
  /\ there' = there \cup {t}
  /\ from' = [from EXCEPT ![t] = SourceOf(t)]
  /\ got' = [got EXCEPT ![t] = rev[SourceOf(t)]]
  /\ whole' = [whole EXCEPT ![t] = complete]
  /\ newer' = {s \in newer : s[2] # t}

(* Mutant: the source is an order-only prerequisite. *)
Missing(t) == t \notin there

(* make runs the recipe of t only if t is missing or older. *)
OutOfDate(t) == t \notin there \/ SourceOf(t) \in newer

(* $(INSTALL_CMD) -D -m 644 $< $@, in any order with make -j *)
MakeFile(t) ==
  /\ run = "make"
  /\ t \in todo /\ SourceOf(t) \in tree
  /\ todo' = todo \ {t}
  /\ IF OutOfDate(t) THEN Copy(t, TRUE) ELSE UNCHANGED destVars
  /\ UNCHANGED <<treeVars, run, sel, moved, done>>

(* No rule applies, for the source is gone: there is nothing to be done    *)
(* for a target that exists.                                               *)
MakePassesOver(t) ==
  /\ run = "make"
  /\ t \in todo \cap there /\ SourceOf(t) \notin tree
  /\ todo' = todo \ {t}
  /\ UNCHANGED <<treeVars, destVars, run, sel, moved, done>>

(* Mutant: meson install --only-changed. *)
MesonMissingFile(t) ==
  /\ run = "meson"
  /\ t \in todo
  /\ todo' = todo \ {t}
  /\ IF t \in there THEN UNCHANGED destVars ELSE Copy(t, TRUE)
  /\ UNCHANGED <<treeVars, run, sel, moved, done>>

(* meson install copies every file, whatever is there. *)
MesonFile(t) ==
  /\ run = "meson"
  /\ t \in todo
  /\ todo' = todo \ {t}
  /\ Copy(t, TRUE)
  /\ UNCHANGED <<treeVars, run, sel, moved, done>>

(* A source is written while it is copied: the target is a mixture.        *)
CopyTorn(t) ==
  /\ t \in todo
  /\ run = "make" => OutOfDate(t)
  /\ Copy(t, FALSE)
  /\ \E r \in Rev : rev' = [rev EXCEPT ![SourceOf(t)] = r]
  /\ todo' = todo \ {t}
  /\ Move
  /\ UNCHANGED <<tree, run, sel>>

Stop(result) ==
  /\ run' = "idle"
  /\ done' = result
  /\ todo' = {} /\ moved' = FALSE

(* The copy of a file is cut off (no space left, say) and ends the run. *)
CopyCut(t) ==
  /\ t \in todo
  /\ run = "make" => OutOfDate(t)
  /\ Copy(t, FALSE)
  /\ Stop("none")
  /\ UNCHANGED <<treeVars, sel>>

(* The source of t is gone: No rule to make target, or meson cannot read   *)
(* it.                                                                     *)
NoSource(t) ==
  /\ t \in todo /\ SourceOf(t) \notin tree
  /\ Stop("none")
  /\ UNCHANGED <<treeVars, destVars, sel>>

Finish ==
  /\ run # "idle"
  /\ todo = {}
  /\ Stop(IF moved THEN "none" ELSE run)
  /\ UNCHANGED <<treeVars, destVars, sel>>

(* if (selected_arch == 'auto') ... *)
SelectedArch(option, cpu) ==
  IF option # "auto" THEN option
  ELSE CASE cpu = "aarch64" -> "arm64"
         [] cpu = "mips64" -> "mips"
         [] cpu \in {"ppc", "ppc64"} -> "powerpc"
         [] cpu \in {"riscv32", "riscv64"} -> "riscv"
         [] cpu = "s390x" -> "s390"
         [] cpu = "sh4" -> "sh"
         [] cpu = "sparc64" -> "sparc"
         [] cpu = "x86_64" -> "x86"
         [] OTHER -> cpu

(* meson setup and meson install.  install_subdir of a directory that does *)
(* not exist installs nothing.                                             *)
MesonInstall(option, cpu) ==
  /\ run = "idle"
  /\ run' = "meson"
  /\ sel' = SelectedArch(option, cpu)
  /\ todo' = {s[2] : s \in SourcesFor(sel')}
  /\ moved' = FALSE /\ done' = "none"
  /\ UNCHANGED <<treeVars, destVars>>

Next ==
  \/ Finish
  \/ \E s \in Source : WriteSource(s) \/ RemoveSource(s)
  \/ \E a \in Arch : MakeInstall(a)
  \/ \E option \in Choices, cpu \in Cpu : MesonInstall(option, cpu)
  \/ \E t \in Target : \/ MakeFile(t) \/ MakePassesOver(t) \/ MesonFile(t)
                       \/ CopyCut(t) \/ CopyTorn(t) \/ NoSource(t)

Spec == Init /\ [][Next]_vars

-----------------------------------------------------------------------------
(* t holds the present contents of source s. *)
Current(t, s) == t \in there /\ whole[t] /\ from[t] = s /\ got[t] = rev[s]

(* After a `make install' that succeeds and during which the tree stays    *)
(* the same, every header of the tree is installed with its present        *)
(* contents, whatever was installed before and however the tree changed    *)
(* before and during the earlier runs; except that a target which another  *)
(* architecture or a copy that was cut off or torn wrote may have been     *)
(* left alone.                                                             *)
MakeInstallsAll ==
  done = "make" =>
    \A s \in SourcesFor(sel) :
      \/ Current(s[2], s)
      \/ s[2] \in there /\ (from[s[2]] # s \/ ~whole[s[2]])

(* After a `meson install' that succeeds and during which the tree stays   *)
(* the same, every header of the selected architecture and every generic   *)
(* one is installed with its present contents, whatever the earlier runs   *)
(* left, without exception.                                                *)
MesonInstallsAll ==
  done = "meson" => \A s \in SourcesFor(sel) : Current(s[2], s)
=============================================================================
