---------------------------- MODULE UpdateHeaders ----------------------------
(***************************************************************************)
(* update_headers.sh, the script that replaces the header tree of this     *)
(* repository by the user-space headers of the newest longterm kernel.     *)
(*                                                                         *)
(* Each element of Dir is a working directory in which the script is run,  *)
(* over and over, by one process at a time.  A run is a sequence of shell  *)
(* commands under "set -e": a command that fails ends the run and leaves   *)
(* the directory as it is.  Being killed has the same effect, so both are  *)
(* the action Abort (the commands that are not atomic have an action for   *)
(* the prefix of their work that an interrupted run leaves behind).        *)
(*                                                                         *)
(* A header is a pair <<v, n>>: the file named n as kernel v exports it.   *)
(***************************************************************************)
EXTENDS Naturals

CONSTANTS
  Version,   \* kernel releases, in order
  Arch,      \* the directories below arch/ of the kernel source
  Name,      \* header file names
  Asm,       \* Asm[v][a]: the asm/ headers kernel v exports for a
  Gen,       \* Gen[v][a]: all its other headers
  Matches,   \* <<r, v>> \in Matches: grep finds v in a .version that holds r
  Dir        \* working directories

ASSUME VersionAssumption == Version \subseteq Nat
ASSUME ArchAssumption    == Arch # {}
ASSUME ExportAssumption  == /\ Asm \in [Version -> [Arch -> SUBSET Name]]
                            /\ Gen \in [Version -> [Arch -> SUBSET Name]]
ASSUME MatchesAssumption == \A v \in Version : <<v, v>> \in Matches

VARIABLES
  site,      \* the version kernel.org lists as the newest longterm
  pc,        \* the next command of the run in each directory, or "idle"
  ver,       \* $VERSION
  dot,       \* the contents of .version
  archdir,   \* arch/<a>/asm
  incl,      \* include/
  ktmp,      \* the kernel source is unpacked in .kernel_tmp
  htmp,      \* .header_tmp/<a>/include, its asm/ and its other directories
  todo,      \* what is left of the $ARCHS of the current loop
  cur,       \* $arch of the second loop
  lost,      \* a command followed by "|| true" failed in this run
  exit       \* how the last run ended

workVars == <<dot, archdir, incl, ktmp, htmp>>
runVars  == <<pc, ver, todo, cur, lost, exit>>
vars     == <<site, workVars, runVars>>

Header == Version \X Name

Commands == {"fetch", "check", "record", "clean", "download", "install",
             "prepare", "copy"}

(* What `make headers_install' stages for one architecture. *)
Staged == [asm : SUBSET Header, gen : SUBSET Header]
NoneStaged == [asm |-> {}, gen |-> {}]

PartOf(s) == [asm : SUBSET s.asm, gen : SUBSET s.gen]

From(v, names) == {v} \X names

Exported(v, a) == [asm |-> From(v, Asm[v][a]), gen |-> From(v, Gen[v][a])]

(* The tree of a run in which nothing fails: arch/ has the asm/ headers of *)
(* every architecture and include/ the union of all the others.            *)
FullArch(v) == [a \in Arch |-> From(v, Asm[v][a])]
FullIncl(v) == {h \in Header : h[1] = v /\ \E a \in Arch : h[2] \in Gen[v][a]}

TypeOK ==
  /\ site \in Version
  /\ pc \in [Dir -> Commands \cup {"idle"}]
  /\ ver \in [Dir -> Version]
  /\ dot \in [Dir -> Version]
  /\ archdir \in [Dir -> [Arch -> SUBSET Header]]
  /\ incl \in [Dir -> SUBSET Header]
  /\ ktmp \in [Dir -> BOOLEAN]
  /\ htmp \in [Dir -> [Arch -> Staged]]
  /\ todo \in [Dir -> SUBSET Arch]
  /\ cur \in [Dir -> Arch]
  /\ lost \in [Dir -> BOOLEAN]
  /\ exit \in [Dir -> {"none", "ok", "uptodate", "error"}]

(* A fresh clone of a repository whose tree is that of some release. *)
Init ==
  /\ site \in Version
  /\ pc = [d \in Dir |-> "idle"]
  /\ dot \in {[d \in Dir |-> v] : v \in {w \in Version : w <= site}}
  /\ ver = dot
  /\ archdir = [d \in Dir |-> FullArch(dot[d])]
  /\ incl = [d \in Dir |-> FullIncl(dot[d])]
  /\ ktmp = [d \in Dir |-> FALSE]
  /\ htmp = [d \in Dir |-> [a \in Arch |-> NoneStaged]]
  /\ todo = [d \in Dir |-> {}]
  /\ cur = [d \in Dir |-> CHOOSE a \in Arch : TRUE]
  /\ lost = [d \in Dir |-> FALSE]
  /\ exit = [d \in Dir |-> "none"]

Goto(d, from, to) ==
  /\ pc[d] = from
  /\ pc' = [pc EXCEPT ![d] = to]

Exit(d, status) == exit' = [exit EXCEPT ![d] = status]

-----------------------------------------------------------------------------
(* kernel.org publishes a newer longterm release. *)
NewRelease ==
  /\ site' \in {v \in Version : v > site}
  /\ UNCHANGED <<workVars, runVars>>

Start(d) ==
  /\ Goto(d, "idle", "fetch")
  /\ Exit(d, "none")
  /\ lost' = [lost EXCEPT ![d] = FALSE]
  /\ UNCHANGED <<site, workVars, ver, todo, cur>>

(* Mutant: without 'longterm:', the first version on the page is taken,    *)
(* which may be newer than the longterm release.                           *)
FetchMainline(d) ==
  /\ Goto(d, "fetch", "check")
  /\ \E v \in {w \in Version : w >= site} : ver' = [ver EXCEPT ![d] = v]
  /\ UNCHANGED <<site, workVars, todo, cur, lost, exit>>

(* VERSION="$(curl ... | grep ... | grep ...)" *)
FetchVersion(d) ==
  /\ Goto(d, "fetch", "check")
  /\ ver' = [ver EXCEPT ![d] = site]
  /\ UNCHANGED <<site, workVars, todo, cur, lost, exit>>

(* if grep -q "$VERSION" .version *)
CheckVersion(d) ==
  /\ IF <<dot[d], ver[d]>> \in Matches
       THEN Goto(d, "check", "idle") /\ Exit(d, "uptodate")
       ELSE Goto(d, "check", "record") /\ UNCHANGED exit
  /\ UNCHANGED <<site, workVars, ver, todo, cur, lost>>

(* echo "$VERSION" > .version *)
RecordVersion(d) ==
  /\ Goto(d, "record", "clean")
  /\ dot' = [dot EXCEPT ![d] = ver[d]]
  /\ UNCHANGED <<site, archdir, incl, ktmp, htmp, ver, todo, cur, lost, exit>>

(* Mutant: include/ is missing from the rm -rf. *)
CleanKeepsIncl(d) ==
  /\ Goto(d, "clean", "download")
  /\ archdir' = [archdir EXCEPT ![d] = [a \in Arch |-> {}]]
  /\ ktmp' = [ktmp EXCEPT ![d] = FALSE]
  /\ htmp' = [htmp EXCEPT ![d] = [a \in Arch |-> NoneStaged]]
  /\ UNCHANGED <<site, dot, incl, ver, todo, cur, lost, exit>>

(* rm -rf and mkdir of .kernel_tmp, .header_tmp, arch and include *)
CleanTrees(d) ==
  /\ Goto(d, "clean", "download")
  /\ archdir' = [archdir EXCEPT ![d] = [a \in Arch |-> {}]]
  /\ incl' = [incl EXCEPT ![d] = {}]
  /\ ktmp' = [ktmp EXCEPT ![d] = FALSE]
  /\ htmp' = [htmp EXCEPT ![d] = [a \in Arch |-> NoneStaged]]
  /\ UNCHANGED <<site, dot, ver, todo, cur, lost, exit>>

(* The rm -rf is cut off: some files are gone, some are still there.  It   *)
(* takes its arguments in order, so arch/ is emptied before include/ is    *)
(* touched.                                                                *)
CleanCut(d) ==
  /\ Goto(d, "clean", "idle")
  /\ Exit(d, "error")
  /\ \E left \in SUBSET {x \in Arch \X Header : x[2] \in archdir[d][x[1]]},
        leftIncl \in SUBSET incl[d] :
       /\ left = {} \/ leftIncl = incl[d]
       /\ archdir' = [archdir EXCEPT ![d] =
                        [a \in Arch |-> {h \in Header : <<a, h>> \in left}]]
       /\ incl' = [incl EXCEPT ![d] = leftIncl]
  /\ ktmp' = [ktmp EXCEPT ![d] = FALSE]
  /\ htmp' = [htmp EXCEPT ![d] = [a \in Arch |-> NoneStaged]]
  /\ UNCHANGED <<site, dot, ver, todo, cur, lost>>

(* curl, tar, rm of the tarball; the find that lists the architectures *)
Download(d) ==
  /\ Goto(d, "download", "install")
  /\ ktmp' = [ktmp EXCEPT ![d] = TRUE]
  /\ todo' = [todo EXCEPT ![d] = Arch]
  /\ UNCHANGED <<site, dot, archdir, incl, htmp, ver, cur, lost, exit>>

(* One round of the first loop.  `make headers_install ... || true' stages *)
(* what the architecture exports or, when it fails, a part of it.          *)
InstallArch(d, a) ==
  /\ Goto(d, "install", "install")
  /\ a \in todo[d]
  /\ todo' = [todo EXCEPT ![d] = @ \ {a}]
  /\ \E s \in PartOf(Exported(ver[d], a)) :
       /\ htmp' = [htmp EXCEPT ![d][a] = s]
       /\ lost' = [lost EXCEPT ![d] = @ \/ s # Exported(ver[d], a)]
  /\ UNCHANGED <<site, dot, archdir, incl, ktmp, ver, cur, exit>>

(* rm -rf .kernel_tmp; find -empty -delete; the find of what is left *)
StripEmpty(d) ==
  /\ Goto(d, "install", "prepare")
  /\ todo[d] = {}
  /\ ktmp' = [ktmp EXCEPT ![d] = FALSE]
  /\ todo' = [todo EXCEPT ![d] = {a \in Arch : htmp[d][a] # NoneStaged}]
  /\ UNCHANGED <<site, dot, archdir, incl, htmp, ver, cur, lost, exit>>

(* mkdir arch/$arch; cd $arch/include; mv asm/ *)
MoveAsm(d, a) ==
  /\ Goto(d, "prepare", "copy")
  /\ a \in todo[d]
  /\ htmp[d][a].asm # {}
  /\ cur' = [cur EXCEPT ![d] = a]
  /\ todo' = [todo EXCEPT ![d] = @ \ {a}]
  /\ archdir' = [archdir EXCEPT ![d][a] = htmp[d][a].asm]
  /\ htmp' = [htmp EXCEPT ![d][a] = [asm |-> {}, gen |-> @.gen]]
  /\ UNCHANGED <<site, dot, incl, ktmp, ver, lost, exit>>

(* The architecture staged no asm/ directory: the mv fails and ends the run. *)
MoveFails(d, a) ==
  /\ Goto(d, "prepare", "idle")
  /\ a \in todo[d]
  /\ htmp[d][a].asm = {}
  /\ Exit(d, "error")
  /\ UNCHANGED <<site, workVars, ver, todo, cur, lost>>

(* cp -l does not replace a file: a name include/ has already keeps it. *)
LinkInto(files, s) == files \cup {h \in s : \A g \in files : g[2] # h[2]}

(* cp -rl of the other directories, `|| true': a copy that fails is not    *)
(* noticed; then rm -rf of $arch/include.                                  *)
CopyGeneric(d) ==
  /\ Goto(d, "copy", "prepare")
  /\ \E s \in SUBSET htmp[d][cur[d]].gen :
       /\ incl' = [incl EXCEPT ![d] = LinkInto(@, s)]
       /\ lost' = [lost EXCEPT ![d] = @ \/ s # htmp[d][cur[d]].gen]
  /\ htmp' = [htmp EXCEPT ![d][cur[d]] = NoneStaged]
  /\ UNCHANGED <<site, dot, archdir, ktmp, ver, todo, cur, exit>>

(* The cp -rl is cut off. *)
CopyCut(d) ==
  /\ Goto(d, "copy", "idle")
  /\ Exit(d, "error")
  /\ \E s \in SUBSET htmp[d][cur[d]].gen :
       incl' = [incl EXCEPT ![d] = LinkInto(@, s)]
  /\ UNCHANGED <<site, dot, archdir, ktmp, htmp, ver, todo, cur, lost>>

(* Mutant: the loop over the staged architectures ends early. *)
FinishEarly(d) ==
  /\ Goto(d, "prepare", "idle")
  /\ Exit(d, "ok")
  /\ htmp' = [htmp EXCEPT ![d] = [a \in Arch |-> NoneStaged]]
  /\ UNCHANGED <<site, dot, archdir, incl, ktmp, ver, todo, cur, lost>>

(* rm -rf .header_tmp; exit 0 *)
Finish(d) ==
  /\ Goto(d, "prepare", "idle")
  /\ todo[d] = {}
  /\ Exit(d, "ok")
  /\ htmp' = [htmp EXCEPT ![d] = [a \in Arch |-> NoneStaged]]
  /\ UNCHANGED <<site, dot, archdir, incl, ktmp, ver, todo, cur, lost>>

(* set -e: the command at pc fails, or the run is killed before it. *)
Abort(d) ==
  /\ pc[d] # "idle"
  /\ pc' = [pc EXCEPT ![d] = "idle"]
  /\ Exit(d, "error")
  /\ UNCHANGED <<site, workVars, ver, todo, cur, lost>>

Command(d) ==
  \/ FetchVersion(d) \/ CheckVersion(d) \/ RecordVersion(d) \/ CleanTrees(d)
  \/ Download(d) \/ StripEmpty(d) \/ CopyGeneric(d) \/ Finish(d)
  \/ \E a \in Arch : InstallArch(d, a) \/ MoveAsm(d, a) \/ MoveFails(d, a)

Interrupt(d) == Abort(d) \/ CleanCut(d) \/ CopyCut(d)

Next == NewRelease \/ \E d \in Dir : Start(d) \/ Command(d) \/ Interrupt(d)

Spec == Init /\ [][Next]_vars

-----------------------------------------------------------------------------
(* Every header in the tree of d is one of release v. *)
TreeOf(d, v) ==
  /\ \A h \in incl[d] : h[1] = v
  /\ \A a \in Arch : \A h \in archdir[d][a] : h[1] = v

(* However many runs a directory has seen, and wherever they were cut off, *)
(* its arch/ and include/ never mix the headers of two releases: the       *)
(* rm -rf comes before anything is put there.                              *)
NoMixedTree == \A d \in Dir : \E v \in Version : TreeOf(d, v)

(* A run that ends with exit 0 after preparing the headers, none of its    *)
(* `|| true' commands having failed, leaves exactly the headers of         *)
(* $VERSION in the tree, for every architecture, whatever the directory    *)
(* held before; .version names them and the temporary directories are gone. *)
CleanRunIsComplete ==
  \A d \in Dir :
    pc[d] = "idle" /\ exit[d] = "ok" /\ ~lost[d] =>
      /\ dot[d] = ver[d]
      /\ archdir[d] = FullArch(ver[d])
      /\ incl[d] = FullIncl(ver[d])
      /\ ~ktmp[d] /\ htmp[d] = [a \in Arch |-> NoneStaged]

(* "Kernel Headers already up to date." (update_headers.sh:37): a run that *)
(* says so leaves the headers of a release grep takes for $VERSION.        *)
UpToDateIsTrue ==
  \A d \in Dir :
    pc[d] = "idle" /\ exit[d] = "uptodate" =>
      \E v \in Version : /\ <<v, ver[d]>> \in Matches
                         /\ archdir[d] = FullArch(v)
                         /\ incl[d] = FullIncl(v)
=============================================================================
