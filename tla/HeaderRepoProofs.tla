-------------------------- MODULE HeaderRepoProofs --------------------------
(* Proofs about UpdateHeaders, for every set of releases, architectures,   *)
(* header names and working directories, and then about HeaderRepo, which  *)
(* extends it, for any number of jobs, failures and releases.              *)
EXTENDS HeaderRepo, TLAPS

USE DEF workVars, runVars, vars, Goto, Exit

LEMMA FullTreeType ==
  ASSUME NEW v \in Version
  PROVE  /\ FullArch(v) \in [Arch -> SUBSET Header]
         /\ FullIncl(v) \in SUBSET Header
  BY ExportAssumption DEF FullArch, FullIncl, From, Header

LEMMA ExportedType ==
  ASSUME NEW v \in Version, NEW a \in Arch
  PROVE  Exported(v, a) \in Staged
  BY ExportAssumption DEF Exported, Staged, From, Header

LEMMA NoneStagedType == NoneStaged \in Staged
  BY Zenon DEF NoneStaged, Staged

LEMMA TypeStep == TypeOK /\ [Next]_vars => TypeOK'
<1> SUFFICES ASSUME TypeOK, [Next]_vars PROVE TypeOK'
  BY Zenon
<1> USE DEF TypeOK, Commands
<1>1. CASE NewRelease
  BY <1>1, Zenon DEF NewRelease
<1>2. ASSUME NEW d \in Dir, Start(d) PROVE TypeOK'
  BY <1>2, Zenon DEF Start
<1>3. ASSUME NEW d \in Dir, FetchVersion(d) PROVE TypeOK'
  BY <1>3, Zenon DEF FetchVersion
<1>4. ASSUME NEW d \in Dir, CheckVersion(d) PROVE TypeOK'
  BY <1>4, Zenon DEF CheckVersion
<1>5. ASSUME NEW d \in Dir, RecordVersion(d) PROVE TypeOK'
  BY <1>5, Zenon DEF RecordVersion
<1>6. ASSUME NEW d \in Dir, CleanTrees(d) PROVE TypeOK'
  BY <1>6, NoneStagedType, Zenon DEF CleanTrees
<1>7. ASSUME NEW d \in Dir, CleanCut(d) PROVE TypeOK'
  <2>1. archdir' \in [Dir -> [Arch -> SUBSET Header]]
    BY <1>7 DEF CleanCut
  <2>2. incl' \in [Dir -> SUBSET Header]
    BY <1>7 DEF CleanCut
  <2>3. QED
    BY <1>7, <2>1, <2>2, NoneStagedType, Zenon DEF CleanCut
<1>8. ASSUME NEW d \in Dir, Download(d) PROVE TypeOK'
  BY <1>8, Zenon DEF Download
<1>9. ASSUME NEW d \in Dir, NEW a \in Arch, InstallArch(d, a) PROVE TypeOK'
  <2>1. PICK s \in PartOf(Exported(ver[d], a)) :
               /\ htmp' = [htmp EXCEPT ![d][a] = s]
               /\ lost' = [lost EXCEPT ![d] = @ \/ s # Exported(ver[d], a)]
    BY ZenonT(30), <1>9 DEF InstallArch
  <2>2. s \in Staged
    BY ExportedType, Zenon DEF Staged, PartOf
  <2>3. (lost[d] \/ s # Exported(ver[d], a)) \in BOOLEAN
    BY Zenon
  <2>4. lost' \in [Dir -> BOOLEAN]
    BY <2>1, <2>3, Zenon
  <2>5. QED
    BY <1>9, <2>1, <2>2, <2>4, Zenon DEF InstallArch
<1>10. ASSUME NEW d \in Dir, StripEmpty(d) PROVE TypeOK'
  BY <1>10, Zenon DEF StripEmpty
<1>11. ASSUME NEW d \in Dir, NEW a \in Arch, MoveAsm(d, a) PROVE TypeOK'
  BY <1>11 DEF MoveAsm, Staged
<1>12. ASSUME NEW d \in Dir, NEW a \in Arch, MoveFails(d, a) PROVE TypeOK'
  BY <1>12, Zenon DEF MoveFails
<1>13. ASSUME NEW d \in Dir, CopyGeneric(d) PROVE TypeOK'
  BY <1>13, NoneStagedType DEF CopyGeneric, LinkInto, Staged
<1>14. ASSUME NEW d \in Dir, CopyCut(d) PROVE TypeOK'
  BY <1>14 DEF CopyCut, LinkInto, Staged
<1>15. ASSUME NEW d \in Dir, Finish(d) PROVE TypeOK'
  BY <1>15, NoneStagedType, Zenon DEF Finish
<1>16. ASSUME NEW d \in Dir, Abort(d) PROVE TypeOK'
  BY <1>16, Zenon DEF Abort
<1>17. CASE UNCHANGED vars
  BY <1>17, Zenon
<1>18. QED
  BY <1>1, <1>2, <1>3, <1>4, <1>5, <1>6, <1>7, <1>8, <1>9, <1>10, <1>11,
     <1>12, <1>13, <1>14, <1>15, <1>16, <1>17, Zenon
     DEF Next, Command, Interrupt

LEMMA TypeInit == Init => TypeOK
<1> SUFFICES ASSUME Init PROVE TypeOK
  BY Zenon
<1>1. PICK v \in Version : dot = [d \in Dir |-> v]
  BY Zenon DEF Init
<1>2. cur \in [Dir -> Arch]
  BY ArchAssumption, Zenon DEF Init
<1>3. QED
  BY <1>1, <1>2, FullTreeType, NoneStagedType, Zenon DEF Init, TypeOK, Commands

(* Every variable of the script and of the directory keeps its type. *)
THEOREM TypeCorrect == Spec => []TypeOK
  BY TypeInit, TypeStep, PTL DEF Spec

-----------------------------------------------------------------------------
(* Once the trees are emptied, everything put into .header_tmp, arch/ and  *)
(* include/ is of the release being installed, which .version names.       *)
Recorded == {"clean", "download", "install", "prepare", "copy"}
Emptied  == {"download", "install", "prepare", "copy"}

StagedOf(d, v) ==
  \A a \in Arch : /\ \A h \in htmp[d][a].asm : h[1] = v
                  /\ \A h \in htmp[d][a].gen : h[1] = v

DirInv(d) ==
  /\ \E v \in Version : TreeOf(d, v)
  /\ pc[d] \in Recorded => dot[d] = ver[d]
  /\ pc[d] \in Emptied => TreeOf(d, ver[d]) /\ StagedOf(d, ver[d])

VersionInv == \A d \in Dir : DirInv(d)

(* A run touches only the directory it is in. *)
SameDir(e) ==
  /\ pc'[e] = pc[e] /\ ver'[e] = ver[e] /\ dot'[e] = dot[e]
  /\ archdir'[e] = archdir[e] /\ incl'[e] = incl[e]
  /\ ktmp'[e] = ktmp[e] /\ htmp'[e] = htmp[e]
  /\ todo'[e] = todo[e] /\ cur'[e] = cur[e]
  /\ lost'[e] = lost[e] /\ exit'[e] = exit[e]

LEMMA OtherDirs ==
  ASSUME TypeOK, NEW d \in Dir, NEW e \in Dir, e # d,
         Start(d) \/ Command(d) \/ Interrupt(d)
  PROVE  SameDir(e)
<1> USE DEF TypeOK, SameDir
<1>1. CASE Start(d) \/ FetchVersion(d) \/ CheckVersion(d) \/ RecordVersion(d)
  BY <1>1 DEF Start, FetchVersion, CheckVersion, RecordVersion
<1>2. CASE CleanTrees(d) \/ Download(d) \/ StripEmpty(d) \/ CopyGeneric(d) \/ Finish(d)
  BY <1>2 DEF CleanTrees, Download, StripEmpty, CopyGeneric, Finish
<1>3. CASE \E a \in Arch : InstallArch(d, a) \/ MoveAsm(d, a) \/ MoveFails(d, a)
  BY <1>3 DEF InstallArch, MoveAsm, MoveFails
<1>4. CASE Abort(d) \/ CleanCut(d) \/ CopyCut(d)
  BY <1>4 DEF Abort, CleanCut, CopyCut
<1>5. QED
  BY <1>1, <1>2, <1>3, <1>4, Zenon DEF Command, Interrupt

(* The invariant of one directory is preserved by the run in it. *)
LEMMA OwnDir ==
  ASSUME TypeOK, NEW d \in Dir, DirInv(d),
         Start(d) \/ Command(d) \/ Interrupt(d)
  PROVE  DirInv(d)'
<1> USE DEF TypeOK, DirInv, Recorded, Emptied, TreeOf, StagedOf
<1>1. CASE Start(d)
  BY ZenonT(30), <1>1 DEF Start
<1>2. CASE FetchVersion(d)
  BY <1>2, Zenon DEF FetchVersion
<1>3. CASE CheckVersion(d)
  BY ZenonT(30), <1>3 DEF CheckVersion
<1>4. CASE RecordVersion(d)
  BY <1>4, Zenon DEF RecordVersion
<1>5. CASE CleanTrees(d)
  BY <1>5, Zenon DEF CleanTrees, NoneStaged
<1>6. CASE CleanCut(d)
  <2>1. PICK v \in Version : TreeOf(d, v)
    BY Zenon
  <2>2. TreeOf(d, v)'
    BY <1>6, <2>1 DEF CleanCut
  <2>3. pc'[d] = "idle"
    BY <1>6, Zenon DEF CleanCut
  <2>4. QED
    BY <2>2, <2>3, Zenon
<1>7. CASE Download(d)
  BY ZenonT(30), <1>7 DEF Download
<1>8. ASSUME NEW a \in Arch, InstallArch(d, a) PROVE DirInv(d)'
  <2>1. PICK s \in PartOf(Exported(ver[d], a)) : htmp' = [htmp EXCEPT ![d][a] = s]
    BY <1>8, Zenon DEF InstallArch
  <2>2. StagedOf(d, ver[d])'
    BY <1>8, <2>1 DEF InstallArch, PartOf, Exported, From
  <2>3. QED
    BY ZenonT(30), <1>8, <2>2 DEF InstallArch
<1>9. CASE StripEmpty(d)
  BY <1>9, Zenon DEF StripEmpty
<1>10. ASSUME NEW a \in Arch, MoveAsm(d, a) PROVE DirInv(d)'
  BY ZenonT(30), <1>10 DEF MoveAsm
<1>11. ASSUME NEW a \in Arch, MoveFails(d, a) PROVE DirInv(d)'
  BY ZenonT(30), <1>11 DEF MoveFails
<1>12. CASE CopyGeneric(d)
  <2>1. TreeOf(d, ver[d])'
    BY <1>12 DEF CopyGeneric, LinkInto
  <2>2. StagedOf(d, ver[d])'
    BY <1>12 DEF CopyGeneric, NoneStaged
  <2>3. QED
    BY ZenonT(30), <1>12, <2>1, <2>2 DEF CopyGeneric
<1>13. CASE CopyCut(d)
  <2>1. TreeOf(d, ver[d])'
    BY <1>13 DEF CopyCut, LinkInto
  <2>2. QED
    BY <1>13, <2>1, Zenon DEF CopyCut
<1>14. CASE Finish(d)
  BY <1>14, Zenon DEF Finish
<1>15. CASE Abort(d)
  BY <1>15, Zenon DEF Abort
<1>16. QED
  BY <1>1, <1>2, <1>3, <1>4, <1>5, <1>6, <1>7, <1>8, <1>9, <1>10, <1>11,
     <1>12, <1>13, <1>14, <1>15, Zenon DEF Command, Interrupt

(* No working tree ever mixes two releases, for every set of releases,     *)
(* architectures and directories and wherever the runs are cut off.        *)
THEOREM NeverMixed == Spec => []NoMixedTree
<1>1. Init => VersionInv
  <2> SUFFICES ASSUME Init, NEW d \in Dir PROVE DirInv(d)
    BY Zenon DEF VersionInv
  <2>1. PICK v \in Version : dot = [e \in Dir |-> v]
    BY Zenon DEF Init
  <2>2. TreeOf(d, v)
    BY <2>1, Zenon DEF Init, TreeOf, FullArch, FullIncl, From
  <2>3. QED
    BY <2>2, Zenon DEF Init, DirInv, Recorded, Emptied
<1>2. TypeOK /\ VersionInv /\ [Next]_vars => VersionInv'
  <2> SUFFICES ASSUME TypeOK, VersionInv, [Next]_vars, NEW e \in Dir
               PROVE  DirInv(e)'
    BY Zenon DEF VersionInv
  <2>1. DirInv(e)
    BY Zenon DEF VersionInv
  <2>2. SameDir(e) => DirInv(e)'
    BY <2>1 DEF SameDir, DirInv, TreeOf, StagedOf
  <2>3. CASE NewRelease \/ UNCHANGED vars
    BY <2>2, <2>3, Zenon DEF NewRelease, SameDir
  <2>4. ASSUME NEW d \in Dir, Start(d) \/ Command(d) \/ Interrupt(d)
        PROVE  DirInv(e)'
    BY <2>1, <2>2, <2>4, OtherDirs, OwnDir, Zenon
  <2>5. QED
    BY <2>3, <2>4, Zenon DEF Next
<1>3. VersionInv => NoMixedTree
  BY Zenon DEF VersionInv, DirInv, NoMixedTree
<1>4. QED
  BY <1>1, <1>2, <1>3, TypeCorrect, PTL DEF Spec

-----------------------------------------------------------------------------
(* What one run has done so far.  Whether or not something is lost, the    *)
(* tree and .header_tmp hold nothing but headers of $VERSION; if nothing   *)
(* is lost, the architectures still to do are staged in full and those     *)
(* done are in the tree in full.                                           *)
SubTree(d, v) ==
  /\ incl[d] \subseteq FullIncl(v)
  /\ \A a \in Arch : archdir[d][a] \subseteq From(v, Asm[v][a])

SubStaged(d, v) ==
  \A a \in Arch : /\ htmp[d][a].asm \subseteq From(v, Asm[v][a])
                  /\ htmp[d][a].gen \subseteq From(v, Gen[v][a])

EmptyTree(d) == incl[d] = {} /\ \A a \in Arch : archdir[d][a] = {}

Untouched(d, a) == archdir[d][a] = {} /\ htmp[d][a] = Exported(ver[d], a)

AsmDone(d, a) ==
  archdir[d][a] = From(ver[d], Asm[ver[d]][a]) /\ htmp[d][a].asm = {}

GenDone(d, a) ==
  From(ver[d], Gen[ver[d]][a]) \subseteq incl[d] /\ htmp[d][a].gen = {}

LoopInv(d) ==
  /\ \A a \in todo[d] : Untouched(d, a)
  /\ \A a \in Arch \ todo[d] : AsmDone(d, a)
  /\ \A a \in Arch \ todo[d] :
       \/ GenDone(d, a)
       \/ /\ pc[d] = "copy" /\ a = cur[d]
          /\ htmp[d][a].gen = From(ver[d], Gen[ver[d]][a])

RunInv(d) ==
  /\ pc[d] \in Recorded => dot[d] = ver[d]
  /\ pc[d] \in Emptied => SubTree(d, ver[d]) /\ SubStaged(d, ver[d])
  /\ pc[d] \in {"download", "install"} => EmptyTree(d)
  /\ pc[d] = "download" => htmp[d] = [a \in Arch |-> NoneStaged]
  /\ pc[d] = "install" /\ ~lost[d] =>
       \A a \in Arch \ todo[d] : htmp[d][a] = Exported(ver[d], a)
  /\ pc[d] \in {"prepare", "copy"} => ~ktmp[d]
  /\ pc[d] = "copy" => cur[d] \notin todo[d]
  /\ pc[d] \in {"prepare", "copy"} /\ ~lost[d] => LoopInv(d)
  /\ pc[d] = "idle" /\ exit[d] = "ok" =>
       /\ dot[d] = ver[d] /\ SubTree(d, ver[d])
       /\ ~ktmp[d] /\ htmp[d] = [a \in Arch |-> NoneStaged]
       /\ ~lost[d] => archdir[d] = FullArch(ver[d]) /\ incl[d] = FullIncl(ver[d])

LEMMA LinkIntoSame ==
  ASSUME NEW v \in Version, NEW files \in SUBSET Header, NEW s \in SUBSET Header,
         \A h \in files \cup s : h[1] = v
  PROVE  LinkInto(files, s) = files \cup s
  BY DEF LinkInto, Header

LEMMA GenInFull ==
  ASSUME NEW v \in Version, NEW a \in Arch
  PROVE  From(v, Gen[v][a]) \subseteq FullIncl(v)
  BY ExportAssumption, Zenon DEF From, FullIncl, Header

LEMMA FullInclIsUnion ==
  ASSUME NEW v \in Version, NEW S, \A a \in Arch : From(v, Gen[v][a]) \subseteq S
  PROVE  FullIncl(v) \subseteq S
  BY ExportAssumption, Zenon DEF From, FullIncl, Header

LEMMA NoneExported ==
  ASSUME NEW v \in Version, NEW a \in Arch, Exported(v, a) = NoneStaged
  PROVE  From(v, Asm[v][a]) = {} /\ From(v, Gen[v][a]) = {}
<1>1. Exported(v, a).asm = From(v, Asm[v][a]) /\ Exported(v, a).gen = From(v, Gen[v][a])
  BY Zenon DEF Exported
<1>2. NoneStaged.asm = {} /\ NoneStaged.gen = {}
  BY Zenon DEF NoneStaged
<1>3. QED
  BY <1>1, <1>2, Zenon

(* What an assignment to one architecture of one directory changes. *)
LEMMA NestedExcept ==
  ASSUME NEW D, NEW A, NEW S, NEW f \in [D -> [A -> S]], NEW d \in D, NEW a \in A,
         NEW x, NEW g, g = [f EXCEPT ![d][a] = x]
  PROVE  g[d][a] = x /\ \A b \in A \ {a} : g[d][b] = f[d][b]
  BY Zenon

(* A step that leaves d alone leaves what holds of the run in it. *)
LEMMA SameDirRun ==
  ASSUME NEW d \in Dir, todo[d] \subseteq Arch, RunInv(d), SameDir(d)
  PROVE  RunInv(d)'
<1> USE DEF SameDir
<1>1. SubTree(d, ver[d]) => SubTree(d, ver[d])'
  BY Zenon DEF SubTree
<1>2. SubStaged(d, ver[d]) => SubStaged(d, ver[d])'
  BY Zenon DEF SubStaged
<1>3. EmptyTree(d) => EmptyTree(d)'
  BY Zenon DEF EmptyTree
<1>4. ASSUME NEW a \in Arch
      PROVE  /\ Untouched(d, a) => Untouched(d, a)'
             /\ AsmDone(d, a) => AsmDone(d, a)'
             /\ GenDone(d, a) => GenDone(d, a)'
  <2>1. Untouched(d, a) => Untouched(d, a)'
    BY Zenon DEF Untouched
  <2>2. AsmDone(d, a) => AsmDone(d, a)'
    BY Zenon DEF AsmDone
  <2>3. GenDone(d, a) => GenDone(d, a)'
    BY Zenon DEF GenDone
  <2>4. QED
    BY <2>1, <2>2, <2>3, Zenon
<1>5. ASSUME LoopInv(d) PROVE LoopInv(d)'
  <2>1. \A a \in todo'[d] : Untouched(d, a)'
    BY <1>4, <1>5, Zenon DEF LoopInv
  <2>2. \A a \in Arch \ todo'[d] : AsmDone(d, a)'
    BY <1>4, <1>5, Zenon DEF LoopInv
  <2>3. ASSUME NEW a \in Arch \ todo'[d]
        PROVE  \/ GenDone(d, a)'
               \/ /\ pc'[d] = "copy" /\ a = cur'[d]
                  /\ htmp'[d][a].gen = From(ver'[d], Gen[ver'[d]][a])
    BY <1>4, <1>5, Zenon DEF LoopInv
  <2>4. QED
    BY <2>1, <2>2, <2>3, Zenon DEF LoopInv
<1>6. QED
  BY <1>1, <1>2, <1>3, <1>5, Zenon DEF RunInv

(* The run in d preserves what holds of it. *)
LEMMA OwnRun ==
  ASSUME TypeOK, NEW d \in Dir, RunInv(d),
         Start(d) \/ Command(d) \/ Interrupt(d)
  PROVE  RunInv(d)'
<1> USE DEF TypeOK, Recorded, Emptied
<1>1. CASE Start(d)
  BY <1>1, Zenon DEF Start, RunInv
<1>2. CASE FetchVersion(d)
  BY <1>2, Zenon DEF FetchVersion, RunInv
<1>3. CASE CheckVersion(d)
  BY <1>3 DEF CheckVersion, RunInv
<1>4. CASE RecordVersion(d)
  BY <1>4, Zenon DEF RecordVersion, RunInv
<1>5. CASE CleanTrees(d)
  BY <1>5, Zenon DEF CleanTrees, RunInv, NoneStaged, SubTree, SubStaged, EmptyTree
<1>6. CASE Download(d)
  BY <1>6, Zenon DEF Download, RunInv, SubTree, SubStaged, EmptyTree
<1>7. ASSUME NEW a \in Arch, InstallArch(d, a) PROVE RunInv(d)'
  <2>1. PICK s \in PartOf(Exported(ver[d], a)) :
               /\ htmp' = [htmp EXCEPT ![d][a] = s]
               /\ lost' = [lost EXCEPT ![d] = @ \/ s # Exported(ver[d], a)]
    BY ZenonT(30), <1>7 DEF InstallArch
  <2>2. SubStaged(d, ver[d])'
    <3>1. SubStaged(d, ver[d]) /\ ver' = ver
      BY <1>7, Zenon DEF InstallArch, RunInv
    <3>2. /\ s.asm \subseteq From(ver[d], Asm[ver[d]][a])
          /\ s.gen \subseteq From(ver[d], Gen[ver[d]][a])
      BY <2>1, Zenon DEF PartOf, Exported
    <3>3. htmp'[d][a] = s /\ \A b \in Arch \ {a} : htmp'[d][b] = htmp[d][b]
      BY <2>1, NestedExcept
    <3> HIDE DEF TypeOK
    <3>4. QED
      BY <3>1, <3>2, <3>3, Zenon DEF SubStaged
  <2>3. SubTree(d, ver[d])' /\ EmptyTree(d)'
    BY <1>7, Zenon DEF InstallArch, RunInv, SubTree, EmptyTree
  <2>4. ~lost'[d] => ~lost[d] /\ s = Exported(ver[d], a)
    BY ZenonT(30), <2>1
  <2>5. ~lost'[d] => \A b \in Arch \ todo'[d] : htmp'[d][b] = Exported(ver[d], b)
    BY <1>7, <2>1, <2>4 DEF InstallArch, RunInv
  <2>6. QED
    BY <1>7, <2>2, <2>3, <2>5, Zenon DEF InstallArch, RunInv
<1>8. CASE StripEmpty(d)
  <2>1. SubStaged(d, ver[d])' /\ SubTree(d, ver[d])'
    BY <1>8, Zenon DEF StripEmpty, RunInv, SubTree, SubStaged
  <2>2. ASSUME ~lost[d] PROVE LoopInv(d)'
    <3>1. \A a \in Arch : htmp[d][a] = Exported(ver[d], a) /\ archdir[d][a] = {}
      BY <1>8, <2>2, Zenon DEF StripEmpty, RunInv, EmptyTree
    <3>2. \A a \in Arch \ todo'[d] : htmp[d][a] = NoneStaged
      BY <1>8, Zenon DEF StripEmpty
    <3>3. \A a \in Arch \ todo'[d] : /\ From(ver[d], Asm[ver[d]][a]) = {}
                                     /\ From(ver[d], Gen[ver[d]][a]) = {}
      BY ZenonT(30), <3>1, <3>2, NoneExported
    <3>4. \A a \in Arch \ todo'[d] : htmp'[d][a].asm = {} /\ htmp'[d][a].gen = {}
      BY <1>8, <3>2 DEF StripEmpty, NoneStaged
    <3>5. \A a \in todo'[d] : Untouched(d, a)'
      BY <1>8, <3>1, Zenon DEF StripEmpty, Untouched
    <3>6. \A a \in Arch \ todo'[d] : AsmDone(d, a)' /\ GenDone(d, a)'
      BY ZenonT(30), <1>8, <3>1, <3>3, <3>4 DEF StripEmpty, AsmDone, GenDone
    <3>7. QED
      BY <3>5, <3>6, Zenon DEF LoopInv
  <2>3. QED
    BY <1>8, <2>1, <2>2, Zenon DEF StripEmpty, RunInv
<1>9. ASSUME NEW a \in Arch, MoveAsm(d, a) PROVE RunInv(d)'
  <2>1. SubStaged(d, ver[d])' /\ SubTree(d, ver[d])'
    BY <1>9 DEF MoveAsm, RunInv, SubTree, SubStaged
  <2>2. ASSUME ~lost[d] PROVE LoopInv(d)'
    <3>1. LoopInv(d)
      BY <1>9, <2>2, Zenon DEF MoveAsm, RunInv
    <3>2. htmp[d][a] = Exported(ver[d], a)
      BY <1>9, <3>1, Zenon DEF MoveAsm, LoopInv, Untouched
    <3>3. AsmDone(d, a)' /\ htmp'[d][a].gen = From(ver[d], Gen[ver[d]][a])
      BY <1>9, <3>2 DEF MoveAsm, AsmDone, Exported
    <3>4. \A b \in Arch \ {a} : archdir'[d][b] = archdir[d][b] /\ htmp'[d][b] = htmp[d][b]
      BY <1>9, Zenon DEF MoveAsm
    <3>5. \A b \in todo'[d] : Untouched(d, b)'
      BY <1>9, <3>1, <3>4 DEF MoveAsm, LoopInv, Untouched
    <3>6. \A b \in Arch \ todo'[d] : b # a => AsmDone(d, b)' /\ GenDone(d, b)'
      BY <1>9, <3>1, <3>4 DEF MoveAsm, LoopInv, AsmDone, GenDone
    <3>7. QED
      BY <1>9, <3>3, <3>5, <3>6, Zenon DEF MoveAsm, LoopInv
  <2>3. QED
    BY <1>9, <2>1, <2>2, Zenon DEF MoveAsm, RunInv
<1>10. ASSUME NEW a \in Arch, MoveFails(d, a) PROVE RunInv(d)'
  BY <1>10, Zenon DEF MoveFails, RunInv
<1>11. CASE CopyGeneric(d)
  <2>1. PICK s \in SUBSET htmp[d][cur[d]].gen :
               /\ incl' = [incl EXCEPT ![d] = LinkInto(@, s)]
               /\ lost' = [lost EXCEPT ![d] = @ \/ s # htmp[d][cur[d]].gen]
    BY <1>11, Zenon DEF CopyGeneric
  <2>2. SubTree(d, ver[d]) /\ SubStaged(d, ver[d])
    BY <1>11, ZenonT(30) DEF CopyGeneric, RunInv
  <2>3. incl'[d] = incl[d] \cup s
    <3>1. \A h \in incl[d] \cup s : h[1] = ver[d]
      BY <2>2 DEF SubTree, SubStaged, FullIncl, From
    <3>2. incl[d] \in SUBSET Header /\ s \in SUBSET Header /\ ver[d] \in Version
      BY DEF Staged
    <3>3. LinkInto(incl[d], s) = incl[d] \cup s
      BY <3>1, <3>2, LinkIntoSame
    <3>4. QED
      BY <2>1, <3>3, Zenon
  <2>4. s \subseteq FullIncl(ver[d])
    BY <2>2, GenInFull, Zenon DEF SubStaged
  <2>5. SubTree(d, ver[d])'
    BY <1>11, <2>2, <2>3, <2>4, Zenon DEF CopyGeneric, SubTree
  <2> DEFINE c == cur[d]
  <2>6. c \in Arch
    BY ZenonT(30)
  <2> HIDE DEF c
  <2>7. htmp' = [htmp EXCEPT ![d][c] = NoneStaged]
    BY <1>11, Zenon DEF CopyGeneric, c
  <2>8. htmp'[d][c] = NoneStaged /\ \A b \in Arch \ {c} : htmp'[d][b] = htmp[d][b]
    BY <2>6, <2>7, NestedExcept
  <2>9. htmp'[d][c].asm = {} /\ htmp'[d][c].gen = {}
    BY <2>8 DEF NoneStaged
  <2>10. /\ ver' = ver /\ todo' = todo /\ cur' = cur /\ archdir' = archdir
        /\ pc[d] = "copy" /\ pc'[d] = "prepare"
    BY <1>11, Zenon DEF CopyGeneric
  <2>11. SubStaged(d, ver[d])'
    <3> HIDE DEF TypeOK
    <3>1. QED
      BY <2>2, <2>9, <2>8, <2>10, Zenon DEF SubStaged
  <2>12. ASSUME ~lost'[d] PROVE LoopInv(d)'
    <3>1. ~lost[d] /\ s = htmp[d][cur[d]].gen
      BY <2>1, <2>12, Zenon
    <3>2. LoopInv(d)
      BY <1>11, <3>1, Zenon DEF CopyGeneric, RunInv
    <3>3. c \notin todo[d]
      BY <2>10, Zenon DEF RunInv, c
    <3>4. todo[d] \subseteq Arch
      BY Zenon
    <3> HIDE DEF TypeOK
    <3>5. ASSUME NEW b \in todo'[d] PROVE Untouched(d, b)'
      <4>1. b \in todo[d] /\ b \in Arch \ {c}
        BY <2>10, <3>3, <3>4, Zenon
      <4>2. Untouched(d, b)
        BY <3>2, <4>1, Zenon DEF LoopInv
      <4>3. QED
        BY <2>8, <2>10, <4>1, <4>2, Zenon DEF Untouched
    <3>6. ASSUME NEW b \in Arch \ todo'[d] PROVE AsmDone(d, b)'
      <4>1. AsmDone(d, b)
        BY <2>10, <3>2, Zenon DEF LoopInv
      <4>2. CASE b = c
        BY <2>9, <2>10, <4>1, <4>2, Zenon DEF AsmDone
      <4>3. CASE b # c
        BY <2>8, <2>10, <4>1, <4>3, Zenon DEF AsmDone
      <4>4. QED
        BY <4>2, <4>3, Zenon
    <3>7. ASSUME NEW b \in Arch \ todo'[d] PROVE GenDone(d, b)'
      <4>1. \/ GenDone(d, b)
            \/ b = c /\ htmp[d][b].gen = From(ver[d], Gen[ver[d]][b])
        BY <2>10, <3>2, Zenon DEF LoopInv, c
      <4>2. From(ver[d], Gen[ver[d]][b]) \subseteq incl'[d]
        BY <2>3, <3>1, <4>1, Zenon DEF GenDone, c
      <4>3. htmp'[d][b].gen = {}
        <5>1. CASE b = c
          BY <2>9, <5>1, Zenon
        <5>2. CASE b # c
          BY <2>8, <4>1, <5>2, Zenon DEF GenDone
        <5>3. QED
          BY <5>1, <5>2, Zenon
      <4>4. QED
        BY <2>10, <4>2, <4>3, Zenon DEF GenDone
    <3>8. QED
      BY <3>5, <3>6, <3>7, Zenon DEF LoopInv
  <2>13. QED
    BY <1>11, <2>5, <2>11, <2>12, Zenon DEF CopyGeneric, RunInv
<1>12. CASE Finish(d)
  <2>1. SubTree(d, ver[d])' /\ dot'[d] = ver[d] /\ ~ktmp'[d]
    BY <1>12, Zenon DEF Finish, RunInv, SubTree
  <2>2. htmp'[d] = [a \in Arch |-> NoneStaged]
    BY <1>12, Zenon DEF Finish
  <2>3. ASSUME ~lost[d]
        PROVE  archdir[d] = FullArch(ver[d]) /\ incl[d] = FullIncl(ver[d])
    <3>1. LoopInv(d) /\ todo[d] = {} /\ pc[d] = "prepare"
      BY <1>12, <2>3, Zenon DEF Finish, RunInv
    <3>2. \A a \in Arch : AsmDone(d, a) /\ GenDone(d, a)
      BY <3>1, Zenon DEF LoopInv
    <3>3. archdir[d] = FullArch(ver[d])
      BY <3>2, ZenonT(30) DEF AsmDone, FullArch
    <3>4. FullIncl(ver[d]) \subseteq incl[d]
      BY <3>2, FullInclIsUnion, Zenon DEF GenDone
    <3>5. QED
      BY ZenonT(30), <1>12, <3>3, <3>4 DEF Finish, RunInv, SubTree
  <2>4. QED
    BY <1>12, <2>1, <2>2, <2>3, Zenon DEF Finish, RunInv
<1>13. CASE Abort(d) \/ CleanCut(d) \/ CopyCut(d)
  BY <1>13, Zenon DEF Abort, CleanCut, CopyCut, RunInv
<1>14. QED
  BY <1>1, <1>2, <1>3, <1>4, <1>5, <1>6, <1>7, <1>8, <1>9, <1>10, <1>11,
     <1>12, <1>13, Zenon DEF Command, Interrupt

(* A run that ends with exit 0 and lost nothing has replaced the tree by   *)
(* that of $VERSION, for every set of architectures and every way in which *)
(* earlier runs in the directory ended.                                    *)
THEOREM CleanRunComplete == Spec => []CleanRunIsComplete
<1> DEFINE Inv == \A d \in Dir : RunInv(d)
<1>1. Init => Inv
  BY Zenon DEF Init, RunInv, Recorded, Emptied
<1>2. TypeOK /\ Inv /\ [Next]_vars => Inv'
  <2> SUFFICES ASSUME TypeOK, Inv, [Next]_vars, NEW e \in Dir
               PROVE  RunInv(e)'
    BY Zenon
  <2>1. SameDir(e) => RunInv(e)'
    <3>1. todo[e] \subseteq Arch
      BY Zenon DEF TypeOK
    <3>2. QED
      BY <3>1, SameDirRun, Zenon
  <2>2. CASE NewRelease \/ UNCHANGED vars
    BY <2>1, <2>2, Zenon DEF NewRelease, SameDir
  <2>3. ASSUME NEW d \in Dir, Start(d) \/ Command(d) \/ Interrupt(d)
        PROVE  RunInv(e)'
    BY <2>1, <2>3, OtherDirs, OwnRun, Zenon
  <2>4. QED
    BY <2>2, <2>3, Zenon DEF Next
<1>3. Inv => CleanRunIsComplete
  BY Zenon DEF RunInv, CleanRunIsComplete
<1> QED
  BY <1>1, <1>2, <1>3, TypeCorrect, PTL DEF Spec

-----------------------------------------------------------------------------

USE DEF repoVars, allVars, At, Fault, MoveHead

(* The steps of the workflow in which the script has yet to change the     *)
(* headers it has checked out.                                             *)
Early == {"fetch", "check", "record"}

Unchanged(d) ==
  /\ dot[d] = base[d].dot
  /\ archdir[d] = base[d].arch
  /\ incl[d] = base[d].incl

(* How far a job has got, and the versions it has seen. *)
JobInv(d) ==
  /\ base[d].dot <= site
  /\ fresh[d] => base[d] = head
  /\ job[d] = "none" => pc[d] = "idle"
  /\ job[d] = "run" => pc[d] = "idle" /\ exit[d] = "none" /\ Unchanged(d)
  /\ job[d] = "script" => pc[d] # "idle" \/ exit[d] # "none"
  /\ job[d] = "commit" => pc[d] = "idle" /\ exit[d] \in {"ok", "uptodate"}
  /\ pc[d] # "idle" => exit[d] = "none"
  /\ job[d] \in {"script", "commit"} =>
       /\ pc[d] \in Early \/ exit[d] = "uptodate" => Unchanged(d)
       /\ pc[d] = "check" => base[d].dot <= ver[d]
       /\ pc[d] \in Recorded \cup {"record"} \/ exit[d] = "ok" => base[d].dot < ver[d]
       /\ pc[d] \in Commands \ {"fetch"} \/ exit[d] = "ok" => ver[d] <= site

RepoInv ==
  /\ RepoTypeOK
  /\ head.dot <= site
  /\ PublishedSound
  /\ \A d \in Dir : RunInv(d) /\ JobInv(d)

(* A step of a job leaves the other jobs alone, but for moving the branch. *)
SameJob(e) ==
  /\ SameDir(e)
  /\ base'[e] = base[e] /\ job'[e] = job[e]
  /\ fresh'[e] => fresh[e] /\ head' = head

LEMMA RunTypes ==
  ASSUME TypeOK, NEW d \in Dir, Start(d) \/ Command(d) \/ Interrupt(d)
  PROVE  TypeOK'
  BY TypeStep, Zenon DEF Next

LEMMA RepoTypeInit == RepoInit => RepoTypeOK
<1> SUFFICES ASSUME RepoInit PROVE RepoTypeOK
  BY Zenon
<1>1. TypeOK
  BY TypeInit, Zenon DEF RepoInit
<1>2. head \in Commit
  BY FullTreeType DEF RepoInit, Commit
<1>3. faults \in 0..MaxFaults
  BY FaultAssumption DEF RepoInit
<1>4. /\ base \in [Dir -> Commit]
      /\ fresh \in [Dir -> BOOLEAN]
      /\ job \in [Dir -> Steps]
  BY <1>2, Zenon DEF RepoInit, Steps
<1>5. QED
  BY <1>1, <1>2, <1>3, <1>4, Zenon DEF RepoTypeOK

LEMMA RepoTypeStep == RepoTypeOK /\ [RepoNext]_allVars => RepoTypeOK'
<1> SUFFICES ASSUME RepoTypeOK, [RepoNext]_allVars PROVE RepoTypeOK'
  BY Zenon
<1> USE DEF RepoTypeOK, Steps
<1>1. CASE RepoNewRelease
  <2>1. TypeOK'
    BY <1>1, TypeStep, Zenon DEF RepoNewRelease, Next
  <2>2. QED
    BY <1>1, <2>1, Zenon DEF RepoNewRelease
<1>2. ASSUME NEW d \in Dir, Push(d) PROVE RepoTypeOK'
  <2>1. TypeOK'
    BY <1>2, NoneStagedType, Zenon DEF Push, TypeOK, Commit
  <2>2. QED
    BY <1>2, <2>1, Zenon DEF Push
<1>3. ASSUME NEW d \in Dir, RunScript(d) PROVE RepoTypeOK'
  BY <1>3, RunTypes, Zenon DEF RunScript
<1>4. ASSUME NEW d \in Dir, ScriptStep(d) PROVE RepoTypeOK'
  BY <1>4, RunTypes, Zenon DEF ScriptStep
<1>5. ASSUME NEW d \in Dir, ScriptFault(d) PROVE RepoTypeOK'
  BY <1>5, RunTypes, FaultAssumption DEF ScriptFault
<1>6. ASSUME NEW d \in Dir, ScriptEnds(d) PROVE RepoTypeOK'
  BY <1>6, Zenon DEF ScriptEnds, TypeOK
<1>7. ASSUME NEW d \in Dir, CommitAndPush(d) PROVE RepoTypeOK'
  <2>1. NewCommit(d) \in Commit
    BY Zenon DEF NewCommit, Commit, TypeOK
  <2>2. TypeOK'
    BY <1>7, Zenon DEF CommitAndPush, TypeOK
  <2>3. QED
    BY ZenonT(30), <1>7, <2>1, <2>2 DEF CommitAndPush
<1>8. ASSUME NEW d \in Dir, PushFails(d) PROVE RepoTypeOK'
  BY <1>8, FaultAssumption DEF PushFails, TypeOK
<1>9. CASE UNCHANGED allVars
  BY <1>9, Zenon DEF TypeOK
<1>10. QED
  BY <1>1, <1>2, <1>3, <1>4, <1>5, <1>6, <1>7, <1>8, <1>9, Zenon DEF RepoNext, JobStep

LEMMA StrictlyLess ==
  ASSUME NEW x \in Nat, NEW y \in Nat, x <= y, x # y
  PROVE  x < y
  OBVIOUS

(* A step of the script takes its job along. *)
LEMMA OwnJob ==
  ASSUME RepoTypeOK, NEW d \in Dir, JobInv(d), RunInv(d), job[d] = "script",
         Command(d) \/ Interrupt(d), UNCHANGED <<head, base, fresh, job>>
  PROVE  JobInv(d)'
<1> USE VersionAssumption
    DEF RepoTypeOK, TypeOK, Commit, JobInv, Unchanged, Early, Recorded, Commands
<1>1. CASE FetchVersion(d)
  BY <1>1 DEF FetchVersion
<1>2. CASE CheckVersion(d)
  <2>1. CASE <<dot[d], ver[d]>> \in Matches
    BY <1>2, <2>1 DEF CheckVersion
  <2>2. CASE <<dot[d], ver[d]>> \notin Matches
    <3>1. dot[d] # ver[d]
      BY ZenonT(30), <2>2, MatchesAssumption
    <3>2. base[d].dot < ver[d]
      <4>1. pc[d] = "check" /\ job[d] \in {"script", "commit"}
        BY <1>2, Zenon DEF CheckVersion
      <4> HIDE DEF Unchanged
      <4>2. Unchanged(d) /\ base[d].dot <= ver[d]
        BY <4>1, Zenon
      <4>3. base[d].dot \in Nat /\ ver[d] \in Nat
        BY ZenonT(30)
      <4>4. QED
        BY <3>1, <4>2, <4>3, StrictlyLess, Zenon DEF Unchanged
    <3>3. QED
      BY <1>2, <2>2, <3>2, Zenon DEF CheckVersion
  <2>3. QED
    BY <2>1, <2>2, ZenonT(30)
<1>3. CASE RecordVersion(d)
  BY <1>3, Zenon DEF RecordVersion
<1>4. CASE CleanTrees(d) \/ Download(d)
  <2>1. CASE CleanTrees(d)
    BY <2>1 DEF CleanTrees
  <2>2. CASE Download(d)
    BY <2>2 DEF Download
  <2>3. QED
    BY <1>4, <2>1, <2>2, Zenon
<1>5. ASSUME NEW a \in Arch, InstallArch(d, a) \/ MoveAsm(d, a) \/ MoveFails(d, a)
      PROVE  JobInv(d)'
  <2>1. CASE InstallArch(d, a)
    BY <2>1 DEF InstallArch
  <2>2. CASE MoveAsm(d, a)
    BY <2>2 DEF MoveAsm
  <2>3. CASE MoveFails(d, a)
    BY <2>3 DEF MoveFails
  <2>4. QED
    BY <1>5, <2>1, <2>2, <2>3, Zenon
<1>6. CASE StripEmpty(d) \/ CopyGeneric(d) \/ Finish(d)
  <2>1. CASE StripEmpty(d)
    BY <2>1 DEF StripEmpty
  <2>2. CASE CopyGeneric(d)
    BY <2>2 DEF CopyGeneric
  <2>3. CASE Finish(d)
    BY <2>3 DEF Finish
  <2>4. QED
    BY <1>6, <2>1, <2>2, <2>3, Zenon
<1>7. CASE Abort(d) \/ CleanCut(d) \/ CopyCut(d)
  <2>1. CASE Abort(d)
    BY <2>1 DEF Abort
  <2>2. CASE CleanCut(d)
    BY <2>2 DEF CleanCut
  <2>3. CASE CopyCut(d)
    BY <2>3 DEF CopyCut
  <2>4. QED
    BY <1>7, <2>1, <2>2, <2>3, Zenon
<1>8. QED
  BY <1>1, <1>2, <1>3, <1>4, <1>5, <1>6, <1>7, ZenonT(30) DEF Command, Interrupt

LEMMA RunKeepsSite ==
  ASSUME NEW d, Command(d) \/ Interrupt(d)
  PROVE  site' = site
  BY Zenon DEF Command, Interrupt, FetchVersion, CheckVersion, RecordVersion, CleanTrees,
         Download, InstallArch, StripEmpty, MoveAsm, MoveFails, CopyGeneric, Finish,
         Abort, CleanCut, CopyCut

LEMMA SameJobInv ==
  ASSUME NEW e \in Dir, todo[e] \subseteq Arch, JobInv(e), RunInv(e), SameJob(e),
         site <= site',
         site \in Nat, site' \in Nat, base[e].dot \in Nat, ver[e] \in Nat
  PROVE  RunInv(e)' /\ JobInv(e)'
<1>1. RunInv(e)'
  BY SameDirRun, Zenon DEF SameJob
<1>2. Unchanged(e)' <=> Unchanged(e)
  BY Zenon DEF SameJob, SameDir, Unchanged
<1>3. base'[e].dot <= site'
  <2>1. base[e].dot <= site
    BY Zenon DEF JobInv
  <2>2. base'[e] = base[e]
    BY Zenon DEF SameJob
  <2>. QED
    BY ONLY <2>1, <2>2, site <= site', site \in Nat, site' \in Nat, base[e].dot \in Nat
<1>4. ver'[e] = ver[e] /\ (ver[e] <= site => ver'[e] <= site')
  <2>1. ver'[e] = ver[e]
    BY ZenonT(30) DEF SameJob, SameDir
  <2>. QED
    BY ONLY <2>1, site <= site', site \in Nat, site' \in Nat, ver[e] \in Nat
<1>5. JobInv(e)'
  BY <1>2, <1>3, <1>4, Zenon DEF SameJob, SameDir, JobInv
<1>6. QED
  BY <1>1, <1>5, Zenon

(* What a job that has got to its last step commits is sound, and newer    *)
(* than what it checked out.                                               *)
LEMMA CommitSound ==
  ASSUME RepoInv, NEW d \in Dir, job[d] = "commit", Dirty(d), fresh[d]
  PROVE  /\ head.dot < dot[d] /\ dot[d] <= site
         /\ incl[d] \subseteq FullIncl(dot[d])
         /\ \A a \in Arch : archdir[d][a] \subseteq FullArch(dot[d])[a]
         /\ ~lost[d] => incl[d] = FullIncl(dot[d]) /\ archdir[d] = FullArch(dot[d])
<1>1. RunInv(d) /\ JobInv(d)
  BY Zenon DEF RepoInv
<1>2. pc[d] = "idle" /\ exit[d] = "ok"
  BY <1>1, Zenon DEF JobInv, Dirty, Unchanged
<1>3. dot[d] = ver[d] /\ SubTree(d, dot[d])
  BY <1>1, <1>2, Zenon DEF RunInv
<1>4. head.dot < ver[d] /\ ver[d] <= site
  BY <1>1, <1>2, Zenon DEF JobInv
<1>5. QED
  BY <1>1, <1>2, <1>3, <1>4, Zenon DEF RunInv, SubTree, FullArch

(* One step of the workflow: the invariant is kept and the branch moves    *)
(* only to a newer release.                                                *)
LEMMA RepoStep ==
  ASSUME RepoInv, [RepoNext]_allVars
  PROVE  /\ RepoInv'
         /\ head' # head => head.dot < head'.dot /\ head'.dot <= site /\ site' = site
<1> USE VersionAssumption
<1>1. RepoTypeOK'
  BY RepoTypeStep, Zenon DEF RepoInv
<1>2. site \in Nat /\ site' \in Nat /\ head.dot \in Nat /\ head'.dot \in Nat
  BY <1>1, Zenon DEF RepoInv, RepoTypeOK, TypeOK, Commit
<1>3. \A e \in Dir : ver[e] \in Nat /\ base[e].dot \in Nat /\ todo[e] \subseteq Arch
  BY ZenonT(30) DEF RepoInv, RepoTypeOK, TypeOK, Commit
<1>4. ASSUME NEW e \in Dir, SameJob(e), site <= site'
      PROVE  RunInv(e)' /\ JobInv(e)'
  BY <1>2, <1>3, <1>4, SameJobInv, Zenon DEF RepoInv
<1>5. ASSUME UNCHANGED head, site <= site', \A e \in Dir : RunInv(e)' /\ JobInv(e)'
      PROVE  RepoInv'
  <2>1. head' = head /\ head.dot <= site /\ PublishedSound
    BY <1>5, Zenon DEF RepoInv
  <2>2. head'.dot <= site'
    BY <1>2, <1>5, <2>1
  <2>3. PublishedSound'
    BY <2>1, Zenon DEF PublishedSound
  <2>4. QED
    BY <1>1, <1>5, <2>2, <2>3, Zenon DEF RepoInv
<1>6. CASE RepoNewRelease
  BY <1>2, <1>4, <1>5, <1>6 DEF RepoNewRelease, NewRelease, SameJob, SameDir
<1>7. CASE UNCHANGED allVars
  BY <1>2, <1>4, <1>5, <1>7 DEF SameJob, SameDir
<1>8. ASSUME NEW d \in Dir, Push(d) PROVE RepoInv' /\ UNCHANGED head
  <2>1. UNCHANGED <<head, site>>
    BY <1>8, Zenon DEF Push
  <2>2. ASSUME NEW e \in Dir, e # d PROVE SameJob(e)
    BY <1>8, <2>2, Zenon DEF Push, SameJob, SameDir, RepoInv, RepoTypeOK, TypeOK
  <2>3. pc'[d] = "idle" /\ exit'[d] = "none" /\ job'[d] = "run"
    <3>1. /\ job[d] = "none" /\ pc' = pc
          /\ job' = [job EXCEPT ![d] = "run"] /\ exit' = [exit EXCEPT ![d] = "none"]
      BY <1>8, Zenon DEF Push
    <3>2. DOMAIN job = Dir /\ DOMAIN exit = Dir
      BY Zenon DEF RepoInv, RepoTypeOK, TypeOK
    <3>3. pc[d] = "idle"
      BY <3>1, Zenon DEF RepoInv, JobInv
    <3>4. QED
      BY <3>1, <3>2, <3>3, Zenon
  <2>4. Unchanged(d)' /\ base'[d] = head
    BY <1>8 DEF Push, Unchanged, RepoInv, RepoTypeOK, TypeOK
  <2>5. RunInv(d)'
    BY <2>3, Zenon DEF RunInv, Recorded, Emptied
  <2>6. JobInv(d)'
    BY <2>1, <2>3, <2>4, Zenon DEF JobInv, RepoInv
  <2>7. QED
    BY <1>2, <1>4, <1>5, <2>1, <2>2, <2>5, <2>6
<1>9. ASSUME NEW d \in Dir, RunScript(d) PROVE RepoInv' /\ UNCHANGED head
  <2>1. UNCHANGED <<head, site>>
    BY <1>9, Zenon DEF RunScript, Start
  <2>2. ASSUME NEW e \in Dir, e # d PROVE SameJob(e)
    BY <1>9, <2>2, OtherDirs, Zenon DEF RunScript, SameJob, RepoInv, RepoTypeOK
  <2>3. RunInv(d)'
    BY <1>9, OwnRun, Zenon DEF RunScript, RepoInv, RepoTypeOK
  <2>4. JobInv(d)'
    BY <1>9, Zenon DEF RunScript, Start, RepoInv, RepoTypeOK, TypeOK, JobInv, Unchanged,
                Recorded, Early, Commands
  <2>5. QED
    BY <1>2, <1>4, <1>5, <2>1, <2>2, <2>3, <2>4
<1>10. ASSUME NEW d \in Dir, ScriptStep(d) \/ ScriptFault(d)
       PROVE  RepoInv' /\ UNCHANGED head
  <2>1. UNCHANGED <<head, base, fresh, job>> /\ job[d] = "script"
    BY <1>10, Zenon DEF ScriptStep, ScriptFault
  <2>2. Command(d) \/ Interrupt(d)
    BY <1>10, Zenon DEF ScriptStep, ScriptFault
  <2>3. site' = site
    BY <2>2, RunKeepsSite, Zenon
  <2>4. ASSUME NEW e \in Dir, e # d PROVE SameJob(e)
    BY <2>1, <2>2, <2>4, OtherDirs, Zenon DEF SameJob, RepoInv, RepoTypeOK
  <2>5. RunInv(d)' /\ JobInv(d)'
    BY <2>1, <2>2, OwnRun, OwnJob, Zenon DEF RepoInv, RepoTypeOK
  <2>6. QED
    BY <1>2, <1>4, <1>5, <2>1, <2>3, <2>4, <2>5
<1>11. ASSUME NEW d \in Dir, ScriptEnds(d) \/ PushFails(d)
       PROVE RepoInv' /\ UNCHANGED head
  <2>1. UNCHANGED <<vars, head, base, fresh>>
    BY <1>11, Zenon DEF ScriptEnds, PushFails
  <2>2. ASSUME NEW e \in Dir, e # d PROVE SameJob(e)
    BY <1>11, <2>1, <2>2, Zenon DEF ScriptEnds, PushFails, SameJob, SameDir, RepoInv, RepoTypeOK
  <2>3. RunInv(d)'
    BY <1>3, <2>1, SameDirRun, Zenon DEF SameDir, RepoInv
  <2>4. JobInv(d)'
    BY <1>11, <2>1 DEF ScriptEnds, PushFails, RepoInv, RepoTypeOK, TypeOK, JobInv,
                       Unchanged, Early, Recorded, Commands, Steps
  <2>5. QED
    BY <1>2, <1>4, <1>5, <2>1, <2>2, <2>3, <2>4
<1>12. ASSUME NEW d \in Dir, CommitAndPush(d)
       PROVE  /\ RepoInv'
              /\ head' # head => head.dot < head'.dot /\ head'.dot <= site /\ site' = site
  <2>1. UNCHANGED <<vars, base>>
    BY <1>12, Zenon DEF CommitAndPush
  <2>2. ASSUME NEW e \in Dir, e # d PROVE SameJob(e)
    BY <1>12, <2>1, <2>2, Zenon DEF CommitAndPush, SameJob, SameDir, RepoInv, RepoTypeOK
  <2>3. RunInv(d)'
    BY <1>3, <2>1, SameDirRun, ZenonT(30) DEF SameDir, RepoInv
  <2>4. JobInv(d)'
    <3>1. job[d] = "commit" /\ job'[d] = "none"
      BY <1>12, Zenon DEF CommitAndPush, RepoInv, RepoTypeOK
    <3>2. JobInv(d)
      BY Zenon DEF RepoInv
    <3>3. pc[d] = "idle" /\ base[d].dot <= site
      BY <3>1, <3>2, Zenon DEF JobInv
    <3>4. fresh'[d] => fresh[d] /\ head' = head
      BY <1>12, Zenon DEF CommitAndPush, RepoInv, RepoTypeOK
    <3>5. fresh'[d] => base'[d] = head'
      BY <2>1, <3>2, <3>4, Zenon DEF JobInv
    <3>6. pc' = pc /\ base' = base /\ site' = site
      BY <2>1, Zenon
    <3>7. QED
      BY <3>1, <3>3, <3>5, <3>6, Zenon DEF JobInv
  <2>5. CASE UNCHANGED head
    BY <1>2, <1>4, <1>5, <2>1, <2>2, <2>3, <2>4, <2>5
  <2>6. CASE Dirty(d) /\ fresh[d] /\ head' = NewCommit(d)
    <3>1. job[d] = "commit"
      BY <1>12, Zenon DEF CommitAndPush
    <3>2. PublishedSound'
      BY ZenonT(30), <2>1, <2>6, <3>1, CommitSound DEF PublishedSound, NewCommit
    <3>3. head.dot < head'.dot /\ head'.dot <= site
      BY <2>6, <3>1, CommitSound, Zenon DEF NewCommit
    <3>4. QED
      BY <1>1, <1>2, <1>4, <2>1, <2>2, <2>3, <2>4, <3>2, <3>3 DEF RepoInv
  <2>7. QED
    BY <1>12, <2>5, <2>6, Zenon DEF CommitAndPush
<1>13. QED
  BY <1>6, <1>7, <1>8, <1>9, <1>10, <1>11, <1>12, Zenon
     DEF RepoNext, JobStep, RepoNewRelease

LEMMA OnlyReleasesMoveSite ==
  ASSUME [RepoNext]_allVars
  PROVE  RepoNewRelease \/ site' = site
<1>1. ASSUME NEW d \in Dir, Push(d) \/ JobStep(d) \/ ScriptFault(d) \/ PushFails(d)
      PROVE  site' = site
  BY <1>1, RunKeepsSite, Zenon DEF Push, JobStep, RunScript, Start, ScriptStep, ScriptEnds,
                            CommitAndPush, ScriptFault, PushFails
<1>2. QED
  BY <1>1, Zenon DEF RepoNext

LEMMA RepoInvInit == RepoInit => RepoInv
<1> SUFFICES ASSUME RepoInit PROVE RepoInv
  BY Zenon
<1>1. PICK v \in Version :
        /\ v <= site
        /\ head = [dot |-> v, arch |-> FullArch(v), incl |-> FullIncl(v), whole |-> TRUE]
  BY Zenon DEF RepoInit
<1>2. PublishedSound /\ head.dot <= site
  BY <1>1, Zenon DEF PublishedSound
<1>3. ASSUME NEW d \in Dir PROVE RunInv(d) /\ JobInv(d)
  BY <1>2, Zenon DEF RepoInit, Init, RunInv, JobInv, Recorded, Emptied, Early
<1>4. QED
  BY <1>2, <1>3, RepoTypeInit, Zenon DEF RepoInv

LEMMA RepoInvariant == RepoSpec => []RepoInv
  BY RepoInvInit, RepoStep, PTL DEF RepoSpec

(* What the branch holds is always a sound mirror of one release, complete *)
(* unless the script ignored a failure.                                    *)
THEOREM PublishedIsSound == RepoSpec => []PublishedSound
<1>1. RepoInv => PublishedSound
  BY Zenon DEF RepoInv
<1>2. QED
  BY <1>1, RepoInvariant, PTL

(* The branch never goes back to an older release, whatever the jobs race. *)
THEOREM BranchOnlyAdvances == RepoSpec => NeverDowngrades
<1>1. RepoInv /\ [RepoNext]_allVars => [head' # head => head'.dot > head.dot]_allVars
  <2> SUFFICES ASSUME RepoInv, [RepoNext]_allVars, head' # head
               PROVE  head'.dot > head.dot
    BY Zenon
  <2>1. head.dot < head'.dot
    BY RepoStep, Zenon
  <2>2. QED
    BY <2>1, VersionAssumption, RepoStep, Zenon DEF RepoInv, RepoTypeOK, Commit
<1>2. QED
  BY <1>1, RepoInvariant, PTL DEF RepoSpec, NeverDowngrades

(* The workflow implements the mirror: every step of the jobs, the script  *)
(* and its failures is a release, a publication or invisible.              *)
THEOREM RepoImplementsMirror == RepoSpec => ImplementsMirror
<1>1. RepoInv => [arch |-> head.arch, incl |-> head.incl] \in TreesOf[head.dot]
  BY Zenon DEF RepoInv, RepoTypeOK, Commit, PublishedSound, TreesOf
<1>2. RepoInit => Mirror!Init
  <2> SUFFICES ASSUME RepoInit PROVE Mirror!Init
    BY Zenon
  <2>1. RepoInv
    BY RepoInvInit, Zenon
  <2>2. QED
    BY <1>1, <2>1, Zenon DEF Mirror!Init, RepoInv, RepoTypeOK, TypeOK, Commit
<1>3. RepoInv /\ [RepoNext]_allVars
        => [Mirror!Next]_<<site, head.dot, [arch |-> head.arch, incl |-> head.incl]>>
  <2> SUFFICES ASSUME RepoInv, [RepoNext]_allVars
               PROVE  [Mirror!Next]_<<site, head.dot, [arch |-> head.arch, incl |-> head.incl]>>
    BY Zenon
  <2>1. RepoInv'
    BY RepoStep, Zenon
  <2>2. CASE head' # head
    <3>1. head.dot < head'.dot /\ head'.dot <= site /\ site' = site
      BY <2>2, RepoStep, Zenon
    <3>2. head'.dot \in Version
      BY <2>1, Zenon DEF RepoInv, RepoTypeOK, Commit
    <3>3. [arch |-> head'.arch, incl |-> head'.incl] \in TreesOf[head'.dot]
      BY <2>1, Zenon DEF RepoInv, RepoTypeOK, Commit, PublishedSound, TreesOf
    <3>4. QED
      BY <3>1, <3>2, <3>3, Zenon DEF Mirror!Next, Mirror!Publish
  <2>3. CASE head' = head
    <3>1. CASE RepoNewRelease
      BY <2>3, <3>1, Zenon DEF RepoNewRelease, NewRelease, Mirror!Next, Mirror!Release
    <3>2. CASE site' = site
      BY <2>3, <3>2, Zenon
    <3>3. QED
      BY <3>1, <3>2, OnlyReleasesMoveSite, Zenon
  <2>4. QED
    BY <2>2, <2>3, Zenon
<1>4. QED
  BY <1>2, <1>3, RepoInvariant, PTL DEF RepoSpec, ImplementsMirror, Mirror!Spec

(* The branch and every job's checkout are of the types the workflow and   *)
(* the script give them, in every interleaving of the jobs.                *)
THEOREM RepoTypes == RepoSpec => []RepoTypeOK
<1>1. RepoInv => RepoTypeOK
  BY Zenon DEF RepoInv
<1>2. QED
  BY <1>1, RepoInvariant, PTL
=============================================================================
