------------------------ MODULE HeaderInstallProofs ------------------------
(* Proofs about HeaderInstall, for every set of architectures and headers. *)
EXTENDS HeaderInstall, TLAPS

USE DEF treeVars, destVars, runVars, vars

(* The sources of one architecture have different targets, and the pattern *)
(* rules take each target back to its source.                              *)
LEMMA RulesFindSource ==
  ASSUME TypeOK, NEW s \in SourcesFor(sel)
  PROVE  s \in Source /\ s[2] \in Target /\ SourceOf(s[2]) = s
  BY NameAssumption DEF TypeOK, SourcesFor, SourceOf, Source, Target

Settled(s) ==
  Current(s[2], s) \/ (s[2] \in there /\ (from[s[2]] # s \/ ~whole[s[2]]))

(* What make's comparison rests on: a completed copy that no longer has    *)
(* the contents of its source is older than that source.                   *)
StaleIsSeen ==
  \A t \in there :
    whole[t] /\ got[t] # rev[from[t]] => from[t] \in newer

(* The files a run has looked at already are as it should leave them, as   *)
(* long as the tree does not change during the run.                        *)
RunInv ==
  /\ run = "idle" => todo = {}
  /\ run # "idle" => done = "none"
  /\ run = "make" /\ ~moved => \A s \in SourcesFor(sel) : s[2] \in todo \/ Settled(s)
  /\ run = "meson" /\ ~moved => \A s \in SourcesFor(sel) : s[2] \in todo \/ Current(s[2], s)
  /\ MakeInstallsAll
  /\ MesonInstallsAll

(* A target was copied from a source of its own name. *)
RightPlace == \A t \in there : from[t][2] = t

IInv == TypeOK /\ RightPlace /\ StaleIsSeen /\ RunInv

(* Copying one file leaves the others alone and makes it current. *)
LEMMA CopyOne ==
  ASSUME TypeOK, RightPlace, StaleIsSeen, UNCHANGED treeVars,
         NEW t \in Target, NEW c \in BOOLEAN, Copy(t, c)
  PROVE  /\ there' \in SUBSET Target /\ from' \in [Target -> Source]
         /\ got' \in [Target -> Rev] /\ whole' \in [Target -> BOOLEAN]
         /\ newer' \in SUBSET Source
         /\ StaleIsSeen' /\ RightPlace'
         /\ \A s \in Source : s = SourceOf(t) /\ c => Current(t, s)'
         /\ \A s \in Source : s[2] # t =>
              (Current(s[2], s) => Current(s[2], s)') /\ (Settled(s) => Settled(s)')
<1> USE DEF TypeOK, Copy
<1>0. SourceOf(t) \in Source /\ SourceOf(t)[2] = t
  BY DEF SourceOf
<1>1. /\ there' \in SUBSET Target /\ from' \in [Target -> Source]
      /\ got' \in [Target -> Rev] /\ whole' \in [Target -> BOOLEAN]
      /\ newer' \in SUBSET Source
  BY <1>0, Zenon
<1>2. \A s \in Source : s = SourceOf(t) /\ c => Current(t, s)'
  BY <1>0, Zenon DEF Current
<1>3. \A s \in Source : s[2] # t =>
         (Current(s[2], s) => Current(s[2], s)') /\ (Settled(s) => Settled(s)')
  <2>1. \A s \in Source : s[2] \in Target
    BY Zenon DEF Source, Target
  <2>2. QED
    BY <2>1, Zenon DEF Current, Settled
<1>4. StaleIsSeen'
  <2> SUFFICES ASSUME NEW u \in there', whole'[u], got'[u] # rev'[from'[u]]
               PROVE  from'[u] \in newer'
    BY Zenon DEF StaleIsSeen
  <2>1. u # t
    BY <1>0, Zenon
  <2>2. from[u] \in newer /\ from[u][2] = u
    BY <2>1, Zenon DEF StaleIsSeen, RightPlace
  <2>3. QED
    BY <2>1, <2>2, Zenon
<1>5. RightPlace'
  BY <1>0, Zenon DEF RightPlace
<1>6. QED
  BY <1>1, <1>2, <1>3, <1>4, <1>5, Zenon

LEMMA InstallStep == IInv /\ [Next]_vars => IInv'
<1> SUFFICES ASSUME IInv, [Next]_vars PROVE IInv'
  BY Zenon
<1> USE DEF IInv
<1>1. ASSUME NEW s \in Source, WriteSource(s) PROVE IInv'
  <2>1. TypeOK' /\ RightPlace'
    BY <1>1, Zenon DEF WriteSource, Move, TypeOK, RightPlace
  <2>2. StaleIsSeen'
    BY <1>1, Zenon DEF WriteSource, TypeOK, StaleIsSeen
  <2>3. RunInv'
    BY <1>1, Zenon DEF WriteSource, Move, RunInv, MakeInstallsAll, MesonInstallsAll
  <2>4. QED
    BY <2>1, <2>2, <2>3, Zenon
<1>2. ASSUME NEW s \in Source, RemoveSource(s) PROVE IInv'
  <2>1. TypeOK' /\ RightPlace' /\ StaleIsSeen'
    BY <1>2, Zenon DEF RemoveSource, Move, TypeOK, RightPlace, StaleIsSeen
  <2>2. RunInv'
    BY <1>2, Zenon DEF RemoveSource, Move, RunInv, MakeInstallsAll, MesonInstallsAll
  <2>3. QED
    BY <2>1, <2>2, Zenon
<1>3. ASSUME NEW a \in Arch, MakeInstall(a) PROVE IInv'
  <2>1. todo' = {s[2] : s \in SourcesFor(sel)'} /\ todo' \subseteq Target
    BY <1>3 DEF MakeInstall, SourcesFor, TypeOK, Source, Target
  <2>2. TypeOK' /\ RightPlace' /\ StaleIsSeen'
    BY <1>3, <2>1, Zenon DEF MakeInstall, TypeOK, RightPlace, StaleIsSeen
  <2>3. RunInv'
    BY <1>3, <2>1, Zenon DEF MakeInstall, RunInv, MakeInstallsAll, MesonInstallsAll
  <2>4. QED
    BY <2>2, <2>3, Zenon
<1>4. ASSUME NEW option \in Choices, NEW cpu \in Cpu, MesonInstall(option, cpu)
      PROVE  IInv'
  <2>1. todo' = {s[2] : s \in SourcesFor(sel)'} /\ todo' \subseteq Target
    BY <1>4 DEF MesonInstall, SourcesFor, TypeOK, Source, Target
  <2>2. TypeOK' /\ RightPlace' /\ StaleIsSeen'
    BY <1>4, <2>1, Zenon DEF MesonInstall, TypeOK, RightPlace, StaleIsSeen
  <2>3. RunInv'
    BY <1>4, <2>1, Zenon DEF MesonInstall, RunInv, MakeInstallsAll, MesonInstallsAll
  <2>4. QED
    BY <2>2, <2>3, Zenon
<1>5. ASSUME NEW t \in Target, MakeFile(t) PROVE IInv'
  <2>1. /\ run = "make" /\ run' = "make" /\ todo' = todo \ {t} /\ done' = done
        /\ moved' = moved /\ SourceOf(t) \in tree
        /\ UNCHANGED <<treeVars, sel>> /\ SourcesFor(sel)' = SourcesFor(sel)
    BY <1>5, Zenon DEF MakeFile, SourcesFor
  <2>2. \A s \in SourcesFor(sel) : s \in Source /\ (s[2] = t => s = SourceOf(t))
    BY RulesFindSource, Zenon
  <2>3. CASE OutOfDate(t)
    <3>1. Copy(t, TRUE)
      BY <1>5, <2>3, Zenon DEF MakeFile
    <3>2. TypeOK' /\ RightPlace' /\ StaleIsSeen'
      BY <2>1, <3>1, CopyOne, Zenon DEF TypeOK
    <3>3. \A s \in Source : /\ s = SourceOf(t) => Current(t, s)'
                            /\ s[2] # t => (Settled(s) => Settled(s)')
      BY <2>1, <3>1, CopyOne, Zenon
    <3>4. ~moved => \A s \in SourcesFor(sel) : s[2] \in todo' \/ Settled(s)'
      BY <2>1, <2>2, <3>3, Zenon DEF RunInv, Settled
    <3>5. QED
      BY <2>1, <3>2, <3>4, Zenon DEF RunInv, MakeInstallsAll, MesonInstallsAll
  <2>4. CASE ~OutOfDate(t)
    <3>1. UNCHANGED destVars
      BY <1>5, <2>4, Zenon DEF MakeFile
    <3>2. t \in there /\ SourceOf(t) \notin newer /\ SourceOf(t)[2] = t
      BY <2>4, Zenon DEF OutOfDate, SourceOf
    <3>3. Settled(SourceOf(t))
      BY <3>2, Zenon DEF Settled, Current, StaleIsSeen
    <3>4. ~moved => \A s \in SourcesFor(sel) : s[2] \in todo' \/ Settled(s)
      BY <2>1, <2>2, <3>3, Zenon DEF RunInv
    <3>5. \A s : Settled(s)' = Settled(s)
      BY <2>1, <3>1, Zenon DEF Settled, Current
    <3>6. TypeOK' /\ RightPlace' /\ StaleIsSeen'
      BY <2>1, <3>1, Zenon DEF TypeOK, RightPlace, StaleIsSeen
    <3>7. QED
      BY <2>1, <3>4, <3>5, <3>6, Zenon DEF RunInv, MakeInstallsAll, MesonInstallsAll
  <2>5. QED
    BY <2>3, <2>4, Zenon
<1>6. ASSUME NEW t \in Target, MesonFile(t) PROVE IInv'
  <2>1. /\ run = "meson" /\ run' = "meson" /\ todo' = todo \ {t} /\ done' = done
        /\ moved' = moved /\ Copy(t, TRUE)
        /\ UNCHANGED <<treeVars, sel>> /\ SourcesFor(sel)' = SourcesFor(sel)
    BY <1>6, Zenon DEF MesonFile, SourcesFor
  <2>2. \A s \in SourcesFor(sel) : s \in Source /\ (s[2] = t => s = SourceOf(t))
    BY RulesFindSource, Zenon
  <2>3. TypeOK' /\ RightPlace' /\ StaleIsSeen'
    BY <2>1, CopyOne, Zenon DEF TypeOK
  <2>4. \A s \in Source : /\ s = SourceOf(t) => Current(t, s)'
                          /\ s[2] # t => (Current(s[2], s) => Current(s[2], s)')
    BY <2>1, CopyOne, Zenon
  <2>5. ~moved => \A s \in SourcesFor(sel) : s[2] \in todo' \/ Current(s[2], s)'
    BY <2>1, <2>2, <2>4, Zenon DEF RunInv
  <2>6. QED
    BY <2>1, <2>3, <2>5, Zenon DEF RunInv, MakeInstallsAll, MesonInstallsAll
<1>7. ASSUME NEW t \in Target, CopyCut(t) PROVE IInv'
  <2>1. /\ Copy(t, FALSE) /\ run' = "idle" /\ todo' = {} /\ moved' = FALSE /\ done' = "none"
        /\ UNCHANGED <<treeVars, sel>>
    BY <1>7, Zenon DEF CopyCut, Stop
  <2>2. TypeOK' /\ RightPlace' /\ StaleIsSeen'
    BY <2>1, CopyOne, Zenon DEF TypeOK
  <2>3. RunInv'
    BY <2>1, Zenon DEF RunInv, MakeInstallsAll, MesonInstallsAll
  <2>4. QED
    BY <2>2, <2>3, Zenon
<1>8. ASSUME NEW t \in Target, CopyTorn(t) PROVE IInv'
  <2>1. /\ Copy(t, FALSE) /\ todo' = todo \ {t} /\ moved' = (run # "idle") /\ done' = "none"
        /\ SourceOf(t) \in tree /\ t \in todo /\ UNCHANGED <<tree, run, sel>>
    BY <1>8, Zenon DEF CopyTorn, Copy, Move
  <2>2. PICK x \in Rev : rev' = [rev EXCEPT ![SourceOf(t)] = x]
    BY <1>8, Zenon DEF CopyTorn
  <2>3. SourceOf(t) \in Source /\ SourceOf(t)[2] = t
    BY <2>1 DEF SourceOf, TypeOK
  <2>4. TypeOK'
    BY <2>1, <2>2, <2>3, Zenon DEF Copy, TypeOK
  <2>5. RightPlace'
    BY <2>1, <2>3, Zenon DEF Copy, TypeOK, RightPlace
  <2>6. StaleIsSeen'
    <3> SUFFICES ASSUME NEW u \in there', whole'[u], got'[u] # rev'[from'[u]]
                 PROVE  from'[u] \in newer'
      BY Zenon DEF StaleIsSeen
    <3>1. u # t /\ u \in there /\ u \in Target /\ there \subseteq Target
      BY <2>1, Zenon DEF Copy, TypeOK
    <3>2. from[u][2] = u /\ from'[u] = from[u] /\ got'[u] = got[u] /\ whole'[u] = whole[u]
      BY <2>1, <3>1, Zenon DEF Copy, TypeOK, RightPlace
    <3>3. from[u] \in Source /\ from[u] # SourceOf(t)
      BY <2>3, <3>1, <3>2, Zenon DEF TypeOK
    <3>4. rev'[from[u]] = rev[from[u]]
      BY <2>2, <3>3, Zenon DEF TypeOK
    <3>5. from[u] \in newer
      BY <3>1, <3>2, <3>4, Zenon DEF StaleIsSeen
    <3>6. QED
      BY <2>1, <3>1, <3>2, <3>5 DEF Copy, TypeOK
  <2>7. RunInv'
    BY <2>1, Zenon DEF RunInv, MakeInstallsAll, MesonInstallsAll
  <2>8. QED
    BY <2>4, <2>5, <2>6, <2>7, Zenon
<1>9. ASSUME NEW t \in Target, MakePassesOver(t) PROVE IInv'
  <2>1. /\ run = "make" /\ run' = run /\ todo' = todo \ {t} /\ done' = done /\ moved' = moved
        /\ SourceOf(t) \notin tree
        /\ UNCHANGED <<treeVars, destVars, sel>> /\ SourcesFor(sel)' = SourcesFor(sel)
    BY <1>9, Zenon DEF MakePassesOver, SourcesFor
  <2>2. \A s \in SourcesFor(sel) : s[2] # t
    BY <2>1, RulesFindSource, Zenon DEF SourcesFor
  <2>3. \A s : Settled(s)' = Settled(s)
    BY <2>1, Zenon DEF Settled, Current
  <2>4. TypeOK' /\ RightPlace' /\ StaleIsSeen'
    BY <2>1, Zenon DEF TypeOK, RightPlace, StaleIsSeen
  <2>5. ~moved => \A s \in SourcesFor(sel) : s[2] \in todo' \/ Settled(s)'
    BY <2>1, <2>2, <2>3, Zenon DEF RunInv
  <2>6. QED
    BY <2>1, <2>4, <2>5, Zenon DEF RunInv, MakeInstallsAll, MesonInstallsAll
<1>10. ASSUME NEW t \in Target, NoSource(t) PROVE IInv'
  <2>1. TypeOK' /\ RightPlace' /\ StaleIsSeen'
    BY <1>10, Zenon DEF NoSource, Stop, TypeOK, RightPlace, StaleIsSeen
  <2>2. RunInv'
    BY <1>10, Zenon DEF NoSource, Stop, RunInv, MakeInstallsAll, MesonInstallsAll
  <2>3. QED
    BY <2>1, <2>2, Zenon
<1>11. CASE Finish
  <2>1. TypeOK' /\ RightPlace' /\ StaleIsSeen'
    BY <1>11, Zenon DEF Finish, Stop, TypeOK, RightPlace, StaleIsSeen
  <2>2. \A s : Settled(s)' = Settled(s) /\ Current(s[2], s)' = Current(s[2], s)
    BY <1>11, Zenon DEF Finish, Settled, Current
  <2>3. SourcesFor(sel)' = SourcesFor(sel)
    BY <1>11, Zenon DEF Finish, SourcesFor
  <2>4. RunInv'
    BY <1>11, <2>2, <2>3 DEF Finish, Stop, RunInv, TypeOK, MakeInstallsAll,
                            MesonInstallsAll, Settled
  <2>5. QED
    BY <2>1, <2>4, Zenon
<1>12. CASE UNCHANGED vars
  BY <1>12 DEF RunInv, TypeOK, RightPlace, StaleIsSeen, MakeInstallsAll, MesonInstallsAll,
              Settled, SourcesFor, Current
<1>13. QED
  BY <1>1, <1>2, <1>3, <1>4, <1>5, <1>6, <1>7, <1>8, <1>9, <1>10, <1>11, <1>12, Zenon
     DEF Next

LEMMA InstallInit == Init => IInv
  BY Zenon DEF Init, IInv, TypeOK, RightPlace, StaleIsSeen, RunInv, MakeInstallsAll,
         MesonInstallsAll, SourcesFor

LEMMA InstallInvariant == Spec => []IInv
  BY InstallInit, InstallStep, PTL DEF Spec

(* A successful make install from a tree that stays the same has installed *)
(* every header but those another architecture, or a copy that was cut off *)
(* or torn, has put in its way: it repairs whatever the changes of the     *)
(* tree during earlier runs have left behind.                              *)
THEOREM MakeComplete == Spec => []MakeInstallsAll
<1>1. IInv => MakeInstallsAll
  BY Zenon DEF IInv, RunInv
<1>2. QED
  BY <1>1, InstallInvariant, PTL

(* A successful meson install from a tree that stays the same has          *)
(* installed every header, whatever the earlier runs have left.            *)
THEOREM MesonComplete == Spec => []MesonInstallsAll
<1>1. IInv => MesonInstallsAll
  BY Zenon DEF IInv, RunInv
<1>2. QED
  BY <1>1, InstallInvariant, PTL

(* The prefix, the tree and what make and meson keep of them are of their  *)
(* types, whatever installs and changes come.                              *)
THEOREM InstallTypes == Spec => []TypeOK
<1>1. IInv => TypeOK
  BY Zenon DEF IInv
<1>2. QED
  BY <1>1, InstallInvariant, PTL
=============================================================================
