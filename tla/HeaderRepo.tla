----------------------------- MODULE HeaderRepo -----------------------------
(***************************************************************************)
(* The main branch of the repository and the jobs of the workflow that     *)
(* updates it (.github/workflows/update.yml).  Each job has a runner with  *)
(* a working directory of its own: it checks the branch out, runs          *)
(* update_headers.sh there and, when the script has exited with 0, commits *)
(* what has changed and pushes it.  Nothing orders the jobs: the workflow  *)
(* has no concurrency group, so two of them may work from the same commit. *)
(*                                                                         *)
(* checkout and git-auto-commit-action are not part of the repository: they *)
(* are modelled by what the workflow uses them for.  The push of a commit  *)
(* whose parent is no longer the head of the branch is rejected.           *)
(***************************************************************************)
EXTENDS UpdateHeaders

CONSTANT MaxFaults   \* bound on the commands that fail, over all the jobs

ASSUME FaultAssumption == MaxFaults \in Nat

VARIABLES
  head,      \* the commit the main branch points to
  base,      \* the commit each job has checked out
  fresh,     \* the branch has not moved since
  job,       \* the step of the workflow each job is at, or "none"
  faults     \* the number of failures so far

repoVars == <<head, base, fresh, job, faults>>
allVars  == <<vars, repoVars>>

(* whole: no command of the script whose failure is ignored has failed. *)
Commit == [dot : Version, arch : [Arch -> SUBSET Header],
           incl : SUBSET Header, whole : BOOLEAN]

Steps == {"none", "run", "script", "commit"}

RepoTypeOK ==
  /\ TypeOK
  /\ head \in Commit
  /\ base \in [Dir -> Commit]
  /\ fresh \in [Dir -> BOOLEAN]
  /\ job \in [Dir -> Steps]
  /\ faults \in 0..MaxFaults

RepoInit ==
  /\ Init
  /\ \E v \in Version :
       /\ v <= site
       /\ dot = [d \in Dir |-> v]
       /\ head = [dot |-> v, arch |-> FullArch(v), incl |-> FullIncl(v),
                  whole |-> TRUE]
  /\ base = [d \in Dir |-> head]
  /\ fresh = [d \in Dir |-> FALSE]
  /\ job = [d \in Dir |-> "none"]
  /\ faults = 0

At(d, step, next) ==
  /\ job[d] = step
  /\ job' = [job EXCEPT ![d] = next]

Fault ==
  /\ faults < MaxFaults
  /\ faults' = faults + 1

-----------------------------------------------------------------------------
RepoNewRelease == NewRelease /\ UNCHANGED repoVars

(* Somebody pushes a commit that leaves the headers alone.  This starts a  *)
(* job, which checks that commit out on a new runner; the commits the      *)
(* other jobs have checked out are no longer the head of the branch.       *)
Push(d) ==
  /\ At(d, "none", "run")
  /\ base' = [base EXCEPT ![d] = head]
  /\ fresh' = [e \in Dir |-> e = d]
  /\ dot' = [dot EXCEPT ![d] = head.dot]
  /\ archdir' = [archdir EXCEPT ![d] = head.arch]
  /\ incl' = [incl EXCEPT ![d] = head.incl]
  /\ ktmp' = [ktmp EXCEPT ![d] = FALSE]
  /\ htmp' = [htmp EXCEPT ![d] = [a \in Arch |-> NoneStaged]]
  /\ Exit(d, "none")
  /\ UNCHANGED <<site, pc, ver, todo, cur, lost, head, faults>>

RunScript(d) ==
  /\ At(d, "run", "script")
  /\ Start(d)
  /\ UNCHANGED <<head, base, fresh, faults>>

(* A command of the script does what it is there for. *)
ScriptStep(d) ==
  /\ job[d] = "script"
  /\ Command(d)
  /\ lost'[d] = lost[d]
  /\ UNCHANGED repoVars

(* A command fails, whether or not the script goes on. *)
ScriptFault(d) ==
  /\ job[d] = "script"
  /\ Interrupt(d) \/ (Command(d) /\ lost'[d] # lost[d])
  /\ Fault
  /\ UNCHANGED <<head, base, fresh, job>>

(* Mutant: the job goes on after a script that failed. *)
ScriptEndsAnyhow(d) ==
  /\ pc[d] = "idle"
  /\ At(d, "script", "commit")
  /\ UNCHANGED <<vars, head, base, fresh, faults>>

(* The next step of the job runs only when the script exits with 0. *)
ScriptEnds(d) ==
  /\ pc[d] = "idle"
  /\ At(d, "script", IF exit[d] = "error" THEN "none" ELSE "commit")
  /\ UNCHANGED <<vars, head, base, fresh, faults>>

Dirty(d) ==
  \/ dot[d] # base[d].dot
  \/ archdir[d] # base[d].arch
  \/ incl[d] # base[d].incl

NewCommit(d) ==
  [dot |-> dot[d], arch |-> archdir[d], incl |-> incl[d], whole |-> ~lost[d]]

MoveHead(c) ==
  /\ head' = c
  /\ fresh' = [d \in Dir |-> FALSE]

(* Mutant: the step is skipped. *)
CommitNothing(d) ==
  /\ At(d, "commit", "none")
  /\ UNCHANGED <<vars, head, fresh, base, faults>>

(* git-auto-commit-action: nothing to do in a clean directory; else commit *)
(* and push, which is rejected unless the branch is where it was.          *)
CommitAndPush(d) ==
  /\ At(d, "commit", "none")
  /\ IF Dirty(d) /\ fresh[d] THEN MoveHead(NewCommit(d))
                            ELSE UNCHANGED <<head, fresh>>
  /\ UNCHANGED <<vars, base, faults>>

PushFails(d) ==
  /\ At(d, "commit", "none")
  /\ Fault
  /\ UNCHANGED <<vars, head, fresh, base>>

JobStep(d) ==
  RunScript(d) \/ ScriptStep(d) \/ ScriptEnds(d) \/ CommitAndPush(d)

RepoNext ==
  \/ RepoNewRelease
  \/ \E d \in Dir : Push(d) \/ JobStep(d) \/ ScriptFault(d) \/ PushFails(d)

RepoSpec == RepoInit /\ [][RepoNext]_allVars

(* A job that has been started goes on until it ends: runners do not stop  *)
(* without the job being failed.                                           *)
JobFairness == \A d \in Dir : WF_allVars(JobStep(d))

FairRepoSpec == RepoSpec /\ JobFairness

-----------------------------------------------------------------------------
(* All headers of a commit are of the release its .version names, however  *)
(* many jobs and failures it took; and unless a command whose failure      *)
(* update_headers.sh ignores has failed, the commit holds all the headers  *)
(* of that release.                                                        *)
PublishedSound ==
  /\ head.incl \subseteq FullIncl(head.dot)
  /\ \A a \in Arch : head.arch[a] \subseteq FullArch(head.dot)[a]
  /\ head.whole => /\ head.incl = FullIncl(head.dot)
                   /\ head.arch = FullArch(head.dot)

(* A push never takes the branch back to an older release, whichever of    *)
(* the jobs that run at the same time comes first.                         *)
NeverDowngrades == [][head' # head => head'.dot > head.dot]_allVars

TreesOf ==
  [v \in Version |-> {t \in [arch : [Arch -> SUBSET Header], incl : SUBSET Header] :
                        /\ t.incl \subseteq FullIncl(v)
                        /\ \A a \in Arch : t.arch[a] \subseteq FullArch(v)[a]}]

Mirror == INSTANCE HeaderMirror WITH
            Version <- Version, Tree <- TreesOf,
            newest <- site, version <- head.dot,
            tree <- [arch |-> head.arch, incl |-> head.incl]

(* The workflow implements the mirror: the branch moves only from one      *)
(* release to a newer one, in one step.                                    *)
ImplementsMirror == Mirror!Spec

(* A job started from the head of the branch, and in which nothing fails   *)
(* any more, ends with the release kernel.org listed when it started, or a *)
(* later one, on the branch, unless the branch moves under it.  Failed     *)
(* jobs leave nothing behind that could stop it.                           *)
JobPublishes ==
  \A d \in Dir, v \in Version :
    (job[d] = "run" /\ fresh[d] /\ faults = MaxFaults /\ site = v)
      ~> (head.dot >= v \/ ~fresh[d])
=============================================================================
