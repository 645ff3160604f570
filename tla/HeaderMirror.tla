---------------------------- MODULE HeaderMirror ----------------------------
(***************************************************************************)
(* What the repository promises its users: a mirror of the headers of the  *)
(* newest longterm kernel.  Its main branch moves from one release to a    *)
(* later one in a single step and always holds headers of one release      *)
(* only, which .version names.                                             *)
(***************************************************************************)
EXTENDS Naturals

CONSTANTS
  Version,     \* kernel releases, in order
  Tree         \* Tree[v]: every header tree that consists of headers of v

VARIABLES
  newest,      \* the version kernel.org lists as the newest longterm
  version,     \* .version on the main branch
  tree         \* arch/ and include/ on the main branch

Init ==
  /\ newest \in Version
  /\ version \in {v \in Version : v <= newest}
  /\ tree \in Tree[version]

Release ==
  /\ newest' \in {v \in Version : v > newest}
  /\ UNCHANGED <<version, tree>>

Publish ==
  /\ version' \in {v \in Version : version < v /\ v <= newest}
  /\ tree' \in Tree[version']
  /\ UNCHANGED newest

Next == Release \/ Publish

Spec == Init /\ [][Next]_<<newest, version, tree>>
=============================================================================
