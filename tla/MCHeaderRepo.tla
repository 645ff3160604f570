---------------------------- MODULE MCHeaderRepo ----------------------------
(* Two jobs, three releases, one architecture that exports one header of   *)
(* each kind.                                                              *)
EXTENDS HeaderRepo

CONSTANTS d1, d2, x86

MCVersion == 1..3
MCArch == {x86}
MCName == {"types.h"}
MCExports == [v \in MCVersion |-> [a \in MCArch |-> MCName]]
MCMatches == {<<v, v>> : v \in MCVersion} \cup {<<3, 1>>}
MCDir == {d1, d2}
=============================================================================
