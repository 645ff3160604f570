--------------------------- MODULE MCUpdateHeaders ---------------------------
(* A small instance of UpdateHeaders: two architectures that export        *)
(* different sets of generic headers (as linux/kvm.h is exported only      *)
(* where there is an asm/kvm.h) and one, like um, that exports nothing.    *)
EXTENDS UpdateHeaders

CONSTANTS d1, x86, arm, um

MCVersion == 1..3
MCArch == {x86, arm, um}
MCName == {"kvm.h", "types.h"}
MCAsm == [v \in MCVersion |->
            [a \in MCArch |-> IF a = um THEN {} ELSE {"types.h"}]]
MCGen == [v \in MCVersion |->
            [a \in MCArch |-> IF a = um THEN {} ELSE
                              IF a = x86 THEN MCName ELSE {"types.h"}]]
(* "5.15.8" is found in a .version that holds "5.15.87" (here 1 and 3). *)
MCMatches == {<<v, v>> : v \in MCVersion} \cup {<<3, 1>>}
MCDir == {d1}
=============================================================================
