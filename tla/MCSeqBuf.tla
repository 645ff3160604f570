------------------------------ MODULE MCSeqBuf ------------------------------
(* A buffer that has room for one event of each size. *)
EXTENDS SeqBuf

MCDev == {0}
MCChn == {1}
MCNote == {60}
MCValue == {8192}
MCTicks == {300}
MCPatchId == {4}
MCPatch == {<<1>>}
(* One message that fits into a fragment and one that needs two. *)
MCSysex == {<<240, 1, 247>>, <<240, 1, 2, 3, 4, 5, 247>>}
=============================================================================
