----------------------------- MODULE MCVirtRing -----------------------------
(* Rings of 1 and 2 descriptors whose indexes wrap after Mod steps, with   *)
(* and without padding before the used ring.                               *)
EXTENDS VirtRing

MCNum == {1, 2}
MCAlign == {4, 64}
=============================================================================
