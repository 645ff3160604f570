------------------------------ MODULE RegStack ------------------------------
(***************************************************************************)
(* The backing store of the register stack of ia64 and the functions of    *)
(* asm/rse.h that compute places in it.  A register takes a slot of 8      *)
(* bytes; every 64th slot takes the NaT bits of the 63 before it (RNAT).   *)
(* Addresses are given in slots, since every pointer is a multiple of 8.   *)
(*                                                                         *)
(* The register stack engine, which spills registers to the store and      *)
(* fills them from there, is external.  A debugger or an unwinder looks at *)
(* the store at any time.                                                  *)
(***************************************************************************)
EXTENDS Integers, Sequences

CONSTANTS
  Starts,    \* the addresses at which a store may begin
  MaxRegs    \* bound on the registers in the store

ASSUME StartAssumption == Starts \subseteq Nat
ASSUME RegsAssumption == MaxRegs \in Nat

VARIABLES
  base,      \* the first address of the store
  bspstore,  \* where the engine stores next
  regs,      \* the address of each register in the store
  rnats      \* the addresses at which NaT bits were stored

engineVars == <<base, bspstore, regs, rnats>>

-----------------------------------------------------------------------------
(* The division of C, which rounds towards 0. *)
CDiv(a, b) == IF a >= 0 THEN a \div b ELSE -((-a) \div b)

ia64_rse_slot_num(addr) == addr % 64

ia64_rse_is_rnat_slot(addr) == ia64_rse_slot_num(addr) = 63

(* Mutant: the address of the group, without its last slot. *)
rnat_addr_first(addr) == addr - ia64_rse_slot_num(addr)

(* slot_addr | (0x3f << 3) *)
ia64_rse_rnat_addr(addr) == addr - ia64_rse_slot_num(addr) + 63

(* Mutant: as if the store began with a group. *)
num_regs_aligned(store, bsp) == (bsp - store) - (bsp - store) \div 64

ia64_rse_num_regs(store, bsp) ==
  LET slots == bsp - store
  IN  slots - (ia64_rse_slot_num(store) + slots) \div 64

(* Mutant: going back without the correction for the rounding. *)
skip_regs_forward(addr, num_regs) ==
  addr + num_regs + CDiv(ia64_rse_slot_num(addr) + num_regs, 63)

ia64_rse_skip_regs(addr, num_regs) ==
  LET delta == ia64_rse_slot_num(addr) + num_regs - (IF num_regs < 0 THEN 62 ELSE 0)
  IN  addr + num_regs + CDiv(delta, 63)

-----------------------------------------------------------------------------
EngineInit ==
  /\ base \in Starts
  /\ bspstore = base /\ regs = <<>> /\ rnats = {}

(* The engine stores a register. *)
Spill ==
  /\ Len(regs) < MaxRegs
  /\ ~ia64_rse_is_rnat_slot(bspstore)
  /\ regs' = Append(regs, bspstore)
  /\ bspstore' = bspstore + 1
  /\ UNCHANGED <<base, rnats>>

(* Before the next one, or at once, it stores the NaT bits. *)
SpillRnat ==
  /\ ia64_rse_is_rnat_slot(bspstore)
  /\ rnats' = rnats \cup {bspstore}
  /\ bspstore' = bspstore + 1
  /\ UNCHANGED <<base, regs>>

(* It loads the last register ... *)
Fill ==
  /\ regs # <<>> /\ regs[Len(regs)] = bspstore - 1
  /\ regs' = SubSeq(regs, 1, Len(regs) - 1)
  /\ bspstore' = bspstore - 1
  /\ UNCHANGED <<base, rnats>>

(* ... or the NaT bits. *)
FillRnat ==
  /\ bspstore - 1 \in rnats
  /\ rnats' = rnats \ {bspstore - 1}
  /\ bspstore' = bspstore - 1
  /\ UNCHANGED <<base, regs>>

EngineNext == Spill \/ SpillRnat \/ Fill \/ FillRnat

EngineSpec == EngineInit /\ [][EngineNext]_engineVars

-----------------------------------------------------------------------------
StackTypeOK ==
  /\ base \in Nat /\ bspstore \in Nat /\ base <= bspstore
  /\ regs \in Seq(Nat)
  /\ rnats \subseteq Nat

(* num_regs counts the registers between the start and bspstore, whether   *)
(* the NaT bits next to bspstore have been stored or not, and wherever in  *)
(* a group the store begins.                                               *)
CountsRegisters == ia64_rse_num_regs(base, bspstore) = Len(regs)

(* From the start, skip_regs goes to where the engine has put a register,  *)
(* and for the next register to where it will put it: never to NaT bits.   *)
FindsRegisters ==
  /\ \A k \in 1..Len(regs) : ia64_rse_skip_regs(base, k - 1) = regs[k]
  /\ LET next == ia64_rse_skip_regs(base, Len(regs))
     IN  next = IF ia64_rse_is_rnat_slot(bspstore) THEN bspstore + 1 ELSE bspstore

(* And from the last register back to any of those before it, and from     *)
(* there to the last: a negative number is the way back.                   *)
WalksBack ==
  \A k \in 1..Len(regs) :
    /\ ia64_rse_skip_regs(regs[Len(regs)], k - Len(regs)) = regs[k]
    /\ ia64_rse_skip_regs(regs[k], Len(regs) - k) = regs[Len(regs)]

(* skip_regs is exact, from the start and between the last register and    *)
(* any other, in both directions.                                          *)
SkipsExactly == FindsRegisters /\ WalksBack

(* The NaT bit of a register is in the next NaT bits the engine stores     *)
(* after it: rnat_addr gives their place before they are stored, too.      *)
FindsNatBits ==
  \A k \in 1..Len(regs) :
    LET a == ia64_rse_rnat_addr(regs[k])
    IN  /\ a > regs[k]
        /\ IF a < bspstore THEN a \in rnats ELSE rnats \cap (regs[k]..bspstore) = {}
        /\ \A b \in rnats : b > regs[k] => b >= a
=============================================================================
