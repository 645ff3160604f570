--------------------------- MODULE MachineProofs ----------------------------
(***************************************************************************)
(* The accessors of StoredFields for every word, every set of machines and *)
(* every value: TLC tries single bits and a few words, the proofs below    *)
(* all of them.  And, independent of that, RegStack: the functions of      *)
(* asm/rse.h agree with the register stack engine for every start of the   *)
(* backing store and any number of registers.                              *)
(***************************************************************************)
EXTENDS StoredFields, RegStack, TLAPS


-----------------------------------------------------------------------------
\* Every sequence of instructions reverses the bytes.

\* The macros of swab.h.
LEMMA Constants ==
    /\ \A x \in SUBSET Bits(16) : constant_swab16(x) = Reversed(16, x)
    /\ \A x \in SUBSET Bits(32) : constant_swab32(x) = Reversed(32, x)
    /\ \A x \in SUBSET Bits(64) : constant_swab64(x) = Reversed(64, x)
<1>1. ASSUME NEW x \in SUBSET Bits(16) PROVE constant_swab16(x) = Reversed(16, x)
  BY DEF constant_swab16, Reversed, Shl, Shr, Bits
<1>2. ASSUME NEW x \in SUBSET Bits(32) PROVE constant_swab32(x) = Reversed(32, x)
  BY DEF constant_swab32, Reversed, Shl, Shr, Bits
<1>3. ASSUME NEW x \in SUBSET Bits(64) PROVE constant_swab64(x) = Reversed(64, x)
  BY DEF constant_swab64, Reversed, Shl, Shr, Bits
<1>. QED BY <1>1, <1>2, <1>3, Zenon

\* Half words swapped and then the bytes of each make a swab.
LEMMA Halves ==
    ASSUME NEW x \in SUBSET Bits(32)
    PROVE  constant_swahb32(constant_swahw32(x)) = Reversed(32, x)
BY DEF constant_swahb32, constant_swahw32, Reversed, Shl, Shr, Bits

\* arch/arm.
LEMMA Arm ==
    ASSUME NEW x \in SUBSET Bits(32) PROVE arm_swab32(x) = Reversed(32, x)
BY DEF arm_swab32, Xor, Ror, Reversed, Shl, Shr, Bits

\* arch/arc.
LEMMA Arc ==
    ASSUME NEW x \in SUBSET Bits(32) PROVE arc_swab32(x) = Reversed(32, x)
BY DEF arc_swab32, Xor, Ror, Reversed, Shl, Shr, Bits

\* arch/alpha.
LEMMA Alpha ==
    ASSUME NEW x \in SUBSET Bits(32) PROVE alpha_swab32(x) = Reversed(32, x)
BY DEF alpha_swab32, Low, Reversed, Shl, Shr, Bits

\* arch/xtensa.
LEMMA Xtensa ==
    /\ \A x \in SUBSET Bits(32) : xtensa_swab32(x) = Reversed(32, x)
    /\ \A x \in SUBSET Bits(16) : xtensa_swab16(x) = Reversed(16, x)
<1>1. ASSUME NEW x \in SUBSET Bits(32) PROVE xtensa_swab32(x) = Reversed(32, x)
  BY DEF xtensa_swab32, Src, Reversed, Shl, Shr, Bits
<1>2. ASSUME NEW x \in SUBSET Bits(16) PROVE xtensa_swab16(x) = Reversed(16, x)
  BY DEF xtensa_swab16, Low, Reversed, Shl, Shr, Bits
<1>. QED BY <1>1, <1>2, Zenon

\* arch/mips.
LEMMA Mips ==
    /\ \A x \in SUBSET Bits(16) : mips_swab16(x) = Reversed(16, x)
    /\ \A x \in SUBSET Bits(32) : mips_swab32(x) = Reversed(32, x)
    /\ \A x \in SUBSET Bits(64) : mips_swab64(x) = Reversed(64, x)
<1>1. ASSUME NEW x \in SUBSET Bits(16) PROVE mips_swab16(x) = Reversed(16, x)
  BY DEF mips_swab16, constant_swahb32, Low, Reversed, Shl, Shr, Bits
<1>2. ASSUME NEW x \in SUBSET Bits(32) PROVE mips_swab32(x) = Reversed(32, x)
  BY DEF mips_swab32, constant_swahb32, Ror, Reversed, Shl, Shr, Bits
<1>3. ASSUME NEW x \in SUBSET Bits(64) PROVE mips_swab64(x) = Reversed(64, x)
  BY DEF mips_swab64, Dsbh, Dshd, Reversed, Bits
<1>. QED BY <1>1, <1>2, <1>3, Zenon

\* arch/sh and arch/m68k.
LEMMA Sh ==
    /\ \A x \in SUBSET Bits(16) : sh_swab16(x) = Reversed(16, x)
    /\ \A x \in SUBSET Bits(32) : sh_swab32(x) = Reversed(32, x)
<1>1. ASSUME NEW x \in SUBSET Bits(16) PROVE sh_swab16(x) = Reversed(16, x)
  BY DEF sh_swab16, SwapLow, constant_swab16, Low, Reversed, Shl, Shr, Bits
<1>2. ASSUME NEW x \in SUBSET Bits(32) PROVE sh_swab32(x) = Reversed(32, x)
  BY DEF sh_swab32, SwapLow, constant_swab16, Low, Ror, Reversed, Shl, Shr, Bits
<1>. QED BY <1>1, <1>2, Zenon

\* arch/ia64 and arch/nios2: the end of a longer word reversed.
LEMMA Tops ==
    /\ \A x \in SUBSET Bits(16) : ia64_swab16(x) = Reversed(16, x)
    /\ \A x \in SUBSET Bits(32) : ia64_swab32(x) = Reversed(32, x)
    /\ \A x \in SUBSET Bits(16) : nios2_swab16(x) = Reversed(16, x)
<1>1. ASSUME NEW x \in SUBSET Bits(16) PROVE ia64_swab16(x) = Reversed(16, x)
  BY DEF ia64_swab16, ia64_swab64, Low, Reversed, Shr, Bits
<1>2. ASSUME NEW x \in SUBSET Bits(32) PROVE ia64_swab32(x) = Reversed(32, x)
  BY DEF ia64_swab32, ia64_swab64, Low, Reversed, Shr, Bits
<1>3. ASSUME NEW x \in SUBSET Bits(16) PROVE nios2_swab16(x) = Reversed(16, x)
  BY DEF nios2_swab16, Low, Reversed, Shl, Bits
<1>. QED BY <1>1, <1>2, <1>3, Zenon

\* Whatever __fswab16, __fswab32 and __fswab64 choose for an architecture
\* reverses the bytes, for every word.
THEOREM EverySwab ==
    ASSUME NEW a \in Archs
    PROVE  /\ \A x \in SUBSET Bits(16) : fswab16(a, x) = Reversed(16, x)
           /\ \A x \in SUBSET Bits(32) : fswab32(a, x) = Reversed(32, x)
           /\ \A x \in SUBSET Bits(64) : fswab64(a, x) = Reversed(64, x)
<1>1. ASSUME NEW x \in SUBSET Bits(16) PROVE fswab16(a, x) = Reversed(16, x)
  BY Constants, Xtensa, Mips, Sh, Tops, Zenon DEF fswab16
<1>2. ASSUME NEW x \in SUBSET Bits(32) PROVE fswab32(a, x) = Reversed(32, x)
  BY Constants, Arm, Arc, Alpha, Xtensa, Mips, Sh, Tops DEF fswab32, x86_swab32
<1>3. ASSUME NEW x \in SUBSET Bits(64) PROVE fswab64(a, x) = Reversed(64, x)
  <2>1. Low(32, x) \in SUBSET Bits(32) /\ Low(32, Shr(64, x, 32)) \in SUBSET Bits(32)
    BY Zenon DEF Low
  <2>2. thru32_swab64(a, x)
          = Shl(64, Reversed(32, Low(32, x)), 32)
              \cup Reversed(32, Low(32, Shr(64, x, 32)))
    BY <1>2, <2>1, Zenon DEF thru32_swab64
  <2>3. thru32_swab64(a, x) = Reversed(64, x)
    BY <2>2 DEF Low, Reversed, Shl, Shr, Bits
  <2>. QED BY <2>3, Constants, Mips, Zenon DEF fswab64
<1>. QED BY <1>1, <1>2, <1>3, Zenon

-----------------------------------------------------------------------------
\* The byte orders.

\* Reversing twice gives the word back, and looks only at its own bits.
LEMMA Twice ==
    ASSUME NEW n \in {16, 32, 64}, NEW x
    PROVE  /\ Low(n, x) \in SUBSET Bits(n)
           /\ Reversed(n, x) \in SUBSET Bits(n)
           /\ Reversed(n, Reversed(n, x)) = Low(n, x)
           /\ Reversed(n, Low(n, x)) = Reversed(n, x)
           /\ Low(n, Reversed(n, x)) = Reversed(n, x)
           /\ Low(n, Low(n, x)) = Low(n, x)
<1>1. CASE n = 16 BY <1>1 DEF Low, Reversed, Bits
<1>2. CASE n = 32 BY <1>2 DEF Low, Reversed, Bits
<1>3. CASE n = 64 BY <1>3 DEF Low, Reversed, Bits
<1>. QED BY <1>1, <1>2, <1>3, Zenon

\* A machine's swab of 16, 32 or 64 bits.
LEMMA MachineSwab ==
    ASSUME NEW m \in Machines, NEW n \in {16, 32, 64}, NEW x \in SUBSET Bits(n)
    PROVE  swab(m, n, x) = Reversed(n, x)
<1>1. m.arch \in Archs
  BY StoredAssumption, Zenon
<1>2. CASE n = 16
  <2>1. swab(m, 16, x) = fswab16(m.arch, x) BY Zenon DEF swab
  <2>. QED BY <1>1, <1>2, <2>1, EverySwab, Zenon
<1>3. CASE n = 32
  <2>1. swab(m, 32, x) = fswab32(m.arch, x) BY DEF swab
  <2>. QED BY <1>1, <1>3, <2>1, EverySwab, Zenon
<1>4. CASE n = 64
  <2>1. swab(m, 64, x) = fswab64(m.arch, x) BY DEF swab
  <2>. QED BY <1>1, <1>4, <2>1, EverySwab, Zenon
<1>. QED BY <1>2, <1>3, <1>4, Zenon

\* The conversions give every machine the number of the image, and write the
\* image of the number.
LEMMA Orders ==
    ASSUME NEW m \in Machines, NEW n \in {16, 32, 64}, NEW x
    PROVE  /\ le_to_cpu(m, n, Load(m, n, x)) = Low(n, x)
           /\ be_to_cpu(m, n, Load(m, n, x)) = Reversed(n, x)
           /\ Store(m, n, cpu_to_le(m, n, Low(n, x))) = Low(n, x)
           /\ Store(m, n, cpu_to_be(m, n, Low(n, x))) = Reversed(n, x)
<1>1. Reversed(n, x) \in SUBSET Bits(n) /\ Low(n, x) \in SUBSET Bits(n)
  BY Twice
<1>2. /\ swab(m, n, Reversed(n, x)) = Low(n, x)
      /\ swab(m, n, Low(n, x)) = Reversed(n, x)
  BY <1>1, MachineSwab, Twice
<1>3. /\ Reversed(n, Reversed(n, x)) = Low(n, x)
      /\ Reversed(n, Low(n, x)) = Reversed(n, x)
      /\ Low(n, Reversed(n, x)) = Reversed(n, x)
      /\ Low(n, Low(n, x)) = Low(n, x)
  BY Twice
<1>4. CASE m.big
  BY <1>2, <1>3, <1>4, Zenon DEF le_to_cpu, be_to_cpu, cpu_to_le, cpu_to_be, Load, Store
<1>5. CASE ~m.big
  BY <1>2, <1>3, <1>5, Zenon DEF le_to_cpu, be_to_cpu, cpu_to_le, cpu_to_be, Load, Store
<1>. QED BY <1>4, <1>5, Zenon

\* The swabs in place reverse the image, sparc64's through its other load.
LEMMA InPlace ==
    ASSUME NEW m \in Machines, NEW n \in {16, 32, 64}, NEW x
    PROVE  swabs(m, n, x) = Reversed(n, x)
<1>1. /\ Reversed(n, x) \in SUBSET Bits(n) /\ Low(n, x) \in SUBSET Bits(n)
      /\ Low(n, Reversed(n, x)) = Reversed(n, x)
      /\ Reversed(n, Low(n, x)) = Reversed(n, x)
  BY Twice
<1>2. /\ swab(m, n, Reversed(n, x)) = Low(n, x)
      /\ swab(m, n, Low(n, x)) = Reversed(n, x)
  BY <1>1, MachineSwab, Twice
<1>3. m.arch = "sparc64" => m.big
  BY StoredAssumption, Zenon
<1>4. CASE m.big
  BY <1>1, <1>2, <1>4, Zenon DEF swabs, swabp, Load, Store
<1>5. CASE ~m.big
  BY <1>1, <1>2, <1>3, <1>5, Zenon DEF swabs, swabp, Load, Store
<1>. QED BY <1>4, <1>5, Zenon

\* Half words and bytes swapped in place, on either byte order.
LEMMA HalvesInPlace ==
    ASSUME NEW m \in Machines, NEW x
    PROVE  swahb32s(m, swahw32s(m, x)) = Reversed(32, x)
<1>0. ASSUME NEW y PROVE constant_swahb32(Low(32, constant_swahw32(y))) = Reversed(32, y)
  BY DEF constant_swahb32, constant_swahw32, Low, Reversed, Shl, Shr, Bits
<1>1. ASSUME NEW y PROVE /\ Reversed(32, Reversed(32, y)) = Low(32, y)
                         /\ Reversed(32, Low(32, y)) = Reversed(32, y)
                         /\ Low(32, Low(32, y)) = Low(32, y)
                         /\ Low(32, Reversed(32, y)) = Reversed(32, y)
  <2>1. Low(32, Low(32, y)) = Low(32, y) /\ Low(32, Reversed(32, y)) = Reversed(32, y)
    BY Zenon DEF Low, Reversed
  <2>. QED BY <2>1, Twice
<1>2. CASE m.big
  <2>1. swahb32s(m, swahw32s(m, x))
          = Reversed(32, constant_swahb32(Reversed(32, Reversed(32, constant_swahw32(Reversed(32, x))))))
    BY <1>2, Zenon DEF swahb32s, swahw32s, Load, Store
  <2>2. Reversed(32, Reversed(32, constant_swahw32(Reversed(32, x))))
          = Low(32, constant_swahw32(Reversed(32, x)))
    BY <1>1, Zenon
  <2>3. constant_swahb32(Low(32, constant_swahw32(Reversed(32, x)))) = Reversed(32, Reversed(32, x))
    BY <1>0, Zenon
  <2>4. Reversed(32, Reversed(32, Reversed(32, x))) = Low(32, Reversed(32, x))
    BY <1>1, Zenon
  <2>5. Low(32, Reversed(32, x)) = Reversed(32, x)
    BY <1>1, Zenon
  <2>. QED BY <2>1, <2>2, <2>3, <2>4, <2>5, Zenon
<1>3. CASE ~m.big
  <2>1. swahb32s(m, swahw32s(m, x))
          = Low(32, constant_swahb32(Low(32, Low(32, constant_swahw32(Low(32, x))))))
    BY <1>3, Zenon DEF swahb32s, swahw32s, Load, Store
  <2>2. Low(32, Low(32, constant_swahw32(Low(32, x)))) = Low(32, constant_swahw32(Low(32, x)))
    BY <1>1, Zenon
  <2>3. constant_swahb32(Low(32, constant_swahw32(Low(32, x)))) = Reversed(32, Low(32, x))
    BY <1>0, Zenon
  <2>4. Reversed(32, Low(32, x)) = Reversed(32, x) /\ Low(32, Reversed(32, x)) = Reversed(32, x)
    BY <1>1, Zenon
  <2>. QED BY <2>1, <2>2, <2>3, <2>4, Zenon
<1>. QED BY <1>2, <1>3, Zenon

-----------------------------------------------------------------------------
\* The fields of bcache.

\* Two fields of one word have no bit in common, and all lie within 64 bits.
LEMMA FieldsApart ==
    ASSUME NEW k \in DOMAIN BitmaskKinds,
           NEW f \in BitmaskKinds[k], NEW g \in BitmaskKinds[k]
    PROVE  /\ Bitmask[f][1] \in Nat /\ Bitmask[f][2] \in Nat
           /\ Bitmask[f][1] + Bitmask[f][2] <= 64
           /\ \/ f = g
              \/ Bitmask[f][1] + Bitmask[f][2] <= Bitmask[g][1]
              \/ Bitmask[g][1] + Bitmask[g][2] <= Bitmask[f][1]
<1>1. CASE k = "bkey" BY <1>1 DEF BitmaskKinds, Bitmask
<1>2. CASE k = "ptr" BY <1>2 DEF BitmaskKinds, Bitmask
<1>3. CASE k = "cache" BY <1>3 DEF BitmaskKinds, Bitmask
<1>4. CASE k = "bdev" BY <1>4 DEF BitmaskKinds, Bitmask
<1>. QED BY <1>1, <1>2, <1>3, <1>4, Zenon DEF BitmaskKinds

\* What a getter sees after a setter: its own field's value, cut to its width,
\* and of another field what it saw before.
LEMMA GetSet ==
    ASSUME NEW k \in DOMAIN BitmaskKinds,
           NEW f \in BitmaskKinds[k], NEW g \in BitmaskKinds[k], NEW w, NEW v
    PROVE  get_bitmask(set_bitmask(w, f, v), g)
             = IF g = f THEN v \cap Bits(Bitmask[f][2]) ELSE get_bitmask(w, g)
<1>1. PICK o \in Nat : o = Bitmask[f][1] BY FieldsApart, Zenon
<1>2. PICK s \in Nat : s = Bitmask[f][2] BY FieldsApart, Zenon
<1>3. PICK p \in Nat : p = Bitmask[g][1] BY FieldsApart, Zenon
<1>4. PICK t \in Nat : t = Bitmask[g][2] BY FieldsApart, Zenon
<1>5. o + s <= 64 /\ p + t <= 64 /\ (f = g \/ o + s <= p \/ p + t <= o)
  BY <1>1, <1>2, <1>3, <1>4, FieldsApart, Zenon
<1>6. set_bitmask(w, f, v)
        = (w \ Shl(64, Bits(s), o)) \cup Shl(64, v \cap Bits(s), o)
  BY <1>1, <1>2, Zenon DEF set_bitmask
<1>7. \A x : get_bitmask(x, g) = Shr(64, x, p) \cap Bits(t)
  BY <1>3, <1>4, Zenon DEF get_bitmask
<1>8. CASE f = g
  <2>1. o = p /\ s = t BY <1>1, <1>2, <1>3, <1>4, <1>8, Zenon
  <2>2. Shr(64, (w \ Shl(64, Bits(s), o)) \cup Shl(64, v \cap Bits(s), o), o) \cap Bits(s)
          = v \cap Bits(s)
    BY <1>5 DEF Shl, Shr, Bits
  <2>3. get_bitmask(set_bitmask(w, f, v), g) = Shr(64, set_bitmask(w, f, v), p) \cap Bits(t)
    BY <1>7, Zenon
  <2>. QED BY <1>2, <1>6, <1>8, <2>1, <2>2, <2>3, Zenon
<1>9. CASE f # g
  <2>1. Shr(64, (w \ Shl(64, Bits(s), o)) \cup Shl(64, v \cap Bits(s), o), p) \cap Bits(t)
          = Shr(64, w, p) \cap Bits(t)
    BY <1>5, <1>9 DEF Shl, Shr, Bits
  <2>. QED BY <1>6, <1>7, <1>9, <2>1, Zenon
<1>. QED BY <1>8, <1>9, Zenon

\* The fields of a key made by KEY, and of a pointer made by MAKE_PTR.
LEMMA Made ==
    /\ \A i \in SUBSET Bits(20), s \in SUBSET Bits(16) : \A f \in BitmaskKinds["bkey"] :
         get_bitmask(KEY(i, s), f)
           = IF f = "KEY_INODE" THEN i ELSE IF f = "KEY_SIZE" THEN s ELSE {}
    /\ \A g \in SUBSET Bits(8), o \in SUBSET Bits(43), d \in SUBSET Bits(12) :
         /\ get_bitmask(MAKE_PTR(g, o, d), "PTR_GEN") = g
         /\ get_bitmask(MAKE_PTR(g, o, d), "PTR_OFFSET") = o
         /\ get_bitmask(MAKE_PTR(g, o, d), "PTR_DEV") = d
<1>1. ASSUME NEW i \in SUBSET Bits(20), NEW s \in SUBSET Bits(16)
      PROVE  \A f \in BitmaskKinds["bkey"] :
               get_bitmask(KEY(i, s), f)
                 = IF f = "KEY_INODE" THEN i ELSE IF f = "KEY_SIZE" THEN s ELSE {}
  <2>0. \A x : /\ get_bitmask(x, "KEY_INODE") = Shr(64, x, 0) \cap Bits(20)
              /\ get_bitmask(x, "KEY_SIZE") = Shr(64, x, 20) \cap Bits(16)
              /\ get_bitmask(x, "KEY_DIRTY") = Shr(64, x, 36) \cap Bits(1)
              /\ get_bitmask(x, "KEY_PINNED") = Shr(64, x, 55) \cap Bits(1)
              /\ get_bitmask(x, "KEY_CSUM") = Shr(64, x, 56) \cap Bits(2)
              /\ get_bitmask(x, "HEADER_SIZE") = Shr(64, x, 58) \cap Bits(2)
              /\ get_bitmask(x, "KEY_PTRS") = Shr(64, x, 60) \cap Bits(3)
    BY DEF get_bitmask, Bitmask
  <2>1. Shr(64, KEY(i, s), 0) \cap Bits(20) = i
    <3>1. ASSUME NEW b PROVE b \in Shr(64, KEY(i, s), 0) \cap Bits(20) <=> b \in i
      <4>1. b \in i => b \in Int BY DEF Bits
      <4>. QED BY <4>1 DEF KEY, Shl, Shr, Bits
    <3>. QED BY <3>1, Zenon
  <2>2. Shr(64, KEY(i, s), 20) \cap Bits(16) = s
    <3>1. ASSUME NEW b PROVE b \in Shr(64, KEY(i, s), 20) \cap Bits(16) <=> b \in s
      <4>1. b \in s => b \in Int BY DEF Bits
      <4>. QED BY <4>1 DEF KEY, Shl, Shr, Bits
    <3>. QED BY <3>1, Zenon
  <2>3. /\ Shr(64, KEY(i, s), 36) \cap Bits(1) = {}
        /\ Shr(64, KEY(i, s), 55) \cap Bits(1) = {}
        /\ Shr(64, KEY(i, s), 56) \cap Bits(2) = {}
        /\ Shr(64, KEY(i, s), 58) \cap Bits(2) = {}
        /\ Shr(64, KEY(i, s), 60) \cap Bits(3) = {}
    BY DEF KEY, Shl, Shr, Bits
  <2>4. /\ get_bitmask(KEY(i, s), "KEY_INODE") = i
        /\ get_bitmask(KEY(i, s), "KEY_SIZE") = s
        /\ get_bitmask(KEY(i, s), "KEY_DIRTY") = {}
        /\ get_bitmask(KEY(i, s), "KEY_PINNED") = {}
        /\ get_bitmask(KEY(i, s), "KEY_CSUM") = {}
        /\ get_bitmask(KEY(i, s), "HEADER_SIZE") = {}
        /\ get_bitmask(KEY(i, s), "KEY_PTRS") = {}
    BY <2>0, <2>1, <2>2, <2>3
  <2>5. BitmaskKinds["bkey"] = {"KEY_PTRS", "HEADER_SIZE", "KEY_CSUM", "KEY_PINNED",
                                "KEY_DIRTY", "KEY_SIZE", "KEY_INODE"}
    BY Zenon DEF BitmaskKinds
  <2>. QED BY <2>4, <2>5, Zenon
<1>2. ASSUME NEW g \in SUBSET Bits(8), NEW o \in SUBSET Bits(43), NEW d \in SUBSET Bits(12)
      PROVE  /\ get_bitmask(MAKE_PTR(g, o, d), "PTR_GEN") = g
             /\ get_bitmask(MAKE_PTR(g, o, d), "PTR_OFFSET") = o
             /\ get_bitmask(MAKE_PTR(g, o, d), "PTR_DEV") = d
  <2>1. \A x : /\ get_bitmask(x, "PTR_GEN") = Shr(64, x, 0) \cap Bits(8)
              /\ get_bitmask(x, "PTR_OFFSET") = Shr(64, x, 8) \cap Bits(43)
              /\ get_bitmask(x, "PTR_DEV") = Shr(64, x, 51) \cap Bits(12)
    BY Zenon DEF get_bitmask, Bitmask
  <2>2. Shr(64, MAKE_PTR(g, o, d), 0) \cap Bits(8) = g
    <3>1. ASSUME NEW b PROVE b \in Shr(64, MAKE_PTR(g, o, d), 0) \cap Bits(8) <=> b \in g
      <4>1. b \in g => b \in Int BY DEF Bits
      <4>. QED BY <4>1 DEF MAKE_PTR, Shl, Shr, Bits
    <3>. QED BY <3>1, Zenon
  <2>3. Shr(64, MAKE_PTR(g, o, d), 8) \cap Bits(43) = o
    <3>1. ASSUME NEW b PROVE b \in Shr(64, MAKE_PTR(g, o, d), 8) \cap Bits(43) <=> b \in o
      <4>1. b \in o => b \in Int BY DEF Bits
      <4>. QED BY <4>1 DEF MAKE_PTR, Shl, Shr, Bits
    <3>. QED BY <3>1, Zenon
  <2>4. Shr(64, MAKE_PTR(g, o, d), 51) \cap Bits(12) = d
    <3>1. ASSUME NEW b PROVE b \in Shr(64, MAKE_PTR(g, o, d), 51) \cap Bits(12) <=> b \in d
      <4>1. b \in d => b \in Int BY DEF Bits
      <4>. QED BY <4>1 DEF MAKE_PTR, Shl, Shr, Bits
    <3>. QED BY <3>1, Zenon
  <2>. QED BY <2>1, <2>2, <2>3, <2>4, Zenon
<1>. QED BY <1>1, <1>2, Zenon

-----------------------------------------------------------------------------
\* The other words.

\* The three bytes of a Phonet address are found where they were put.
LEMMA SpnParts ==
    ASSUME NEW o \in SUBSET Bits(8), NEW d \in SUBSET Bits(8), NEW r \in SUBSET Bits(8)
    PROVE  /\ spn_obj(Spn(o, d, r)) = o
           /\ spn_dev(Spn(o, d, r)) = d
           /\ spn_resource(Spn(o, d, r)) = r
           /\ Spn(o, d, r) \in SUBSET Bits(24)
<1>1. (\A b \in o : b \in 0..7) /\ (\A b \in d : b \in 0..7) /\ (\A b \in r : b \in 0..7)
  BY DEF Bits
<1>2. ASSUME NEW b \in 0..7
      PROVE  /\ b \in spn_obj(Spn(o, d, r)) <=> b \in o
             /\ b \in spn_dev(Spn(o, d, r)) <=> b \in d
             /\ b \in spn_resource(Spn(o, d, r)) <=> b \in r
  BY <1>1 DEF spn_obj, spn_dev, spn_resource, Spn, Low, Shl, Shr, Bits
<1>3. /\ \A b \in spn_obj(Spn(o, d, r)) : b \in 0..7
      /\ \A b \in spn_dev(Spn(o, d, r)) : b \in 0..7
  BY DEF spn_obj, spn_dev, Low, Bits
<1>4. \A b \in spn_resource(Spn(o, d, r)) : b \in 0..7
  BY <1>1 DEF spn_resource, Spn, Low, Shl, Shr, Bits
<1>5. \A b \in Spn(o, d, r) : b \in 0..23
  BY <1>1 DEF Spn, Shl, Bits
<1>6. Spn(o, d, r) \in SUBSET Bits(24)
  BY <1>5 DEF Bits
<1>7. \A b : b \in spn_obj(Spn(o, d, r)) <=> b \in o
  BY <1>1, <1>2, <1>3, Zenon
<1>8. \A b : b \in spn_dev(Spn(o, d, r)) <=> b \in d
  BY <1>1, <1>2, <1>3, Zenon
<1>9. \A b : b \in spn_resource(Spn(o, d, r)) <=> b \in r
  BY <1>1, <1>2, <1>4, Zenon
<1>. QED BY ONLY <1>6, <1>7, <1>8, <1>9, Zenon

\* An address and a resource, found in their bytes after they were set.
LEMMA SetParts ==
    ASSUME NEW w \in SUBSET Bits(24), NEW a \in SUBSET Bits(8)
    PROVE  /\ pn_sockaddr_get_addr(pn_sockaddr_set_addr(w, a)) = a \ {0, 1}
           /\ spn_resource(pn_sockaddr_set_resource(w, a)) = a
<1>1. /\ \A b \in spn_resource(w) : b \in 0..7
      /\ \A b \in a : b \in 0..7
      /\ spn_obj(w) \in SUBSET Bits(8) /\ spn_dev(w) \in SUBSET Bits(8)
  BY DEF spn_resource, spn_obj, spn_dev, Low, Shr, Bits
<1>2. PICK r \in SUBSET Bits(8) : r = spn_resource(w)
  BY <1>1 DEF Bits
<1>3. PICK d \in SUBSET Bits(8) : d = (spn_dev(w) \cap {0, 1}) \cup (a \ {0, 1})
  BY <1>1, Zenon DEF Bits
<1>4. PICK o \in SUBSET Bits(8) : o = spn_obj(w)
  BY <1>1, Zenon
<1>5. PICK e \in SUBSET Bits(8) : e = spn_dev(w)
  BY <1>1, Zenon
<1>6. pn_sockaddr_set_addr(w, a) = Spn(o, d, r)
  BY <1>2, <1>3, <1>4, Zenon DEF pn_sockaddr_set_addr
<1>7. pn_sockaddr_set_resource(w, a) = Spn(o, e, a)
  BY <1>4, <1>5, Zenon DEF pn_sockaddr_set_resource
<1>8. spn_dev(Spn(o, d, r)) = d /\ spn_resource(Spn(o, e, a)) = a
  BY SpnParts, Zenon
<1>. QED BY <1>3, <1>6, <1>7, <1>8, Zenon DEF pn_sockaddr_get_addr

\* phonet.h: what each getter sees after each setter, and that the object
\* handle of an address is made of its device and its port.
LEMMA SockAddr ==
    ASSUME NEW w \in SUBSET Bits(24), NEW a \in SUBSET Bits(8), NEW p \in SUBSET Bits(16)
    PROVE  /\ pn_sockaddr_get_addr(pn_sockaddr_set_addr(w, a)) = a \ {0, 1}
           /\ pn_sockaddr_get_port(pn_sockaddr_set_addr(w, a)) = pn_sockaddr_get_port(w)
           /\ spn_resource(pn_sockaddr_set_addr(w, a)) = spn_resource(w)
           /\ pn_sockaddr_get_addr(pn_sockaddr_set_port(w, p)) = pn_sockaddr_get_addr(w)
           /\ pn_sockaddr_get_port(pn_sockaddr_set_port(w, p)) = Low(10, p)
           /\ spn_resource(pn_sockaddr_set_port(w, p)) = spn_resource(w)
           /\ pn_sockaddr_get_addr(pn_sockaddr_set_object(w, p)) = pn_addr(p)
           /\ pn_sockaddr_get_port(pn_sockaddr_set_object(w, p)) = pn_port(p)
           /\ spn_resource(pn_sockaddr_set_object(w, p)) = spn_resource(w)
           /\ pn_sockaddr_get_addr(pn_sockaddr_set_resource(w, a)) = pn_sockaddr_get_addr(w)
           /\ pn_sockaddr_get_port(pn_sockaddr_set_resource(w, a)) = pn_sockaddr_get_port(w)
           /\ spn_resource(pn_sockaddr_set_resource(w, a)) = a
           /\ pn_sockaddr_get_object(w)
                = pn_object(pn_sockaddr_get_addr(w), pn_sockaddr_get_port(w))
<1>. USE DEF pn_sockaddr_get_addr, pn_sockaddr_get_port, spn_resource, spn_dev, spn_obj, Spn,
             Low, Shl, Shr, Bits
<1>1. pn_sockaddr_get_addr(pn_sockaddr_set_addr(w, a)) = a \ {0, 1}
  BY ONLY w \in SUBSET Bits(24), a \in SUBSET Bits(8), SetParts
<1>2. pn_sockaddr_get_port(pn_sockaddr_set_addr(w, a)) = pn_sockaddr_get_port(w)
  BY DEF pn_sockaddr_set_addr
<1>3. spn_resource(pn_sockaddr_set_addr(w, a)) = spn_resource(w)
  BY DEF pn_sockaddr_set_addr
<1>4. pn_sockaddr_get_addr(pn_sockaddr_set_port(w, p)) = pn_sockaddr_get_addr(w)
  BY DEF pn_sockaddr_set_port
<1>5. pn_sockaddr_get_port(pn_sockaddr_set_port(w, p)) = Low(10, p)
  BY DEF pn_sockaddr_set_port
<1>6. spn_resource(pn_sockaddr_set_port(w, p)) = spn_resource(w)
  BY DEF pn_sockaddr_set_port
<1>7. pn_sockaddr_get_addr(pn_sockaddr_set_object(w, p)) = pn_addr(p)
  BY DEF pn_sockaddr_set_object, pn_dev, pn_obj, pn_addr
<1>8. pn_sockaddr_get_port(pn_sockaddr_set_object(w, p)) = pn_port(p)
  BY DEF pn_sockaddr_set_object, pn_dev, pn_obj, pn_port
<1>9. spn_resource(pn_sockaddr_set_object(w, p)) = spn_resource(w)
  BY DEF pn_sockaddr_set_object, pn_dev, pn_obj
<1>10. pn_sockaddr_get_addr(pn_sockaddr_set_resource(w, a)) = pn_sockaddr_get_addr(w)
  BY DEF pn_sockaddr_set_resource
<1>11. pn_sockaddr_get_port(pn_sockaddr_set_resource(w, a)) = pn_sockaddr_get_port(w)
  BY DEF pn_sockaddr_set_resource
<1>12. spn_resource(pn_sockaddr_set_resource(w, a)) = a
  BY ONLY w \in SUBSET Bits(24), a \in SUBSET Bits(8), SetParts, Zenon
<1>13. pn_sockaddr_get_object(w)
         = pn_object(pn_sockaddr_get_addr(w), pn_sockaddr_get_port(w))
  BY DEF pn_sockaddr_get_object, pn_object
<1>. QED
  BY ONLY <1>1, <1>2, <1>3, <1>4, <1>5, <1>6, <1>7, <1>8, <1>9, <1>10, <1>11, <1>12, <1>13, Zenon

\* The parts of a Phonet address stay in the three bytes of the address.
LEMMA SockAddrWidth ==
    ASSUME NEW w \in SUBSET Bits(24), NEW a \in SUBSET Bits(8), NEW p \in SUBSET Bits(16)
    PROVE  /\ pn_sockaddr_set_addr(w, a) \in SUBSET Bits(24)
           /\ pn_sockaddr_set_port(w, p) \in SUBSET Bits(24)
           /\ pn_sockaddr_set_object(w, p) \in SUBSET Bits(24)
           /\ pn_sockaddr_set_resource(w, a) \in SUBSET Bits(24)
BY DEF pn_sockaddr_set_addr, pn_sockaddr_set_port, pn_sockaddr_set_object,
       pn_sockaddr_set_resource, Spn, spn_obj, pn_obj, Low, Shl, Bits

\* fpu.h: the software bits that come back from the FPCR.
LEMMA Ieee ==
    ASSUME NEW sw
    PROVE  ieee_fpcr_to_swcr(ieee_swcr_to_fpcr(sw))
             = (sw \cap IEEE_SW_MASK)
                 \ {b \in {IEEE_TRAP_ENABLE_UNF} : IEEE_MAP_UMZ \in sw}
<1>. DEFINE fp == ieee_swcr_to_fpcr(sw)
            off == Bits(64) \ fp
<1>. USE DEF ieee_swcr_to_fpcr, IEEE_STATUS_MASK, IEEE_MAP_DMZ, IEEE_MAP_UMZ,
             FPCR_SUM, FPCR_UNDZ, FPCR_UNFD, Shl, Shr, Bits
<1>1. Shr(64, fp, 35) \cap (17..22) = sw \cap (17..22) OBVIOUS
<1>2. Shr(64, fp, 36) \cap {12} = sw \cap {12} OBVIOUS
<1>3. Shr(64, off, 48) \cap {1, 2, 3} = sw \cap {1, 2, 3} OBVIOUS
<1>4. Shr(64, off, 57) \cap {4, 5} = (sw \cap {4, 5}) \ {b \in {4} : 13 \in sw} OBVIOUS
<1>5. Shr(64, fp, 47) \cap {13} = sw \cap {13} OBVIOUS
<1>6. Shr(64, off, 41) \cap {6} = sw \cap {6} OBVIOUS
<1>. HIDE DEF ieee_swcr_to_fpcr, Shl, Shr, Bits
<1>. QED
  BY <1>1, <1>2, <1>3, <1>4, <1>5, <1>6
  DEF ieee_fpcr_to_swcr, IEEE_SW_MASK, IEEE_TRAP_ENABLE_MASK, IEEE_TRAP_ENABLE_UNF

\* psrcompat.h: the condition codes that come back from the PSR.
LEMMA Psr ==
    ASSUME NEW t
    PROVE  /\ psr_to_tstate_icc(tstate_to_psr(t)) = t \cap (TSTATE_ICC \cup TSTATE_XCC)
           /\ psr_to_tstate_icc(tstate_to_psr(t) \ PSR_V8PLUS) = t \cap TSTATE_ICC
<1>1. tstate_to_psr(t) \cap (24..31) = PSR_V8PLUS
  BY Zenon DEF tstate_to_psr, PSR_V8PLUS
<1>2. (tstate_to_psr(t) \ PSR_V8PLUS) \cap (24..31) # PSR_V8PLUS
  BY DEF PSR_V8PLUS
<1>3. Shl(64, tstate_to_psr(t) \cap PSR_ICC, 12) = t \cap TSTATE_ICC
  BY DEF tstate_to_psr, PSR_ICC, PSR_XCC, PSR_S, PSR_SYSCALL, PSR_V8PLUS, TSTATE_CWP,
         TSTATE_ICC, TSTATE_XCC, Shl, Shr, Bits
<1>4. Shl(64, tstate_to_psr(t) \cap PSR_XCC, 20) = t \cap TSTATE_XCC
  BY DEF tstate_to_psr, PSR_ICC, PSR_XCC, PSR_S, PSR_SYSCALL, PSR_V8PLUS, TSTATE_CWP,
         TSTATE_ICC, TSTATE_XCC, Shl, Shr, Bits
<1>5. (tstate_to_psr(t) \ PSR_V8PLUS) \cap PSR_ICC = tstate_to_psr(t) \cap PSR_ICC
  BY DEF PSR_ICC, PSR_V8PLUS
<1>. QED BY <1>1, <1>2, <1>3, <1>4, <1>5, Zenon DEF psr_to_tstate_icc

\* xt_sctp.h: the bit of a chunk type is the type itself.
LEMMA ChunkBits ==
    ASSUME NEW t \in 0..255 PROVE ChunkBit(t) = t
BY DEF ChunkBit

\* The loops over the array look at all its bits.
LEMMA ChunkLoops ==
    ASSUME NEW w \in SUBSET Bits(32 * ChunkWords)
    PROVE  /\ sctp_chunkmap_is_clear(w) <=> w = {}
           /\ sctp_chunkmap_is_all_set(w) <=> w = Bits(32 * ChunkWords)
<1>0. ASSUME NEW i \in 0..63, NEW j \in 0..31
      PROVE  j \in Element(w, i) <=> 32 * i + j \in w
  BY DEF Element, ChunkWords, Shr, Bits
<1>1. ASSUME NEW b \in Bits(32 * ChunkWords)
      PROVE  \E i \in 0..63, j \in 0..31 : b = 32 * i + j
  <2>1. b \div 32 \in 0..63 /\ b % 32 \in 0..31 /\ b = 32 * (b \div 32) + (b % 32)
    BY DEF Bits, ChunkWords
  <2>. QED BY <2>1
<1>2. ASSUME NEW i \in 0..63 PROVE Element(w, i) \subseteq 0..31
  BY DEF Element, Bits
<1>3. sctp_chunkmap_is_clear(w) <=> \A i \in 0..63 : Element(w, i) = {}
  BY DEF sctp_chunkmap_is_clear, ChunkWords
<1>4. sctp_chunkmap_is_all_set(w) <=> \A i \in 0..63 : Element(w, i) = 0..31
  BY DEF sctp_chunkmap_is_all_set, ChunkWords, Bits
<1>. DEFINE S == Bits(32 * ChunkWords)
            I == 0..63
            J == 0..31
<1>5. /\ w \subseteq S
      /\ \A i \in I, j \in J : (j \in Element(w, i) <=> 32 * i + j \in w) /\ 32 * i + j \in S
      /\ \A i \in I : Element(w, i) \subseteq J
      /\ \A b \in S : \E i \in I, j \in J : b = 32 * i + j
  <2>1. ASSUME NEW i \in I, NEW j \in J PROVE 32 * i + j \in S
    <3>1. PICK k \in 0..2047 : k = 32 * i + j OBVIOUS
    <3>2. k \in S BY DEF Bits, ChunkWords
    <3>. QED BY <3>1, <3>2
  <2>2. w \subseteq S OBVIOUS
  <2>3. \A i \in I, j \in J : (j \in Element(w, i) <=> 32 * i + j \in w) /\ 32 * i + j \in S
    <3>. HIDE DEF S, I, J
    <3>1. ASSUME NEW i \in I, NEW j \in J PROVE j \in Element(w, i) <=> 32 * i + j \in w
      BY <1>0 DEF I, J
    <3>. QED BY <2>1, <3>1
  <2>4. \A i \in I : Element(w, i) \subseteq J BY <1>2
  <2>5. \A b \in S : \E i \in I, j \in J : b = 32 * i + j BY <1>1
  <2>. HIDE DEF S, I, J
  <2>. QED BY <2>2, <2>3, <2>4, <2>5
<1>6. /\ sctp_chunkmap_is_clear(w) <=> \A i \in I : Element(w, i) = {}
      /\ sctp_chunkmap_is_all_set(w) <=> \A i \in I : Element(w, i) = J
  BY <1>3, <1>4
<1>. HIDE DEF S, I, J
<1>7. (\A i \in I : Element(w, i) = {}) <=> w = {}
  <2>1. ASSUME \A i \in I : Element(w, i) = {}, NEW b \in w PROVE FALSE
    <3>1. PICK i \in I, j \in J : b = 32 * i + j BY <1>5, Zenon
    <3>. QED BY <1>5, <2>1, <3>1, Zenon
  <2>2. ASSUME w = {}, NEW i \in I PROVE Element(w, i) = {}
    BY <1>5, <2>2, Zenon
  <2>. QED BY <2>1, <2>2, Zenon
<1>8. (\A i \in I : Element(w, i) = J) <=> w = S
  <2>1. ASSUME w = S, NEW i \in I PROVE Element(w, i) = J
    <3>1. \A j \in J : j \in Element(w, i) BY <1>5, <2>1, Zenon
    <3>. QED BY <1>5, <3>1, Zenon
  <2>2. ASSUME \A i \in I : Element(w, i) = J, NEW b \in S PROVE b \in w
    <3>1. PICK i \in I, j \in J : b = 32 * i + j BY <1>5, Zenon
    <3>. QED BY <1>5, <2>2, <3>1, Zenon
  <2>. QED BY <1>5, <2>1, <2>2, Zenon
<1>. QED BY <1>6, <1>7, <1>8 DEF S

-----------------------------------------------------------------------------
\* The inductive invariant: TypeOK, and for each kind what its word is, in
\* terms of what was stored.
Packed ==
    kind \in DOMAIN BitmaskKinds =>
      \A f \in BitmaskKinds[kind] : get_bitmask(word, f) = stored[f]
Header ==
    kind = "tcmu" => tcmu_hdr_get_op(word) = stored.op /\ tcmu_hdr_get_len(word) = stored.len
Address ==
    kind = "sockaddr" => /\ pn_sockaddr_get_addr(word) = stored.addr
                         /\ pn_sockaddr_get_port(word) = stored.port
                         /\ spn_resource(word) = stored.resource
Disk == kind \in DOMAIN NilfsFlag => word = stored.flags
Beyond == Bits(2048) \ (0..255) \* the bits of the words past the 256 types
Map ==
    kind = "chunkmap" => /\ stored.types \in SUBSET (0..255)
                         /\ word \in {stored.types, stored.types \cup Beyond}
Control ==
    /\ kind = "ieee" => word = ieee_swcr_to_fpcr(stored.control)
    /\ kind = "psr" => word \cap (TSTATE_ICC \cup TSTATE_XCC) = stored.codes
Raw == kind = "raw" => word = stored.word

\* The bits of the map are those of the types and the ones beyond.
LEMMA BitsOfMap ==
    /\ Bits(2048) = (0..255) \cup Beyond
    /\ Beyond # {} /\ \A b \in Beyond : b \notin 0..255
<1>1. (0..255) \subseteq Bits(2048) BY DEF Bits
<1>2. 256 \in Bits(2048) /\ 256 \notin 0..255 BY DEF Bits
<1>3. PICK S : S = Bits(2048) OBVIOUS
<1>4. PICK T : T = 0..255 OBVIOUS
<1>5. Beyond = S \ T /\ T \subseteq S BY <1>1, <1>3, <1>4 DEF Beyond
<1>6. S = T \cup Beyond /\ \A b \in Beyond : b \notin T BY <1>5, Zenon
<1>7. Beyond # {} BY <1>2, <1>3, <1>4, <1>5
<1>. QED BY <1>3, <1>4, <1>6, <1>7

IInv == TypeOK /\ Packed /\ Header /\ Address /\ Disk /\ Map /\ Control /\ Raw

\* The kinds, by what they are and by their width.
LEMMA KindFacts ==
    /\ DOMAIN BitmaskKinds = {"bkey", "ptr", "cache", "bdev"}
    /\ DOMAIN NilfsFlag = {"checkpoint", "segment"}
    /\ \A k \in DOMAIN BitmaskKinds : Width[k] = 64
    /\ \A k \in DOMAIN NilfsFlag : Width[k] = 32
    /\ Width["tcmu"] = 32 /\ Width["chunkmap"] = 2048 /\ Width["sockaddr"] = 24
    /\ Width["ieee"] = 64 /\ Width["psr"] = 64 /\ Width["raw"] = 64
<1>1. DOMAIN BitmaskKinds = {"bkey", "ptr", "cache", "bdev"} BY Zenon DEF BitmaskKinds
<1>2. DOMAIN NilfsFlag = {"checkpoint", "segment"} BY Zenon DEF NilfsFlag
<1>3. /\ Width["bkey"] = 64 /\ Width["ptr"] = 64 /\ Width["cache"] = 64 /\ Width["bdev"] = 64
      /\ Width["checkpoint"] = 32 /\ Width["segment"] = 32
      /\ Width["tcmu"] = 32 /\ Width["chunkmap"] = 2048 /\ Width["sockaddr"] = 24
      /\ Width["ieee"] = 64 /\ Width["psr"] = 64 /\ Width["raw"] = 64
  BY DEF Width
<1>. QED BY <1>1, <1>2, <1>3

\* A step that changes a word of one kind leaves nothing to prove of the others.
LEMMA OnlyKind ==
    ASSUME kind' = kind
    PROVE  /\ kind \in DOMAIN BitmaskKinds =>
                Header' /\ Address' /\ Disk' /\ Map' /\ Control' /\ Raw'
           /\ kind = "tcmu" => Packed' /\ Address' /\ Disk' /\ Map' /\ Control' /\ Raw'
           /\ kind = "sockaddr" => Packed' /\ Header' /\ Disk' /\ Map' /\ Control' /\ Raw'
           /\ kind \in DOMAIN NilfsFlag =>
                Packed' /\ Header' /\ Address' /\ Map' /\ Control' /\ Raw'
           /\ kind = "chunkmap" => Packed' /\ Header' /\ Address' /\ Disk' /\ Control' /\ Raw'
           /\ kind \in {"ieee", "psr"} => Packed' /\ Header' /\ Address' /\ Disk' /\ Map' /\ Raw'
           /\ kind = "raw" => Packed' /\ Header' /\ Address' /\ Disk' /\ Map' /\ Control'
<1>1. Packed' \/ kind \in {"bkey", "ptr", "cache", "bdev"} BY KindFacts DEF Packed
<1>2. Header' \/ kind = "tcmu" BY Zenon DEF Header
<1>3. Address' \/ kind = "sockaddr" BY Zenon DEF Address
<1>4. Disk' \/ kind \in {"checkpoint", "segment"} BY KindFacts DEF Disk
<1>5. Map' \/ kind = "chunkmap" BY Zenon DEF Map
<1>6. Control' \/ kind \in {"ieee", "psr"} BY Zenon DEF Control
<1>7. Raw' \/ kind = "raw" BY Zenon DEF Raw
<1>. QED BY <1>1, <1>2, <1>3, <1>4, <1>5, <1>6, <1>7, KindFacts

\* Bits of a result stay within the word.
LEMMA Inside ==
    ASSUME NEW w \in SUBSET Bits(64), NEW f, NEW v
    PROVE  /\ set_bitmask(w, f, v) \subseteq Bits(64)
           /\ ieee_swcr_to_fpcr(v) \subseteq Bits(64)
<1>1. set_bitmask(w, f, v) \subseteq Bits(64)
  BY Zenon DEF set_bitmask, Shl
<1>2. ieee_swcr_to_fpcr(v) \subseteq Bits(64)
  BY DEF ieee_swcr_to_fpcr, Shl, Bits, FPCR_SUM, FPCR_UNDZ, FPCR_UNFD
<1>. QED BY <1>1, <1>2, Zenon

\* The setters of bcache.h, and the macros that make a key or a pointer.
LEMMA BcacheStep ==
    ASSUME IInv, NEW f \in DOMAIN Bitmask, NEW v, NEW i, NEW s, NEW g, NEW o, NEW d
    PROVE  /\ SetBitmask(f, v) => IInv'
           /\ MakeKey(Low(20, i), Low(16, s)) => IInv'
           /\ MakePtr(Low(8, g), Low(43, o), Low(12, d)) => IInv'
<1>1. ASSUME SetBitmask(f, v) PROVE IInv'
  <2>1. /\ kind' = kind /\ kind \in DOMAIN BitmaskKinds /\ f \in BitmaskKinds[kind]
        /\ word' = set_bitmask(word, f, v)
        /\ stored' = [h \in BitmaskKinds[kind] |->
                        IF h = f THEN v \cap Bits(Bitmask[f][2]) ELSE stored[h]]
    BY <1>1, Zenon DEF SetBitmask, Change
  <2>2. kind \in Kinds /\ word \in SUBSET Bits(64)
    BY <2>1, KindFacts DEF IInv, TypeOK
  <2>3. TypeOK'
    BY <2>1, <2>2, Inside, KindFacts DEF TypeOK
  <2>4. ASSUME NEW h \in BitmaskKinds[kind] PROVE get_bitmask(word', h) = stored'[h]
    <3>1. get_bitmask(word, h) = stored[h]
      BY <2>1, Zenon DEF IInv, Packed
    <3>2. get_bitmask(word', h) = IF h = f THEN v \cap Bits(Bitmask[f][2]) ELSE stored[h]
      BY <2>1, <3>1, GetSet
    <3>3. stored'[h] = IF h = f THEN v \cap Bits(Bitmask[f][2]) ELSE stored[h]
      BY <2>1, Zenon
    <3>. QED BY <3>2, <3>3, Zenon
  <2>5. Packed'
    BY <2>1, <2>4, Zenon DEF Packed
  <2>. QED BY <2>1, <2>3, <2>5, OnlyKind, Zenon DEF IInv
<1>2. ASSUME MakeKey(Low(20, i), Low(16, s)) PROVE IInv'
  <2>1. /\ kind' = kind /\ kind = "bkey" /\ word' = KEY(Low(20, i), Low(16, s))
        /\ stored' = [h \in BitmaskKinds["bkey"] |->
                        IF h = "KEY_INODE" THEN Low(20, i)
                        ELSE IF h = "KEY_SIZE" THEN Low(16, s) ELSE {}]
    BY <1>2, Zenon DEF MakeKey, Change
  <2>2. "bkey" \in DOMAIN BitmaskKinds /\ Width["bkey"] = 64
    BY KindFacts
  <2>3. word' \subseteq Bits(64)
    BY <2>1 DEF KEY, Shl, Low, Bits
  <2>4. TypeOK'
    BY <2>1, <2>2, <2>3, Zenon DEF IInv, TypeOK
  <2>5. PICK a \in SUBSET Bits(20) : a = Low(20, i) BY Zenon DEF Low
  <2>6. PICK b \in SUBSET Bits(16) : b = Low(16, s) BY Zenon DEF Low
  <2>7. \A h \in BitmaskKinds["bkey"] : get_bitmask(word', h) = stored'[h]
    <3>1. \A h \in BitmaskKinds["bkey"] :
            get_bitmask(KEY(a, b), h)
              = IF h = "KEY_INODE" THEN a ELSE IF h = "KEY_SIZE" THEN b ELSE {}
      BY Made
    <3>. QED BY <2>1, <2>5, <2>6, <3>1, Zenon
  <2>8. Packed'
    BY <2>1, <2>7, Zenon DEF Packed
  <2>. QED BY <2>1, <2>2, <2>4, <2>8, OnlyKind, Zenon DEF IInv
<1>3. ASSUME MakePtr(Low(8, g), Low(43, o), Low(12, d)) PROVE IInv'
  <2>5. PICK a \in SUBSET Bits(8) : a = Low(8, g) BY Zenon DEF Low
  <2>6. PICK b \in SUBSET Bits(43) : b = Low(43, o) BY Zenon DEF Low
  <2>7. PICK c \in SUBSET Bits(12) : c = Low(12, d) BY Zenon DEF Low
  <2>1. /\ kind' = kind /\ kind = "ptr" /\ word' = MAKE_PTR(a, b, c)
        /\ stored' = [PTR_GEN |-> a, PTR_OFFSET |-> b, PTR_DEV |-> c]
    BY <1>3, <2>5, <2>6, <2>7, Zenon DEF MakePtr, Change
  <2>2. "ptr" \in DOMAIN BitmaskKinds /\ Width["ptr"] = 64
    BY KindFacts
  <2>3. word' \subseteq Bits(64)
    <3>1. \A x \in a : x \in 0..63 BY DEF Bits
    <3>2. Shl(64, c, 51) \subseteq Bits(64) /\ Shl(64, b, 8) \subseteq Bits(64)
      BY Zenon DEF Shl
    <3>3. a \subseteq Bits(64) BY <3>1 DEF Bits
    <3>. QED BY <2>1, <3>2, <3>3, Zenon DEF MAKE_PTR
  <2>4. TypeOK'
    BY <2>1, <2>2, <2>3 DEF IInv, TypeOK
  <2>8. BitmaskKinds["ptr"] = {"PTR_DEV", "PTR_OFFSET", "PTR_GEN"}
    BY Zenon DEF BitmaskKinds
  <2>9. /\ stored'["PTR_GEN"] = a /\ stored'["PTR_OFFSET"] = b /\ stored'["PTR_DEV"] = c
    BY <2>1, Zenon
  <2>10. /\ get_bitmask(word', "PTR_GEN") = a
         /\ get_bitmask(word', "PTR_OFFSET") = b
         /\ get_bitmask(word', "PTR_DEV") = c
    BY <2>1, Made
  <2>11. Packed'
    BY <2>1, <2>8, <2>9, <2>10, Zenon DEF Packed
  <2>. QED BY <2>1, <2>2, <2>4, <2>11, OnlyKind, Zenon DEF IInv
<1>. QED BY <1>1, <1>2, <1>3, Zenon

\* The setters of a TCMU header.
LEMMA HeaderStep ==
    ASSUME IInv, NEW op, NEW len
    PROVE  /\ SetOp(op) => IInv'
           /\ SetLen(Low(32, len) \ TCMU_OP_MASK) => IInv'
<1>. SUFFICES ASSUME kind = "tcmu"
              PROVE  /\ SetOp(op) => IInv'
                     /\ SetLen(Low(32, len) \ TCMU_OP_MASK) => IInv'
  BY Zenon DEF SetOp, SetLen, Change
<1>1. kind \in Kinds /\ word \subseteq Bits(32) /\ Width["tcmu"] = 32
  BY KindFacts DEF IInv, TypeOK
<1>2. word \cap TCMU_OP_MASK = stored.op /\ word \ TCMU_OP_MASK = stored.len
  BY Zenon DEF IInv, Header, tcmu_hdr_get_op, tcmu_hdr_get_len
<1>3. ASSUME SetOp(op) PROVE IInv'
  <2>1. /\ kind' = kind /\ word' = (word \ TCMU_OP_MASK) \cup (op \cap TCMU_OP_MASK)
        /\ stored' = [op |-> op \cap TCMU_OP_MASK, len |-> stored.len]
    BY <1>3, Zenon DEF SetOp, Change, tcmu_hdr_set_op
  <2>2. TCMU_OP_MASK \subseteq Bits(32) BY DEF TCMU_OP_MASK, Bits
  <2>3. TypeOK' BY <1>1, <2>1, <2>2, Zenon DEF TypeOK
  <2>4. word' \cap TCMU_OP_MASK = op \cap TCMU_OP_MASK /\ word' \ TCMU_OP_MASK = stored.len
    BY <1>2, <2>1, Zenon
  <2>5. Header' BY <2>1, <2>4, Zenon DEF Header, tcmu_hdr_get_op, tcmu_hdr_get_len
  <2>. QED BY <2>1, <2>3, <2>5, OnlyKind, Zenon DEF IInv
<1>4. ASSUME SetLen(Low(32, len) \ TCMU_OP_MASK) PROVE IInv'
  <2>0. PICK n \in SUBSET Bits(32) : n = Low(32, len) \ TCMU_OP_MASK BY Zenon DEF Low
  <2>1. /\ kind' = kind /\ word' = (word \cap TCMU_OP_MASK) \cup n
        /\ stored' = [op |-> stored.op, len |-> n]
    BY <1>4, <2>0, Zenon DEF SetLen, Change, tcmu_hdr_set_len
  <2>2. n \cap TCMU_OP_MASK = {} BY <2>0, Zenon
  <2>3. TypeOK' BY <1>1, <2>1, Zenon DEF TypeOK
  <2>4. word' \cap TCMU_OP_MASK = stored.op /\ word' \ TCMU_OP_MASK = n
    BY <1>2, <2>1, <2>2, Zenon
  <2>5. Header' BY <2>1, <2>4, Zenon DEF Header, tcmu_hdr_get_op, tcmu_hdr_get_len
  <2>. QED BY <2>1, <2>3, <2>5, OnlyKind, Zenon DEF IInv
<1>. QED BY <1>3, <1>4, Zenon

\* The flags of nilfs2: on any machine the image changes by the one bit.
LEMMA DiskStep ==
    ASSUME IInv, NEW m \in Machines, NEW flag \in 0..3
    PROVE  (SetFlag(m, flag) \/ ClearFlag(m, flag) \/ SetClean(m)) => IInv'
<1>. SUFFICES ASSUME SetFlag(m, flag) \/ ClearFlag(m, flag) \/ SetClean(m) PROVE IInv'
  BY Zenon
<1>1. kind' = kind /\ kind \in DOMAIN NilfsFlag
  BY KindFacts DEF SetFlag, ClearFlag, SetClean, Change
<1>2. kind \in Kinds /\ word \subseteq Bits(32) /\ Width[kind] = 32 /\ word = stored.flags
  BY <1>1, KindFacts DEF IInv, TypeOK, Disk
<1>3. \A x : x \subseteq Bits(32) => Low(32, x) = x
  BY Zenon DEF Low
<1>4. nilfs_flags(m, word) = word
  BY <1>2, <1>3, Orders DEF nilfs_flags
<1>5. \A x : x \subseteq Bits(32) => Store(m, 32, cpu_to_le(m, 32, x)) = x
  BY <1>3, Orders
<1>6. word \cup {flag} \subseteq Bits(32) /\ word \ {flag} \subseteq Bits(32) /\ {} \subseteq Bits(32)
  BY <1>2 DEF Bits
<1>7. word' \subseteq Bits(32) /\ word' = stored'.flags
  <2>1. CASE SetFlag(m, flag)
    BY <1>2, <1>4, <1>5, <1>6, <2>1 DEF SetFlag, Change, nilfs_set
  <2>2. CASE ClearFlag(m, flag)
    BY <1>2, <1>4, <1>5, <1>6, <2>2 DEF ClearFlag, Change, nilfs_clear
  <2>3. CASE SetClean(m)
    BY <1>5, <1>6, <2>3 DEF SetClean, Change, nilfs_segment_usage_set_clean
  <2>. QED BY <2>1, <2>2, <2>3, Zenon
<1>8. TypeOK' /\ Disk'
  BY <1>1, <1>2, <1>7, Zenon DEF TypeOK, Disk
<1>. QED BY <1>1, <1>8, OnlyKind, Zenon DEF IInv

\* Clearing one of the 256 types leaves the words beyond them alone.
LEMMA Past ==
    ASSUME NEW t \in 0..255, NEW a
    PROVE  (a \cup Beyond) \ {t} = (a \ {t}) \cup Beyond
<1>1. t \notin Beyond BY BitsOfMap
<1>. QED BY <1>1, Zenon

\* The map of chunk types.
LEMMA MapStep ==
    ASSUME IInv, NEW t \in ChunkTypes
    PROVE  (SetChunk(t) \/ ClearChunk(t)) => IInv'
<1>. SUFFICES ASSUME SetChunk(t) \/ ClearChunk(t) PROVE IInv'
  BY Zenon
<1>0. t \in 0..255 BY StoredAssumption, Zenon
<1>1. t \in 0..255 /\ ChunkBit(t) = t
  BY <1>0, ChunkBits, Zenon
<1>2. kind' = kind /\ kind = "chunkmap" /\ kind \in Kinds /\ Width["chunkmap"] = 2048
  <2>1. kind' = kind /\ kind = "chunkmap" BY Zenon DEF SetChunk, ClearChunk, Change
  <2>2. kind \in Kinds BY Zenon DEF IInv, TypeOK
  <2>. QED BY <2>1, <2>2, KindFacts
<1>3. stored.types \in SUBSET (0..255) /\ word \in {stored.types, stored.types \cup Beyond}
  BY <1>2 DEF IInv, Map
<1>4. PICK a \in SUBSET (0..255) : a = stored.types BY <1>3, Zenon
<1>5. PICK b \in SUBSET (0..255) : stored' = [types |-> b] /\ word' \in {b, b \cup Beyond}
  <2>1. CASE SetChunk(t)
    <3>1. PICK b \in SUBSET (0..255) : b = a \cup {t} BY <1>1
    <3>2. word' = word \cup {t} /\ stored' = [types |-> b]
      BY <1>1, <1>4, <2>1, <3>1 DEF SetChunk, Change, SCTP_CHUNKMAP_SET
    <3>. QED BY <1>3, <1>4, <3>1, <3>2
  <2>2. CASE ClearChunk(t)
    <3>1. PICK b \in SUBSET (0..255) : b = a \ {t} BY Zenon
    <3>2. word' = word \ {t} /\ stored' = [types |-> b]
      BY <1>1, <1>4, <2>2, <3>1, Zenon DEF ClearChunk, Change, SCTP_CHUNKMAP_CLEAR
    <3>3. word = a => word' = b BY <3>1, <3>2, Zenon
    <3>4. ASSUME word = a \cup Beyond PROVE word' = b \cup Beyond
      <4>1. (a \cup Beyond) \ {t} = (a \ {t}) \cup Beyond BY <1>0, Past, Zenon
      <4>. QED BY <3>1, <3>2, <3>4, <4>1, Zenon
    <3>. QED BY <1>3, <1>4, <3>2, <3>3, <3>4, Zenon
  <2>. QED BY <2>1, <2>2, Zenon
<1>6. word' \subseteq Bits(2048)
  <2>0. PICK S : S = Bits(2048) OBVIOUS
  <2>1. PICK T : T = 0..255 OBVIOUS
  <2>2. S = T \cup Beyond BY ONLY <2>0, <2>1, BitsOfMap, SMT
  <2>3. PICK v : v = word' /\ v \in {b, b \cup Beyond} BY <1>5, Zenon
  <2>4. v \subseteq S
    <3>1. b \subseteq T BY ONLY b \in SUBSET (0..255), <2>1, SMT
    <3>. QED BY ONLY <2>2, <2>3, <3>1, Zenon
  <2>. QED BY ONLY <2>0, <2>3, <2>4, SMT
<1>7. TypeOK' BY <1>2, <1>6 DEF TypeOK
<1>8. Map' BY <1>2, <1>3, <1>5 DEF Map
<1>. QED BY <1>2, <1>7, <1>8, OnlyKind DEF IInv

\* The map as a whole.
LEMMA WholeMapStep ==
    ASSUME IInv PROVE (ResetChunks \/ SetAllChunks) => IInv'
<1>. SUFFICES ASSUME ResetChunks \/ SetAllChunks PROVE IInv'
  BY Zenon
<1>1. kind' = kind /\ kind = "chunkmap" /\ kind \in Kinds /\ Width["chunkmap"] = 2048
  <2>1. kind' = kind /\ kind = "chunkmap" BY Zenon DEF ResetChunks, SetAllChunks, Change
  <2>2. kind \in Kinds BY Zenon DEF IInv, TypeOK
  <2>. QED BY <2>1, <2>2, KindFacts
<1>2. CASE ResetChunks
  <2>1. word' = {} /\ stored' = [types |-> {}]
    BY <1>2, Zenon DEF ResetChunks, Change, SCTP_CHUNKMAP_RESET
  <2>2. TypeOK' /\ Map' BY <1>1, <2>1 DEF TypeOK, Map
  <2>. QED BY <1>1, <2>2, OnlyKind DEF IInv
<1>3. CASE SetAllChunks
  <2>1. word' = Bits(2048) /\ stored' = [types |-> 0..255]
    BY <1>3 DEF SetAllChunks, Change, SCTP_CHUNKMAP_SET_ALL, ChunkWords
  <2>2. TypeOK' BY <1>1, <2>1 DEF TypeOK
  <2>3. word' = (0..255) \cup Beyond BY <2>1, BitsOfMap
  <2>4. Map' BY <1>1, <2>1, <2>3 DEF Map
  <2>. QED BY <1>1, <2>2, <2>4, OnlyKind DEF IInv
<1>. QED BY <1>2, <1>3, Zenon

\* A word stays within 64 bits when some of its low bits are turned round.
LEMMA RawWidth ==
    ASSUME NEW w \in SUBSET Bits(64), NEW n \in {16, 32, 64}
    PROVE  (w \ Bits(n)) \cup Reversed(n, w) \subseteq Bits(64)
<1>1. Bits(n) \subseteq Bits(64) BY DEF Bits
<1>2. Reversed(n, w) \subseteq Bits(n) BY Zenon DEF Reversed
<1>. QED BY <1>1, <1>2, Zenon

\* The setters of a Phonet address.
LEMMA AddressStep ==
    ASSUME IInv, NEW x, NEW y
    PROVE  (SetAddr(Low(8, x)) \/ SetPort(Low(16, y)) \/ SetObject(Low(8, x), Low(16, y))
              \/ SetResource(Low(8, x))) => IInv'
<1>. SUFFICES ASSUME SetAddr(Low(8, x)) \/ SetPort(Low(16, y))
                       \/ SetObject(Low(8, x), Low(16, y)) \/ SetResource(Low(8, x))
              PROVE  IInv'
  BY Zenon
<1>1. PICK a \in SUBSET Bits(8) : a = Low(8, x) BY Zenon DEF Low
<1>2. PICK p \in SUBSET Bits(16) : p = Low(16, y) BY Zenon DEF Low
<1>3. pn_object(a \ {0, 1}, p) \in SUBSET Bits(16) BY Zenon DEF pn_object, Shl, Bits
<1>4. PICK h \in SUBSET Bits(16) : h = pn_object(a \ {0, 1}, p) BY <1>3, Zenon
<1>5. /\ kind = "sockaddr" /\ kind' = "sockaddr" /\ kind \in Kinds /\ Width["sockaddr"] = 24
      /\ word \in SUBSET Bits(24)
  <2>1. kind = "sockaddr" /\ kind' = kind
    BY Zenon DEF SetAddr, SetPort, SetObject, SetResource, Change
  <2>2. kind \in Kinds /\ word \subseteq Bits(Width[kind])
    BY Zenon DEF IInv, TypeOK
  <2>. QED BY <2>1, <2>2, KindFacts
<1>6. /\ pn_sockaddr_get_addr(word) = stored.addr /\ pn_sockaddr_get_port(word) = stored.port
      /\ spn_resource(word) = stored.resource
  BY <1>5, Zenon DEF IInv, Address
<1>7. word' \in SUBSET Bits(24) /\ Address'
  <2>1. CASE SetAddr(Low(8, x))
    <3>1. /\ word' = pn_sockaddr_set_addr(word, a)
          /\ stored' = [addr |-> a \ {0, 1}, port |-> stored.port, resource |-> stored.resource]
      BY <1>1, <2>1, Zenon DEF SetAddr, Change
    <3>2. word' \in SUBSET Bits(24) BY <1>5, <3>1, SockAddrWidth, Zenon
    <3>3. Address' BY <1>5, <1>6, <3>1, SockAddr, ZenonT(40) DEF Address
    <3>. QED BY <3>2, <3>3, Zenon
  <2>2. CASE SetPort(Low(16, y))
    <3>1. /\ word' = pn_sockaddr_set_port(word, p)
          /\ stored' = [addr |-> stored.addr, port |-> Low(10, p), resource |-> stored.resource]
      BY <1>2, <2>2, Zenon DEF SetPort, Change
    <3>2. word' \in SUBSET Bits(24) BY <1>5, <3>1, SockAddrWidth, Zenon
    <3>3. Address' BY <1>5, <1>6, <3>1, SockAddr, ZenonT(40) DEF Address
    <3>. QED BY <3>2, <3>3, Zenon
  <2>3. CASE SetObject(Low(8, x), Low(16, y))
    <3>1. /\ word' = pn_sockaddr_set_object(word, h)
          /\ stored' = [addr |-> pn_addr(h), port |-> pn_port(h), resource |-> stored.resource]
      BY <1>1, <1>2, <1>4, <2>3, Zenon DEF SetObject, Change
    <3>2. word' \in SUBSET Bits(24) BY <1>5, <3>1, SockAddrWidth, Zenon
    <3>3. Address' BY <1>5, <1>6, <3>1, SockAddr, ZenonT(40) DEF Address
    <3>. QED BY <3>2, <3>3, Zenon
  <2>4. CASE SetResource(Low(8, x))
    <3>1. /\ word' = pn_sockaddr_set_resource(word, a)
          /\ stored' = [addr |-> stored.addr, port |-> stored.port, resource |-> a]
      BY <1>1, <2>4, Zenon DEF SetResource, Change
    <3>2. word' \in SUBSET Bits(24) BY <1>5, <3>1, SockAddrWidth, Zenon
    <3>3. Address' BY <1>5, <1>6, <3>1, SockAddr, ZenonT(40) DEF Address
    <3>. QED BY <3>2, <3>3, Zenon
  <2>. QED BY <2>1, <2>2, <2>3, <2>4, Zenon
<1>8. TypeOK' BY <1>5, <1>7, Zenon DEF TypeOK
<1>. QED BY <1>5, <1>7, <1>8, OnlyKind, Zenon DEF IInv

\* The Alpha's control word.
LEMMA ControlStep ==
    ASSUME IInv, NEW sw PROVE SetControl(sw) => IInv'
<1>. SUFFICES ASSUME SetControl(sw) PROVE IInv'
  BY Zenon
<1>1. /\ kind = "ieee" /\ kind' = "ieee" /\ kind \in Kinds /\ Width["ieee"] = 64
      /\ word' = ieee_swcr_to_fpcr(sw) /\ stored' = [control |-> sw] /\ word \subseteq Bits(64)
  BY KindFacts DEF SetControl, Change, IInv, TypeOK
<1>2. word' \subseteq Bits(64) BY <1>1, Inside, Zenon
<1>3. TypeOK' /\ Control' BY <1>1, <1>2, Zenon DEF TypeOK, Control
<1>. QED BY <1>1, <1>3, OnlyKind, Zenon DEF IInv

\* SPARC's condition codes through a signal frame.
LEMMA PsrStep ==
    ASSUME IInv, NEW codes \in SUBSET {32, 35, 36, 39}, NEW plus \in BOOLEAN
    PROVE  RestorePsr(codes, plus) => IInv'
<1>. DEFINE CCR == TSTATE_ICC \cup TSTATE_XCC
            t == (word \ CCR) \cup codes
            kept == IF plus THEN codes ELSE codes \cap TSTATE_ICC
<1>. SUFFICES ASSUME RestorePsr(codes, plus) PROVE IInv'
  BY Zenon
<1>1. /\ kind = "psr" /\ kind' = "psr" /\ kind \in Kinds /\ Width["psr"] = 64
      /\ word \subseteq Bits(64) /\ stored' = [codes |-> kept]
  BY KindFacts DEF RestorePsr, Change, IInv, TypeOK
<1>2. codes \subseteq CCR /\ CCR \subseteq Bits(64) /\ TSTATE_ICC \subseteq CCR
  BY DEF TSTATE_ICC, TSTATE_XCC, Bits
<1>3. t \cap CCR = codes /\ t \cap TSTATE_ICC = codes \cap TSTATE_ICC
  BY <1>2, Zenon
<1>4. psr_to_tstate_icc(IF plus THEN tstate_to_psr(t) ELSE tstate_to_psr(t) \ PSR_V8PLUS) = kept
  <2>. HIDE DEF t
  <2>1. CASE plus BY <1>3, <2>1, Psr, Zenon
  <2>2. CASE ~plus BY <1>3, <2>2, Psr, Zenon
  <2>. QED BY <2>1, <2>2, Zenon
<1>5. word' = (word \ CCR) \cup kept
  BY <1>4, Zenon DEF RestorePsr, Change
<1>6. kept \subseteq CCR BY <1>2, Zenon
<1>7. word' \subseteq Bits(64) /\ word' \cap CCR = kept
  <2>. HIDE DEF CCR, kept
  <2>. QED BY <1>1, <1>2, <1>5, <1>6, Zenon
<1>8. TypeOK' BY <1>1, <1>7, Zenon DEF TypeOK
<1>9. Control' BY <1>1, <1>7, Zenon DEF Control
<1>. QED BY <1>1, <1>8, <1>9, OnlyKind, Zenon DEF IInv

\* Words turned round in place.
LEMMA RawStep ==
    ASSUME IInv, NEW m \in Machines, NEW n \in {16, 32, 64}
    PROVE  (SwabInPlace(m, n) \/ SwapHalves(m)) => IInv'
<1>. SUFFICES ASSUME SwabInPlace(m, n) \/ SwapHalves(m) PROVE IInv'
  BY Zenon
<1>1. /\ kind = "raw" /\ kind' = "raw" /\ kind \in Kinds /\ Width["raw"] = 64
      /\ word \in SUBSET Bits(64)
  BY KindFacts DEF SwabInPlace, SwapHalves, Change, IInv, TypeOK
<1>2. PICK k \in {16, 32, 64} :
         /\ word' = (word \ Bits(k)) \cup Reversed(k, word)
         /\ stored' = [word |-> (word \ Bits(k)) \cup Reversed(k, word)]
  <2>1. CASE SwabInPlace(m, n)
    <3>1. swabs(m, n, word) = Reversed(n, word)
      BY InPlace
    <3>2. /\ word' = (word \ Bits(n)) \cup swabs(m, n, word)
          /\ stored' = [word |-> (word \ Bits(n)) \cup Reversed(n, word)]
      BY <2>1, Zenon DEF SwabInPlace, Change
    <3>. QED BY <3>1, <3>2, Zenon
  <2>2. CASE SwapHalves(m)
    <3>1. swahb32s(m, swahw32s(m, word)) = Reversed(32, word)
      BY HalvesInPlace
    <3>2. /\ word' = (word \ Bits(32)) \cup swahb32s(m, swahw32s(m, word))
          /\ stored' = [word |-> (word \ Bits(32)) \cup Reversed(32, word)]
      BY <2>2, Zenon DEF SwapHalves, Change
    <3>. QED BY <3>1, <3>2, Zenon
  <2>. QED BY <2>1, <2>2, Zenon
<1>3. word' \subseteq Bits(64) BY <1>1, <1>2, RawWidth
<1>4. TypeOK' BY <1>1, <1>3, Zenon DEF TypeOK
<1>5. Raw' BY <1>2, Zenon DEF Raw
<1>. QED BY <1>1, <1>4, <1>5, OnlyKind, Zenon DEF IInv

\* Every initial word has the fields it is said to have.
LEMMA InitIInv == Init => IInv
<1>. SUFFICES ASSUME Init PROVE IInv
  BY Zenon
<1>0. kind \in Kinds BY ZenonT(30) DEF Init
<1>1. /\ kind \in DOMAIN BitmaskKinds => Header /\ Address /\ Disk /\ Map /\ Control /\ Raw
      /\ kind = "tcmu" => Packed /\ Address /\ Disk /\ Map /\ Control /\ Raw
      /\ kind = "sockaddr" => Packed /\ Header /\ Disk /\ Map /\ Control /\ Raw
      /\ kind \in DOMAIN NilfsFlag => Packed /\ Header /\ Address /\ Map /\ Control /\ Raw
      /\ kind = "chunkmap" => Packed /\ Header /\ Address /\ Disk /\ Control /\ Raw
      /\ kind \in {"ieee", "psr"} => Packed /\ Header /\ Address /\ Disk /\ Map /\ Raw
      /\ kind = "raw" => Packed /\ Header /\ Address /\ Disk /\ Map /\ Control
  <2>1. Packed \/ kind \in {"bkey", "ptr", "cache", "bdev"} BY KindFacts DEF Packed
  <2>2. Header \/ kind = "tcmu" BY Zenon DEF Header
  <2>3. Address \/ kind = "sockaddr" BY Zenon DEF Address
  <2>4. Disk \/ kind \in {"checkpoint", "segment"} BY KindFacts DEF Disk
  <2>5. Map \/ kind = "chunkmap" BY Zenon DEF Map
  <2>6. Control \/ kind \in {"ieee", "psr"} BY Zenon DEF Control
  <2>7. Raw \/ kind = "raw" BY Zenon DEF Raw
  <2>. QED BY <2>1, <2>2, <2>3, <2>4, <2>5, <2>6, <2>7, KindFacts
<1>2. CASE kind \in DOMAIN BitmaskKinds
  <2>1. word = {} /\ stored = [f \in BitmaskKinds[kind] |-> {}]
    <3>1. kind \in {"bkey", "ptr", "cache", "bdev"} /\ DOMAIN NilfsFlag = {"checkpoint", "segment"}
      BY <1>2, KindFacts
    <3>2. kind \notin {"tcmu", "sockaddr", "chunkmap", "ieee", "psr", "raw"} /\ kind \notin DOMAIN NilfsFlag
      BY <3>1
    <3>. QED BY <3>2, Zenon DEF Init
  <2>2. Packed BY <2>1, Zenon DEF Packed, get_bitmask, Shr
  <2>3. TypeOK BY <1>0, <2>1, Zenon DEF TypeOK
  <2>. QED BY <1>1, <1>2, <2>2, <2>3, Zenon DEF IInv
<1>3. CASE kind = "tcmu"
  <2>1. word = {} /\ stored = [op |-> {}, len |-> {}]
    <3>1. kind \notin DOMAIN BitmaskKinds /\ kind \notin DOMAIN NilfsFlag
      BY <1>3, KindFacts
    <3>. QED BY <1>3, <3>1, Zenon DEF Init
  <2>2. Header
    <3>1. tcmu_hdr_get_op(word) = {} /\ tcmu_hdr_get_len(word) = {}
      BY <2>1 DEF tcmu_hdr_get_op, tcmu_hdr_get_len
    <3>. QED BY <2>1, <3>1, Zenon DEF Header
  <2>3. TypeOK BY <1>0, <2>1, Zenon DEF TypeOK
  <2>. QED BY <1>1, <1>3, <2>2, <2>3, Zenon DEF IInv
<1>4. CASE kind \in DOMAIN NilfsFlag
  <2>1. word \subseteq Bits(32) /\ stored.flags = word
    <3>1. kind \in {"checkpoint", "segment"} /\ DOMAIN BitmaskKinds = {"bkey", "ptr", "cache", "bdev"}
      BY <1>4, KindFacts
    <3>2. kind \notin {"tcmu", "sockaddr", "chunkmap", "ieee", "psr", "raw"} /\ kind \notin DOMAIN BitmaskKinds
      BY <3>1
    <3>3. word \in {Low(32, i) : i \in Images} /\ stored = [flags |-> word]
      BY <3>2, Zenon DEF Init
    <3>. QED BY <3>3 DEF Low
  <2>2. Disk BY <2>1, Zenon DEF Disk
  <2>3. TypeOK BY <1>0, <1>4, <2>1, KindFacts DEF TypeOK
  <2>. QED BY <1>1, <1>4, <2>2, <2>3, Zenon DEF IInv
<1>5. CASE kind = "chunkmap"
  <2>1. OtherTypes \in SUBSET (0..255) /\ ChunkTypes \in SUBSET (0..255)
    BY StoredAssumption, Zenon DEF OtherTypes
  <2>2. {ChunkBit(t) : t \in OtherTypes} = OtherTypes
    <3>1. \A t \in OtherTypes : ChunkBit(t) = t BY <2>1, ChunkBits
    <3>. QED BY <3>1, Zenon
  <2>3. SCTP_CHUNKMAP_SET_ALL \ OtherTypes = ChunkTypes \cup Beyond
    <3>1. SCTP_CHUNKMAP_SET_ALL = Bits(2048) BY DEF SCTP_CHUNKMAP_SET_ALL, ChunkWords
    <3>2. PICK T : T = 0..255 BY Zenon
    <3>3. OtherTypes = T \ ChunkTypes /\ ChunkTypes \subseteq T BY <2>1, <3>2, Zenon DEF OtherTypes
    <3>4. Bits(2048) = T \cup Beyond /\ \A b \in Beyond : b \notin T BY <3>2, BitsOfMap
    <3>. QED BY <3>1, <3>3, <3>4
  <2>4. \/ word = {} /\ stored = [types |-> {}]
        \/ word = OtherTypes /\ stored = [types |-> OtherTypes]
        \/ word = ChunkTypes \cup Beyond /\ stored = [types |-> ChunkTypes]
    <3>1. /\ kind \notin DOMAIN BitmaskKinds /\ kind \notin DOMAIN NilfsFlag
          /\ kind \notin {"tcmu", "sockaddr", "ieee", "psr", "raw"}
      BY <1>5, KindFacts
    <3>2. \/ word = SCTP_CHUNKMAP_RESET /\ stored = [types |-> {}]
          \/ /\ word = {ChunkBit(t) : t \in OtherTypes}
             /\ stored = [types |-> OtherTypes]
          \/ /\ word = SCTP_CHUNKMAP_SET_ALL \ {ChunkBit(t) : t \in OtherTypes}
             /\ stored = [types |-> ChunkTypes]
      BY <3>1, Zenon DEF Init
    <3>. QED BY <2>2, <2>3, <3>2, Zenon DEF SCTP_CHUNKMAP_RESET
  <2>5. Map
    <3>0. {} \in SUBSET (0..255) BY Zenon
    <3>1. CASE word = {} /\ stored = [types |-> {}]
      BY <3>0, <3>1, Zenon DEF Map
    <3>2. CASE word = OtherTypes /\ stored = [types |-> OtherTypes]
      BY <2>1, <3>2, Zenon DEF Map
    <3>3. CASE word = ChunkTypes \cup Beyond /\ stored = [types |-> ChunkTypes]
      BY <2>1, <3>3, Zenon DEF Map
    <3>. QED BY <2>4, <3>1, <3>2, <3>3, Zenon
  <2>6. word \subseteq Bits(2048)
    <3>1. OtherTypes \subseteq Bits(2048) /\ ChunkTypes \subseteq Bits(2048)
      BY <2>1, BitsOfMap
    <3>. QED BY <2>4, <3>1, BitsOfMap
  <2>7. TypeOK BY <1>0, <1>5, <2>6, KindFacts DEF TypeOK
  <2>. QED BY <1>1, <1>5, <2>5, <2>7, Zenon DEF IInv
<1>6. CASE kind = "sockaddr"
  <2>1. word = {} /\ stored = [addr |-> {}, port |-> {}, resource |-> {}]
    <3>1. kind \notin DOMAIN BitmaskKinds /\ kind \notin DOMAIN NilfsFlag
      BY <1>6, KindFacts
    <3>. QED BY <1>6, <3>1, Zenon DEF Init
  <2>2. Address
    BY <2>1, Zenon DEF Address, pn_sockaddr_get_addr, pn_sockaddr_get_port, spn_resource, spn_dev,
       spn_obj, Low, Shr, Shl
  <2>3. TypeOK BY <1>0, <2>1, Zenon DEF TypeOK
  <2>. QED BY <1>1, <1>6, <2>2, <2>3, Zenon DEF IInv
<1>7. CASE kind = "ieee"
  <2>1. word = ieee_swcr_to_fpcr({}) /\ stored = [control |-> {}]
    <3>1. kind \notin DOMAIN BitmaskKinds /\ kind \notin DOMAIN NilfsFlag
      BY <1>7, KindFacts
    <3>. QED BY <1>7, <3>1, Zenon DEF Init
  <2>2. word \subseteq Bits(64) BY <2>1, Inside, Zenon
  <2>3. Control BY <1>7, <2>1, Zenon DEF Control
  <2>4. TypeOK BY <1>0, <1>7, <2>2, KindFacts DEF TypeOK
  <2>. QED BY <1>1, <1>7, <2>3, <2>4, Zenon DEF IInv
<1>8. CASE kind = "psr"
  <2>1. word \in {{}, TSTATE_CWP \cup {TSTATE_SYSCALL}} /\ stored = [codes |-> {}]
    <3>1. kind \notin DOMAIN BitmaskKinds /\ kind \notin DOMAIN NilfsFlag
      BY <1>8, KindFacts
    <3>. QED BY <1>8, <3>1, Zenon DEF Init
  <2>2. word \subseteq Bits(64) /\ word \cap (TSTATE_ICC \cup TSTATE_XCC) = {}
    BY <2>1 DEF TSTATE_CWP, TSTATE_SYSCALL, TSTATE_ICC, TSTATE_XCC, Bits
  <2>3. Control BY <1>8, <2>1, <2>2, Zenon DEF Control
  <2>4. TypeOK BY <1>0, <1>8, <2>2, KindFacts DEF TypeOK
  <2>. QED BY <1>1, <1>8, <2>3, <2>4, Zenon DEF IInv
<1>9. CASE kind = "raw"
  <2>1. word \subseteq Bits(64) /\ stored = [word |-> word]
    <3>1. kind \notin DOMAIN BitmaskKinds /\ kind \notin DOMAIN NilfsFlag
      BY <1>9, KindFacts
    <3>. QED BY <1>9, <3>1, StoredAssumption, Zenon DEF Init
  <2>2. Raw BY <2>1, Zenon DEF Raw
  <2>3. TypeOK BY <1>0, <1>9, <2>1, KindFacts DEF TypeOK
  <2>. QED BY <1>1, <1>9, <2>2, <2>3, Zenon DEF IInv
<1>. QED BY <1>2, <1>3, <1>4, <1>5, <1>6, <1>7, <1>8, <1>9, Zenon DEF Init

\* Every call of an accessor keeps the invariant.
LEMMA NextIInv == IInv /\ [Next]_vars => IInv'
<1>. SUFFICES ASSUME IInv, [Next]_vars PROVE IInv'
  BY Zenon
<1>1. CASE UNCHANGED vars
  BY <1>1 DEF vars, IInv, TypeOK, Packed, Header, Address, Disk, Map, Control, Raw
<1>2. CASE Next
  <2>1. CASE \E f \in DOMAIN Bitmask : \E v \in Values(Bitmask[f][2]) : SetBitmask(f, v)
    BY <2>1, BcacheStep, Zenon
  <2>2. CASE \E inode \in Values(20), size \in Values(16) :
                MakeKey(Low(20, inode), Low(16, size))
    <3>1. "KEY_PTRS" \in DOMAIN Bitmask BY Zenon DEF Bitmask
    <3>. QED BY <2>2, <3>1, BcacheStep, Zenon
  <2>3. CASE \E gen \in Values(8), offset \in Values(43), dev \in Values(12) :
                MakePtr(Low(8, gen), Low(43, offset), Low(12, dev))
    <3>1. "KEY_PTRS" \in DOMAIN Bitmask BY Zenon DEF Bitmask
    <3>. QED BY <2>3, <3>1, BcacheStep, Zenon
  <2>4. CASE \/ \E op \in Values(3) : SetOp(op)
             \/ \E len \in Values(31) : SetLen(Low(32, len) \ TCMU_OP_MASK)
    BY <2>4, HeaderStep, Zenon
  <2>5. CASE \/ \E m \in Machines, flag \in 0..3 : SetFlag(m, flag) \/ ClearFlag(m, flag)
             \/ \E m \in Machines : SetClean(m)
    <3>1. 0 \in 0..3 OBVIOUS
    <3>. QED BY <2>5, <3>1, DiskStep, Zenon
  <2>6. CASE \E t \in ChunkTypes : SetChunk(t) \/ ClearChunk(t)
    BY <2>6, MapStep, Zenon
  <2>7. CASE ResetChunks \/ SetAllChunks
    BY <2>7, WholeMapStep, Zenon
  <2>8. CASE \/ \E addr \in Values(7) : SetAddr(Low(8, addr))
             \/ \E port \in Values(10) : SetPort(Low(16, port))
             \/ \E addr \in Values(7), port \in Values(10) :
                   SetObject(Low(8, addr), Low(16, port))
             \/ \E res \in Values(7) : SetResource(Low(8, res))
    BY <2>8, AddressStep, Zenon
  <2>9. CASE \E sw \in Controls : SetControl(sw)
    BY <2>9, ControlStep, Zenon
  <2>10. CASE \E codes \in SUBSET {32, 35, 36, 39}, plus \in BOOLEAN : RestorePsr(codes, plus)
    BY <2>10, PsrStep, Zenon
  <2>11. CASE \/ \E m \in Machines, n \in {16, 32, 64} : SwabInPlace(m, n)
              \/ \E m \in Machines : SwapHalves(m)
    <3>1. 16 \in {16, 32, 64} BY Zenon
    <3>. QED BY <2>11, <3>1, RawStep, Zenon
  <2>. QED
    BY <1>2, <2>1, <2>2, <2>3, <2>4, <2>5, <2>6, <2>7, <2>8, <2>9, <2>10, <2>11, Zenon DEF Next
<1>. QED BY <1>1, <1>2, Zenon

\* The inductive invariant holds of every behaviour.
LEMMA Kept == Spec => []IInv
BY InitIInv, NextIInv, PTL DEF Spec

\* No accessor of a packed word reaches past the word, whatever the calls,
\* their order and the values passed.
THEOREM KeepsWidth == Spec => []TypeOK
<1>1. IInv => TypeOK BY Zenon DEF IInv
<1>. QED BY <1>1, Kept, PTL

\* Every getter of bcache.h, target_core_user.h and phonet.h returns what was
\* last stored in its own field, for any values and any order of the calls.
THEOREM ReadsBack == Spec => []FieldsRead
<1>1. IInv => FieldsRead
  <2>. SUFFICES ASSUME IInv PROVE FieldsRead
    BY Zenon
  <2>1. CASE kind # "sockaddr" BY <2>1, Zenon DEF IInv, Packed, Header, FieldsRead
  <2>2. CASE kind = "sockaddr"
    <3>1. word \in SUBSET Bits(24) BY <2>2, KindFacts DEF IInv, TypeOK
    <3>2. pn_sockaddr_get_object(word)
            = pn_object(pn_sockaddr_get_addr(word), pn_sockaddr_get_port(word))
      BY <3>1, SockAddr, Zenon
    <3>. QED BY <2>2, <3>2, KindFacts DEF IInv, Address, FieldsRead
  <2>. QED BY <2>1, <2>2, Zenon
<1>. QED BY <1>1, Kept, PTL

\* The flags nilfs2 keeps on disk read the same on every machine, whichever
\* machines wrote them, for any set of machines and any image.
THEOREM DiskOrder == Spec => []FlagsOnDisk
<1>1. IInv => FlagsOnDisk
  <2>. SUFFICES ASSUME IInv, kind \in DOMAIN NilfsFlag, NEW m \in Machines
                PROVE  /\ nilfs_flags(m, word) = stored.flags
                       /\ nilfs_segment_usage_clean(m, word) <=> stored.flags = {}
    BY Zenon DEF FlagsOnDisk
  <2>1. word \subseteq Bits(32) /\ word = stored.flags
    BY KindFacts DEF IInv, TypeOK, Disk
  <2>2. Low(32, word) = word BY <2>1, Zenon DEF Low
  <2>3. nilfs_flags(m, word) = word BY <2>2, Orders DEF nilfs_flags
  <2>. QED BY <2>1, <2>3, Zenon DEF nilfs_segment_usage_clean
<1>. QED BY <1>1, Kept, PTL

\* Any sequence of in-place swabs leaves the bytes a plain reversal would, and
\* every conversion between the orders is right, on every machine.
THEOREM AllSwabsAgree == Spec => []SwabsAgree
<1>1. IInv => SwabsAgree
  <2>. SUFFICES ASSUME IInv, kind = "raw"
                PROVE  /\ word = stored.word
                       /\ \A m \in Machines, n \in {16, 32, 64} :
                            /\ swab(m, n, Low(n, word)) = Reversed(n, word)
                            /\ le_to_cpu(m, n, Load(m, n, word)) = Low(n, word)
                            /\ be_to_cpu(m, n, Load(m, n, word)) = Reversed(n, word)
                            /\ Store(m, n, cpu_to_le(m, n, Low(n, word))) = Low(n, word)
                            /\ Store(m, n, cpu_to_be(m, n, Low(n, word))) = Reversed(n, word)
    BY Zenon DEF SwabsAgree
  <2>1. word = stored.word BY Zenon DEF IInv, Raw
  <2>2. ASSUME NEW m \in Machines, NEW n \in {16, 32, 64}
        PROVE  swab(m, n, Low(n, word)) = Reversed(n, word)
    <3>1. PICK x \in SUBSET Bits(n) : x = Low(n, word) BY Zenon DEF Low
    <3>2. swab(m, n, x) = Reversed(n, x) BY MachineSwab
    <3>3. Reversed(n, x) = Reversed(n, word) BY <3>1 DEF Reversed, Low, Bits
    <3>. QED BY <3>1, <3>2, <3>3, Zenon
  <2>. QED BY <2>1, <2>2, Orders
<1>. QED BY <1>1, Kept, PTL

\* The chunk map answers for each type what was last done to it, and what the
\* two loops over the array say of the whole map is true of every type.
THEOREM ChunksAnswered == Spec => []ChunkMapTrue
<1>1. IInv => ChunkMapTrue
  <2>. SUFFICES ASSUME IInv, kind = "chunkmap"
                PROVE  /\ \A t \in 0..255 : SCTP_CHUNKMAP_IS_SET(word, t) <=> t \in stored.types
                       /\ sctp_chunkmap_is_clear(word) => stored.types = {}
                       /\ sctp_chunkmap_is_all_set(word) => stored.types = 0..255
    BY Zenon DEF ChunkMapTrue
  <2>1. word \in SUBSET Bits(2048) /\ Map BY KindFacts DEF IInv, TypeOK
  <2>2. PICK a \in SUBSET (0..255) : a = stored.types BY <2>1 DEF Map
  <2>3. PICK e \in {{}, Beyond} : word = a \cup e
    BY <2>1, <2>2 DEF Map
  <2>4. \A t \in 0..255 : t \notin e BY <2>3, BitsOfMap
  <2>5. \A t \in 0..255 : SCTP_CHUNKMAP_IS_SET(word, t) <=> t \in stored.types
    BY <2>2, <2>3, <2>4, ChunkBits DEF SCTP_CHUNKMAP_IS_SET
  <2>6. sctp_chunkmap_is_clear(word) => stored.types = {}
    <3>1. sctp_chunkmap_is_clear(word) => word = {} BY <2>1, ChunkLoops DEF ChunkWords
    <3>. QED BY <2>2, <2>3, <3>1, Zenon
  <2>7. ASSUME sctp_chunkmap_is_all_set(word) PROVE stored.types = 0..255
    <3>1. word = Bits(2048) BY <2>1, <2>7, ChunkLoops DEF ChunkWords
    <3>2. ASSUME NEW t \in 0..255 PROVE t \in a
      <4>1. t \in word BY <3>1, BitsOfMap
      <4>. QED BY <2>3, <2>4, <4>1, Zenon
    <3>. QED BY <2>2, <3>2, Zenon
  <2>. QED BY <2>5, <2>6, <2>7, Zenon
<1>. QED BY <1>1, Kept, PTL

\* The Alpha's control word and SPARC's condition codes come back from the
\* other format as fpu.h and psrcompat.h keep them.
THEOREM ControlsSurvive == Spec => []ControlSurvives
<1>1. IInv => ControlSurvives
  BY Ieee, Zenon DEF IInv, Control, ControlSurvives
<1>. QED BY <1>1, Kept, PTL

-----------------------------------------------------------------------------
\* The backing store of ia64, with the theorems about sequences.
INSTANCE SequenceTheorems

(* 63 registers in every group of 64 slots: m registers fill q groups and  *)
(* r slots of another.                                                     *)
LEMMA Groups ==
  ASSUME NEW m \in Nat
  PROVE  \E q \in Nat, r \in 0..62 : m = 63 * q + r
<1>1. /\ m = 63 * (m \div 63) + (m % 63)
      /\ m \div 63 \in Nat /\ m % 63 \in 0..62
  OBVIOUS
<1>. QED
  BY <1>1, Zenon

LEMMA Slots ==
  ASSUME NEW a \in Nat
  PROVE  /\ a % 64 \in 0..63
         /\ \E d \in Nat : a = 64 * d + (a % 64)
<1>1. a = 64 * (a \div 64) + (a % 64) /\ a \div 64 \in Nat /\ a % 64 \in 0..63
  OBVIOUS
<1>. QED
  BY <1>1, Zenon

(* Division and remainder are unique. *)
LEMMA Unique63 ==
  ASSUME NEW q \in Int, NEW r \in 0..62, NEW m \in Int, m = 63 * q + r
  PROVE  m \div 63 = q
OBVIOUS

LEMMA Unique64 ==
  ASSUME NEW q \in Int, NEW r \in 0..63, NEW a \in Int, a = 64 * q + r
  PROVE  a \div 64 = q /\ a % 64 = r
OBVIOUS

LEMMA Splits ==
  ASSUME NEW a \in Nat, NEW n \in Nat
  PROVE  \E q \in Nat, r \in 0..62 : (a % 64) + n = 63 * q + r
<1>1. PICK m \in Nat : m = (a % 64) + n
  BY Slots
<1>2. \E q \in Nat, r \in 0..62 : m = 63 * q + r
  BY Groups, Zenon
<1>. QED
  BY <1>1, <1>2, Zenon

(* The register n after the one at a comes after q full groups, at slot r, *)
(* which is at address p.                                                  *)
Placed(a, n, q, r, p) == (a % 64) + n = 63 * q + r /\ p = a + n + q

(* skip_regs forwards: its slot is that of the register among the 63 of a  *)
(* group, and never that of the NaT bits.                                  *)
LEMMA SkipForward ==
  ASSUME NEW a \in Nat, NEW n \in Nat, NEW q \in Nat, NEW r \in 0..62, NEW p \in Nat,
         Placed(a, n, q, r, p)
  PROVE  ia64_rse_skip_regs(a, n) = p /\ p % 64 = r
<1>0. (a % 64) + n = 63 * q + r /\ p = a + n + q
  BY Zenon DEF Placed
<1>1. a % 64 \in 0..63
  BY Slots, Zenon
<1>2. PICK d \in Nat : a = 64 * d + (a % 64)
  BY Slots, Zenon
<1>3. (a % 64) + n \in Nat
  BY <1>1
<1>4. ((a % 64) + n) \div 63 = q
  BY <1>0, <1>3, Unique63
<1>5. ia64_rse_skip_regs(a, n) = a + n + CDiv(((a % 64) + n) - 0, 63)
  BY DEF ia64_rse_skip_regs, ia64_rse_slot_num
<1>6. CDiv(((a % 64) + n) - 0, 63) = q
  <2>1. ((a % 64) + n) - 0 = (a % 64) + n
    BY <1>3
  <2>. QED
    BY <1>3, <1>4, <2>1 DEF CDiv
<1>7. p = 64 * (d + q) + r
  BY <1>0, <1>1, <1>2
<1>8. p % 64 = r
  BY <1>7
<1>. QED
  BY <1>0, <1>5, <1>6, <1>8, Zenon

(* num_regs undoes skip_regs. *)
LEMMA NumSkip ==
  ASSUME NEW a \in Nat, NEW n \in Nat
  PROVE  ia64_rse_num_regs(a, ia64_rse_skip_regs(a, n)) = n
<1>1. a % 64 \in 0..63
  BY Slots, Zenon
<1>2. PICK q \in Nat, r \in 0..62 : (a % 64) + n = 63 * q + r
  BY Splits, ZenonT(30)
<1>3. PICK p \in Nat : p = a + n + q
  OBVIOUS
<1>0. ia64_rse_skip_regs(a, n) = p
  <2>1. Placed(a, n, q, r, p)
    BY <1>2, <1>3, Zenon DEF Placed
  <2>. QED
    BY <2>1, SkipForward, Zenon
<1>4. (a % 64) + (n + q) = 64 * q + r
  BY <1>1, <1>2
<1>5. ((a % 64) + (n + q)) \div 64 = q
  BY <1>1, <1>4, Unique64
<1>6. p - a = n + q
  BY <1>3
<1>7. ia64_rse_num_regs(a, p) = (n + q) - (((a % 64) + (n + q)) \div 64)
  BY <1>6, Zenon DEF ia64_rse_num_regs, ia64_rse_slot_num
<1>. QED
  BY <1>0, <1>5, <1>7

(* From one register to another, forwards. *)
LEMMA SkipOn ==
  ASSUME NEW a \in Nat, NEW n \in Nat, NEW k \in Nat, NEW m \in Nat, m = n + k
  PROVE  ia64_rse_skip_regs(ia64_rse_skip_regs(a, n), k) = ia64_rse_skip_regs(a, m)
<1>1. a % 64 \in 0..63
  BY Slots, Zenon
<1>2. PICK q \in Nat, r \in 0..62 : (a % 64) + n = 63 * q + r
  BY Splits, ZenonT(30)
<1>3. PICK p \in Nat : p = a + n + q
  OBVIOUS
<1>4. ia64_rse_skip_regs(a, n) = p /\ p % 64 = r
  <2>1. Placed(a, n, q, r, p)
    BY <1>2, <1>3, Zenon DEF Placed
  <2>. QED
    BY <2>1, SkipForward, Zenon
<1>5. PICK t \in Nat, u \in 0..62 : r + k = 63 * t + u
  BY Groups
<1>9. PICK z \in Nat : z = p + k + t
  OBVIOUS
<1>6. ia64_rse_skip_regs(p, k) = z
  <2>1. Placed(p, k, t, u, z)
    BY <1>4, <1>5, <1>9, Zenon DEF Placed
  <2>. QED
    BY <2>1, SkipForward, Zenon
<1>7. PICK v \in Nat : v = q + t
  OBVIOUS
<1>8. ia64_rse_skip_regs(a, m) = z
  <2>1. Placed(a, m, v, u, z)
    BY <1>1, <1>2, <1>3, <1>5, <1>7, <1>9 DEF Placed
  <2>. QED
    BY <2>1, SkipForward, Zenon
<1>. QED
  BY <1>4, <1>6, <1>8, Zenon

(* And back: the correction makes the division round up. *)
LEMMA SkipBack ==
  ASSUME NEW a \in Nat, NEW n \in Nat, NEW k \in Nat, NEW m \in Nat, m = n + k
  PROVE  ia64_rse_skip_regs(ia64_rse_skip_regs(a, m), -k) = ia64_rse_skip_regs(a, n)
<1>1. a % 64 \in 0..63
  BY Slots, Zenon
<1>2. PICK q \in Nat, r \in 0..62 : (a % 64) + m = 63 * q + r
  BY ONLY a \in Nat, m \in Nat, Splits
<1>3. PICK p \in Nat : p = a + m + q
  OBVIOUS
<1>4. ia64_rse_skip_regs(a, m) = p /\ p % 64 = r
  <2>1. Placed(a, m, q, r, p)
    BY <1>2, <1>3, Zenon DEF Placed
  <2>. QED
    BY <2>1, SkipForward, Zenon
<1>5. CASE k = 0
  <2>1. m = n /\ n = n + k
    BY <1>5
  <2>2. -k = 0 - k
    OBVIOUS
  <2>3. -k = k
    BY <1>5, <2>2
  <2>. QED
    BY <2>1, <2>3, SkipOn
<1>6. CASE k > 0
  <2>1. PICK j \in Nat : j = (k - r) + 62
    OBVIOUS
  <2>2. PICK t \in Nat, u \in 0..62 : j = 63 * t + u
    BY Groups, Zenon
  <2>3. j \div 63 = t
    BY <2>2, Unique63
  <2>4. ia64_rse_skip_regs(p, -k) = p + (-k) + CDiv((r + (-k)) - 62, 63)
    <3>1. -k < 0
      BY <1>6
    <3>. QED
      BY <1>4, <3>1 DEF ia64_rse_skip_regs, ia64_rse_slot_num
  <2>5. CDiv((r + (-k)) - 62, 63) = -t
    <3>1. -((r + (-k)) - 62) = j /\ ~((r + (-k)) - 62 >= 0)
      BY <1>6, <2>1
    <3>. QED
      BY <2>3, <3>1, Zenon DEF CDiv
  <2>6. PICK v \in Int : v = q - t
    OBVIOUS
  <2>7. PICK w \in 0..62 : w = 62 - u
    OBVIOUS
  <2>8. (a % 64) + n = 63 * v + w
    BY <1>1, <1>2, <2>1, <2>2, <2>6, <2>7
  <2>9. v \in Nat
    BY <1>1, <2>8
  <2>11. PICK z \in Nat : z = a + n + v
    BY <2>9
  <2>10. ia64_rse_skip_regs(a, n) = z
    <3>1. Placed(a, n, v, w, z)
      BY <2>8, <2>11, Zenon DEF Placed
    <3>. QED
      BY <2>9, <3>1, SkipForward, Zenon
  <2>12. p + (-k) + (-t) = z
    BY <1>3, <2>6, <2>11
  <2>. QED
    BY <1>4, <2>4, <2>5, <2>10, <2>12, Zenon
<1>. QED
  BY <1>5, <1>6

(* The next register goes to the next slot, or to the one after it when    *)
(* that is for NaT bits.                                                   *)
LEMMA SkipNext ==
  ASSUME NEW a \in Nat, NEW n \in Nat, NEW m \in Nat, m = n + 1
  PROVE  LET p == ia64_rse_skip_regs(a, n)
         IN  /\ p % 64 \in 0..62
             /\ p % 64 = 62 => ia64_rse_skip_regs(a, m) = p + 2
             /\ p % 64 # 62 => ia64_rse_skip_regs(a, m) = p + 1
<1>1. a % 64 \in 0..63
  BY Slots, Zenon
<1>2. PICK q \in Nat, r \in 0..62 : (a % 64) + n = 63 * q + r
  BY Splits, ZenonT(30)
<1>3. PICK p \in Nat : p = a + n + q
  OBVIOUS
<1>4. ia64_rse_skip_regs(a, n) = p /\ p % 64 = r
  <2>1. Placed(a, n, q, r, p)
    BY <1>2, <1>3, Zenon DEF Placed
  <2>. QED
    BY <2>1, SkipForward
<1>5. ASSUME r = 62 PROVE ia64_rse_skip_regs(a, m) = p + 2
  <2>1. PICK v \in Nat : v = q + 1
    OBVIOUS
  <2>2. PICK z \in Nat : z = p + 2
    OBVIOUS
  <2>3. Placed(a, m, v, 0, z) /\ 0 \in 0..62
    BY <1>1, <1>2, <1>3, <1>4, <1>5, <2>1, <2>2 DEF Placed
  <2>. QED
    BY <2>2, <2>3, SkipForward, Zenon
<1>6. ASSUME r # 62 PROVE ia64_rse_skip_regs(a, m) = p + 1
  <2>1. PICK v \in 0..62 : v = r + 1
    BY <1>6
  <2>2. PICK z \in Nat : z = p + 1
    OBVIOUS
  <2>3. Placed(a, m, q, v, z)
    BY <1>1, <1>2, <1>3, <1>4, <2>1, <2>2 DEF Placed
  <2>. QED
    BY <2>2, <2>3, SkipForward, Zenon
<1>. QED
  BY <1>4, <1>5, <1>6, Zenon

(* The slot after another. *)
LEMMA SlotNext ==
  ASSUME NEW a \in Nat
  PROVE  /\ a % 64 = 62 => (a + 1) % 64 = 63
         /\ a % 64 # 62 => (a + 1) % 64 # 63
         /\ a % 64 = 63 => (a + 1) % 64 = 0
<1>1. PICK s \in 0..63 : s = a % 64
  BY Slots, Zenon
<1>2. PICK d \in Nat : a = 64 * d + s
  BY <1>1, Slots, Zenon
<1>3. CASE s = 63
  BY <1>1, <1>2, <1>3
<1>4. CASE s # 63
  <2>1. (a + 1) % 64 = s + 1
    BY <1>2, <1>4
  <2>. QED
    BY <1>1, <1>4, <2>1
<1>. QED
  BY <1>3, <1>4, Zenon

(* skip_regs gives an address, with a slot for a register. *)
LEMMA SkipType ==
  ASSUME NEW a \in Nat, NEW n \in Nat
  PROVE  /\ ia64_rse_skip_regs(a, n) \in Nat
         /\ ia64_rse_skip_regs(a, n) >= a
         /\ ia64_rse_skip_regs(a, n) % 64 \in 0..62
<1>1. a % 64 \in 0..63
  BY Slots, Zenon
<1>2. PICK q \in Nat, r \in 0..62 : (a % 64) + n = 63 * q + r
  BY Splits, ZenonT(30)
<1>3. PICK p \in Nat : p = a + n + q
  OBVIOUS
<1>4. Placed(a, n, q, r, p)
  BY <1>2, <1>3, Zenon DEF Placed
<1>5. ia64_rse_skip_regs(a, n) = p /\ p % 64 = r
  BY <1>4, SkipForward, Zenon
<1>6. p >= a
  BY <1>3
<1>. QED
  BY <1>5, <1>6, Zenon

(* To pass the NaT bits is to pass no register. *)
LEMMA NumRnat ==
  ASSUME NEW a \in Nat, NEW b \in Nat, NEW c \in Nat, a <= b, c = b + 1, b % 64 = 63
  PROVE  ia64_rse_num_regs(a, b) = ia64_rse_num_regs(a, c)
<1>1. PICK s \in 0..63 : s = a % 64
  BY Slots, Zenon
<1>2. PICK d \in Nat : a = 64 * d + s
  BY <1>1, Slots, Zenon
<1>3. PICK e \in Nat : b = 64 * e + 63
  BY Slots, Zenon
<1>4. PICK x \in Int : x = s + (b - a)
  OBVIOUS
<1>5. PICK y \in Int : y = s + (c - a)
  OBVIOUS
<1>6. PICK f \in Int : f = e - d
  OBVIOUS
<1>7. PICK g \in Int : g = (e - d) + 1
  OBVIOUS
<1>8. x = 64 * f + 63 /\ y = 64 * g + 0
  BY <1>2, <1>3, <1>4, <1>5, <1>6, <1>7
<1>9. x \div 64 = f /\ y \div 64 = g
  BY <1>8
<1>10. ia64_rse_num_regs(a, b) = (b - a) - (x \div 64)
  BY <1>1, <1>4, Zenon DEF ia64_rse_num_regs, ia64_rse_slot_num
<1>11. ia64_rse_num_regs(a, c) = (c - a) - (y \div 64)
  BY <1>1, <1>5, Zenon DEF ia64_rse_num_regs, ia64_rse_slot_num
<1>12. (b - a) - f = (c - a) - g
  BY <1>6, <1>7
<1>. QED
  BY <1>9, <1>10, <1>11, <1>12, Zenon

(* The first NaT bits after a register. *)
LEMMA NextRnat ==
  ASSUME NEW p \in Nat, p % 64 \in 0..62
  PROVE  /\ ia64_rse_rnat_addr(p) \in Nat
         /\ ia64_rse_rnat_addr(p) > p
         /\ ia64_rse_rnat_addr(p) % 64 = 63
         /\ \A b \in Nat : b % 64 = 63 /\ b >= p => b >= ia64_rse_rnat_addr(p)
<1>1. PICK s \in 0..62 : s = p % 64
  BY Zenon
<1>2. PICK d \in Nat : p = 64 * d + s
  BY <1>1, Slots, Zenon
<1>3. PICK x \in Nat : x = 64 * d + 63
  OBVIOUS
<1>4. ia64_rse_rnat_addr(p) = x
  BY <1>1, <1>2, <1>3 DEF ia64_rse_rnat_addr, ia64_rse_slot_num
<1>5. x > p /\ x % 64 = 63
  BY <1>2, <1>3
<1>6. ASSUME NEW b \in Nat, b % 64 = 63, b >= p PROVE b >= x
  <2>1. PICK e \in Nat : b = 64 * e + 63
    BY <1>6, Slots, Zenon
  <2>2. e >= d
    BY <1>2, <1>6, <2>1
  <2>. QED
    BY <1>3, <2>1, <2>2
<1>. QED
  BY <1>4, <1>5, <1>6, Zenon

-----------------------------------------------------------------------------
(* The inductive invariant: the registers are where skip_regs says, the    *)
(* NaT bits in the slots between.                                          *)
StackInv ==
  /\ StackTypeOK
  /\ FindsRegisters
  /\ rnats = {a \in base..(bspstore - 1) : a % 64 = 63}

(* A sequence without its last element. *)
LEMMA FrontFacts ==
  ASSUME NEW s \in Seq(Nat), s # <<>>
  PROVE  LET t == SubSeq(s, 1, Len(s) - 1)
         IN  /\ t \in Seq(Nat) /\ Len(t) = Len(s) - 1
             /\ \A k \in 1..(Len(s) - 1) : t[k] = s[k]
<1>1. Len(s) \in Nat /\ Len(s) # 0
  OBVIOUS
<1>2. PICK j \in Nat : j = Len(s) - 1
  BY <1>1
<1>3. j \in (1 - 1)..Len(s) /\ 1 \in 1..(Len(s) + 1)
  BY <1>1, <1>2
<1>4. /\ SubSeq(s, 1, j) \in Seq(Nat)
      /\ Len(SubSeq(s, 1, j)) = IF 1 <= j THEN (j - 1) + 1 ELSE 0
      /\ \A i \in 1..((j - 1) + 1) : SubSeq(s, 1, j)[i] = s[(1 + i) - 1]
  BY <1>3, SubSeqProperties
<1>5. (j - 1) + 1 = j /\ \A i \in 1..j : (1 + i) - 1 = i
  OBVIOUS
<1>6. Len(SubSeq(s, 1, j)) = j
  BY <1>4, <1>5
<1>. QED
  BY <1>2, <1>4, <1>5, <1>6, Zenon

(* What FindsRegisters says of bspstore. *)
LEMMA Bspstore ==
  ASSUME StackInv
  PROVE  /\ bspstore % 64 # 63 => bspstore = ia64_rse_skip_regs(base, Len(regs))
         /\ bspstore % 64 = 63 => bspstore + 1 = ia64_rse_skip_regs(base, Len(regs))
BY Zenon DEF StackInv, FindsRegisters, ia64_rse_is_rnat_slot, ia64_rse_slot_num

LEMMA StackInitInv == EngineInit => StackInv
<1>. SUFFICES ASSUME EngineInit PROVE StackInv
  BY Zenon
<1>1. base \in Nat /\ bspstore = base /\ regs = <<>> /\ rnats = {}
  BY StartAssumption, Zenon DEF EngineInit
<1>2. StackTypeOK
  BY <1>1 DEF StackTypeOK
<1>3. ia64_rse_skip_regs(base, 0) = IF base % 64 = 63 THEN base + 1 ELSE base
  <2>1. PICK s \in 0..63 : s = base % 64
    BY <1>1, Slots, Zenon
  <2>2. CASE s = 63
    <3>1. PICK z \in Nat : z = base + 1
      BY <1>1
    <3>2. Placed(base, 0, 1, 0, z) /\ 0 \in 0..62
      BY <1>1, <2>1, <2>2, <3>1 DEF Placed
    <3>3. ia64_rse_skip_regs(base, 0) = z
      BY <1>1, <3>2, SkipForward, Zenon
    <3>. QED
      BY <2>1, <2>2, <3>1, <3>3, Zenon
  <2>3. CASE s # 63
    <3>1. Placed(base, 0, 0, s, base) /\ s \in 0..62
      BY <1>1, <2>1, <2>3 DEF Placed
    <3>2. ia64_rse_skip_regs(base, 0) = base
      BY <1>1, <3>1, SkipForward, Zenon
    <3>. QED
      BY <2>1, <2>3, <3>2, Zenon
  <2>. QED
    BY <2>2, <2>3, Zenon
<1>4. FindsRegisters
  BY <1>1, <1>3 DEF FindsRegisters, ia64_rse_is_rnat_slot, ia64_rse_slot_num
<1>5. rnats = {a \in base..(bspstore - 1) : a % 64 = 63}
  BY <1>1
<1>. QED
  BY <1>2, <1>4, <1>5, Zenon DEF StackInv

LEMMA SpillInv == ASSUME StackInv, Spill PROVE StackInv'
<1> DEFINE n == Len(regs)
<1>1. /\ base \in Nat /\ bspstore \in Nat /\ base <= bspstore /\ regs \in Seq(Nat) /\ n \in Nat
      /\ rnats \subseteq Nat
  BY DEF StackInv, StackTypeOK
<1>2. base' = base /\ rnats' = rnats /\ bspstore' = bspstore + 1 /\ regs' = Append(regs, bspstore)
  BY Zenon DEF Spill
<1>3. bspstore % 64 # 63
  BY Zenon DEF Spill, ia64_rse_is_rnat_slot, ia64_rse_slot_num
<1>4. bspstore = ia64_rse_skip_regs(base, n)
  BY <1>3, Bspstore, Zenon
<1>5. Len(regs') = n + 1 /\ n + 1 \in Nat
  BY <1>1, <1>2
<1>6. /\ bspstore % 64 \in 0..62
      /\ bspstore % 64 = 62 => ia64_rse_skip_regs(base, n + 1) = bspstore + 2
      /\ bspstore % 64 # 62 => ia64_rse_skip_regs(base, n + 1) = bspstore + 1
  <2>1. PICK m \in Nat : m = n + 1
    BY <1>5, Zenon
  <2>2. /\ bspstore % 64 \in 0..62
        /\ bspstore % 64 = 62 => ia64_rse_skip_regs(base, m) = bspstore + 2
        /\ bspstore % 64 # 62 => ia64_rse_skip_regs(base, m) = bspstore + 1
    <3>1. PICK l \in Nat : l = n
      BY <1>1, Zenon
    <3>2. m = l + 1 /\ bspstore = ia64_rse_skip_regs(base, l)
      BY <1>4, <2>1, <3>1, Zenon
    <3>. QED
      BY <1>1, <3>2, SkipNext
  <2>. QED
    BY <2>1, <2>2, Zenon
<1>7. /\ bspstore % 64 = 62 => (bspstore + 1) % 64 = 63
      /\ bspstore % 64 # 62 => (bspstore + 1) % 64 # 63
  BY <1>1, SlotNext, Zenon
<1>8. StackTypeOK'
  BY <1>1, <1>2 DEF StackTypeOK
<1>9. \A k \in 1..Len(regs') : ia64_rse_skip_regs(base, k - 1) = regs'[k]
  <2>1. ASSUME NEW k \in 1..Len(regs') PROVE ia64_rse_skip_regs(base, k - 1) = regs'[k]
    <3>1. CASE k = n + 1
      <4>1. regs'[k] = bspstore /\ k - 1 = n
        BY <1>1, <1>2, <3>1
      <4>. QED
        BY <1>4, <4>1, Zenon
    <3>2. CASE k # n + 1
      <4>1. k \in 1..n /\ regs'[k] = regs[k]
        BY <1>1, <1>2, <1>5, <3>2
      <4>. QED
        BY <4>1, Zenon DEF StackInv, FindsRegisters
    <3>. QED
      BY <3>1, <3>2, Zenon
  <2>. QED
    BY <2>1, Zenon
<1>10. ia64_rse_skip_regs(base, n + 1) =
         IF (bspstore + 1) % 64 = 63 THEN (bspstore + 1) + 1 ELSE bspstore + 1
  <2>1. (bspstore + 1) + 1 = bspstore + 2
    BY <1>1
  <2>. QED
    BY <1>6, <1>7, <2>1, Zenon
<1>11. FindsRegisters'
  BY <1>2, <1>5, <1>9, <1>10, Zenon DEF FindsRegisters, ia64_rse_is_rnat_slot, ia64_rse_slot_num
<1>12. rnats' = {a \in base..(bspstore' - 1) : a % 64 = 63}
  <2>1. base..(bspstore' - 1) = base..(bspstore - 1) \cup {bspstore}
    BY <1>1, <1>2
  <2>2. rnats' = {a \in base..(bspstore - 1) : a % 64 = 63}
    BY <1>2, Zenon DEF StackInv
  <2>. QED
    BY <1>3, <2>1, <2>2, Zenon
<1>. QED
  BY <1>2, <1>8, <1>11, <1>12, Zenon DEF StackInv

LEMMA SpillRnatInv == ASSUME StackInv, SpillRnat PROVE StackInv'
<1>1. /\ base \in Nat /\ bspstore \in Nat /\ base <= bspstore /\ regs \in Seq(Nat)
      /\ rnats \subseteq Nat
  BY Zenon DEF StackInv, StackTypeOK
<1>2. base' = base /\ rnats' = rnats \cup {bspstore} /\ bspstore' = bspstore + 1 /\ regs' = regs
  BY Zenon DEF SpillRnat
<1>3. bspstore % 64 = 63
  BY Zenon DEF SpillRnat, ia64_rse_is_rnat_slot, ia64_rse_slot_num
<1>4. bspstore + 1 = ia64_rse_skip_regs(base, Len(regs)) /\ (bspstore + 1) % 64 # 63
  BY <1>1, <1>3, Bspstore, SlotNext
<1>5. StackTypeOK'
  BY <1>1, <1>2 DEF StackTypeOK
<1>6. FindsRegisters'
  BY <1>2, <1>4, Zenon DEF StackInv, FindsRegisters, ia64_rse_is_rnat_slot, ia64_rse_slot_num
<1>7. rnats' = {a \in base..(bspstore' - 1) : a % 64 = 63}
  <2>1. base..(bspstore' - 1) = base..(bspstore - 1) \cup {bspstore}
    BY <1>1, <1>2
  <2>2. rnats' = {a \in base..(bspstore - 1) : a % 64 = 63} \cup {bspstore}
    BY <1>2, Zenon DEF StackInv
  <2>. QED
    BY <1>3, <2>1, <2>2, Zenon
<1>. QED
  BY <1>2, <1>5, <1>6, <1>7, Zenon DEF StackInv

LEMMA FillInv == ASSUME StackInv, Fill PROVE StackInv'
<1> DEFINE n == Len(regs)
<1>1. /\ base \in Nat /\ bspstore \in Nat /\ base <= bspstore /\ regs \in Seq(Nat) /\ n \in Nat
      /\ rnats \subseteq Nat
  BY DEF StackInv, StackTypeOK
<1>2. /\ base' = base /\ rnats' = rnats /\ bspstore' = bspstore - 1
      /\ regs' = SubSeq(regs, 1, n - 1) /\ regs # <<>> /\ regs[n] = bspstore - 1
  BY Zenon DEF Fill
<1>3. n \in 1..n /\ n - 1 \in Nat
  BY <1>1, <1>2
<1>4. /\ regs' \in Seq(Nat) /\ Len(regs') = n - 1
      /\ \A k \in 1..(n - 1) : regs'[k] = regs[k]
  BY <1>1, <1>2, FrontFacts, Zenon
<1>5. bspstore - 1 = ia64_rse_skip_regs(base, n - 1)
  BY <1>2, <1>3, Zenon DEF StackInv, FindsRegisters
<1>6. bspstore - 1 \in Nat /\ bspstore - 1 >= base /\ (bspstore - 1) % 64 # 63
  <2>1. PICK j \in Nat : j = n - 1
    BY <1>3, Zenon
  <2>2. PICK p \in Nat : p = ia64_rse_skip_regs(base, j) /\ p >= base /\ p % 64 \in 0..62
    BY <1>1, SkipType, Zenon
  <2>3. bspstore - 1 = p
    BY <1>5, <2>1, <2>2, Zenon
  <2>. QED
    BY <2>2, <2>3
<1>7. StackTypeOK'
  BY <1>1, <1>2, <1>4, <1>6, Zenon DEF StackTypeOK
<1>8. \A k \in 1..(n - 1) : ia64_rse_skip_regs(base, k - 1) = regs'[k]
  BY <1>3, <1>4 DEF StackInv, FindsRegisters
<1>9. FindsRegisters'
  BY <1>2, <1>4, <1>5, <1>6, <1>8, Zenon DEF FindsRegisters, ia64_rse_is_rnat_slot, ia64_rse_slot_num
<1>10. rnats' = {a \in base..(bspstore' - 1) : a % 64 = 63}
  <2>1. rnats = {a \in base..(bspstore - 1) : a % 64 = 63}
    BY Zenon DEF StackInv
  <2>2. ASSUME NEW a \in base..(bspstore - 1), a % 64 = 63 PROVE a \in base..((bspstore - 1) - 1)
    <3>1. a # bspstore - 1
      BY <1>6, <2>2, Zenon
    <3>. QED
      BY <1>1, <3>1
  <2>3. base..((bspstore - 1) - 1) \subseteq base..(bspstore - 1)
    BY <1>1
  <2>. QED
    BY <1>2, <2>1, <2>2, <2>3, Zenon
<1>. QED
  BY <1>2, <1>7, <1>9, <1>10, Zenon DEF StackInv

LEMMA FillRnatInv == ASSUME StackInv, FillRnat PROVE StackInv'
<1>1. /\ base \in Nat /\ bspstore \in Nat /\ base <= bspstore /\ regs \in Seq(Nat)
      /\ rnats \subseteq Nat
  BY Zenon DEF StackInv, StackTypeOK
<1>2. /\ base' = base /\ rnats' = rnats \ {bspstore - 1} /\ bspstore' = bspstore - 1
      /\ regs' = regs /\ bspstore - 1 \in rnats
  BY Zenon DEF FillRnat
<1>3. bspstore - 1 \in Nat /\ bspstore - 1 >= base /\ (bspstore - 1) % 64 = 63
  BY <1>1, <1>2 DEF StackInv
<1>4. bspstore % 64 # 63 /\ (bspstore - 1) + 1 = bspstore
  <2>1. PICK b \in Nat : b = bspstore - 1
    BY <1>3, Zenon
  <2>2. (b + 1) % 64 = 0 /\ b + 1 = bspstore
    BY <1>1, <1>3, <2>1, SlotNext
  <2>. QED
    BY <1>1, <2>1, <2>2
<1>5. bspstore = ia64_rse_skip_regs(base, Len(regs))
  BY <1>4, Bspstore, Zenon
<1>6. StackTypeOK'
  BY <1>1, <1>2, <1>3, Zenon DEF StackTypeOK
<1>7. FindsRegisters'
  BY <1>2, <1>3, <1>4, <1>5, Zenon DEF StackInv, FindsRegisters, ia64_rse_is_rnat_slot, ia64_rse_slot_num
<1>8. rnats' = {a \in base..(bspstore' - 1) : a % 64 = 63}
  BY <1>1, <1>2, <1>3 DEF StackInv
<1>. QED
  BY <1>2, <1>6, <1>7, <1>8, Zenon DEF StackInv

LEMMA StackStepInv == ASSUME StackInv, [EngineNext]_engineVars PROVE StackInv'
<1>1. CASE UNCHANGED engineVars
  BY <1>1, Zenon DEF engineVars, StackInv, StackTypeOK, FindsRegisters, ia64_rse_is_rnat_slot, ia64_rse_slot_num
<1>. QED
  BY <1>1, SpillInv, SpillRnatInv, FillInv, FillRnatInv, Zenon DEF EngineNext

LEMMA Inductive == EngineSpec => []StackInv
BY StackInitInv, StackStepInv, PTL DEF EngineSpec

(* skip_regs finds every register of the backing store, and the place of   *)
(* the next one, for every start and size of it.                           *)
THEOREM Finds == EngineSpec => []FindsRegisters
<1>1. StackInv => FindsRegisters
  BY Zenon DEF StackInv
<1>. QED
  BY <1>1, Inductive, PTL

(* num_regs counts the registers of the backing store. *)
THEOREM Counts == EngineSpec => []CountsRegisters
<1>1. ASSUME StackInv PROVE CountsRegisters
  <2>1. base \in Nat /\ bspstore \in Nat /\ base <= bspstore /\ Len(regs) \in Nat
    BY <1>1 DEF StackInv, StackTypeOK
  <2>2. ia64_rse_num_regs(base, ia64_rse_skip_regs(base, Len(regs))) = Len(regs)
    BY <2>1, NumSkip, Zenon
  <2>3. CASE bspstore % 64 # 63
    BY <1>1, <2>2, <2>3, Bspstore, Zenon DEF CountsRegisters
  <2>4. CASE bspstore % 64 = 63
    <3>1. PICK c \in Nat : c = bspstore + 1
      BY <2>1
    <3>2. ia64_rse_num_regs(base, bspstore) = ia64_rse_num_regs(base, c)
      BY <2>1, <2>4, <3>1, NumRnat, Zenon
    <3>. QED
      BY <1>1, <2>2, <2>4, <3>1, <3>2, Bspstore, Zenon DEF CountsRegisters
  <2>. QED
    BY <2>3, <2>4, Zenon
<1>. QED
  BY <1>1, Inductive, PTL

(* skip_regs goes from the last register back to any other, and again to   *)
(* the last.                                                               *)
THEOREM Walks == EngineSpec => []WalksBack
<1>1. ASSUME StackInv PROVE WalksBack
  <2>. SUFFICES ASSUME NEW k \in 1..Len(regs)
                PROVE  /\ ia64_rse_skip_regs(regs[Len(regs)], k - Len(regs)) = regs[k]
                       /\ ia64_rse_skip_regs(regs[k], Len(regs) - k) = regs[Len(regs)]
    BY Zenon DEF WalksBack
  <2>1. base \in Nat /\ Len(regs) \in Nat
    BY <1>1 DEF StackInv, StackTypeOK
  <2>2. PICK n \in Nat : n = k - 1
    BY <2>1
  <2>3. PICK m \in Nat : m = Len(regs) - 1
    BY <2>1
  <2>4. PICK j \in Nat : j = Len(regs) - k
    BY <2>1
  <2>5. regs[k] = ia64_rse_skip_regs(base, n) /\ regs[Len(regs)] = ia64_rse_skip_regs(base, m)
    BY <1>1, <2>1, <2>2, <2>3 DEF StackInv, FindsRegisters
  <2>6. m = n + j /\ k - Len(regs) = -j
    BY <2>1, <2>2, <2>3, <2>4
  <2>7. ia64_rse_skip_regs(regs[Len(regs)], -j) = regs[k]
    BY <2>1, <2>5, <2>6, SkipBack
  <2>8. ia64_rse_skip_regs(regs[k], j) = regs[Len(regs)]
    BY <2>1, <2>5, <2>6, SkipOn
  <2>. QED
    BY <2>4, <2>6, <2>7, <2>8, Zenon
<1>. QED
  BY <1>1, Inductive, PTL

(* skip_regs is exact in both directions, for any start and any number of  *)
(* registers.                                                              *)
THEOREM Skips == EngineSpec => []SkipsExactly
<1>1. FindsRegisters /\ WalksBack => SkipsExactly
  BY Zenon DEF SkipsExactly
<1>. QED
  BY <1>1, Finds, Walks, PTL

(* rnat_addr finds the NaT bits of every register. *)
THEOREM FindsNat == EngineSpec => []FindsNatBits
<1>1. ASSUME StackInv PROVE FindsNatBits
  <2>. SUFFICES ASSUME NEW k \in 1..Len(regs)
                PROVE  LET a == ia64_rse_rnat_addr(regs[k])
                       IN  /\ a > regs[k]
                           /\ IF a < bspstore THEN a \in rnats ELSE rnats \cap (regs[k]..bspstore) = {}
                           /\ \A b \in rnats : b > regs[k] => b >= a
    BY Zenon DEF FindsNatBits
  <2>1. /\ base \in Nat /\ Len(regs) \in Nat /\ bspstore \in Nat
        /\ rnats = {b \in base..(bspstore - 1) : b % 64 = 63}
    BY <1>1 DEF StackInv, StackTypeOK
  <2>2. PICK n \in Nat : n = k - 1
    BY <2>1
  <2>3. PICK p \in Nat : p = regs[k] /\ p % 64 \in 0..62 /\ p >= base
    BY <1>1, <2>1, <2>2, SkipType, Zenon DEF StackInv, FindsRegisters
  <2>4. PICK a \in Nat : /\ a = ia64_rse_rnat_addr(p) /\ a > p /\ a % 64 = 63
                         /\ \A b \in Nat : b % 64 = 63 /\ b >= p => b >= a
    BY <2>3, NextRnat, ZenonT(30)
  <2>5. a < bspstore => a \in rnats
    <3>1. base \in Nat /\ bspstore \in Nat BY <2>1, Zenon
    <3>2. p \in Nat /\ p >= base /\ a > p BY <2>3, <2>4, Zenon
    <3>3. a < bspstore => a \in base..(bspstore - 1) BY <3>1, <3>2
    <3>. QED BY <2>1, <2>4, <3>3, Zenon
  <2>6. ASSUME ~(a < bspstore) PROVE rnats \cap (p..bspstore) = {}
    <3>1. ASSUME NEW b \in rnats, b \in p..bspstore PROVE FALSE
      <4>1. b \in base..(bspstore - 1) BY <2>1, <3>1, Zenon
      <4>2. b % 64 = 63 BY <2>1, <3>1, Zenon
      <4>3. b \in Nat /\ b >= p /\ b < bspstore BY <2>1, <3>1, <4>1
      <4>4. b >= a BY <2>4, <4>2, <4>3, Zenon
      <4>. QED BY <2>1, <2>6, <4>3, <4>4
    <3>. QED
      BY <3>1, Zenon
  <2>7. \A b \in rnats : b > p => b >= a
    BY <2>1, <2>3, <2>4
  <2>. QED
    BY <2>3, <2>4, <2>5, <2>6, <2>7, Zenon
<1>. QED
  BY <1>1, Inductive, PTL

(* The store pointer never falls below the start of the backing store.     *)
THEOREM StackTypes == EngineSpec => []StackTypeOK
<1>1. StackInv => StackTypeOK
  BY Zenon DEF StackInv
<1>2. QED
  BY <1>1, Inductive, PTL
=============================================================================
