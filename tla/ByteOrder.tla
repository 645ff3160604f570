----------------------------- MODULE ByteOrder -----------------------------
(***************************************************************************)
(* Words, and the byte order they are kept in.  A word of n bits is the    *)
(* set of the positions of its one bits, so the operations of C are set    *)
(* operations and the values of 64 bits stay exact.                        *)
(*                                                                         *)
(* include/linux/swab.h turns the bytes of a word round.  It has one       *)
(* reference form, the ___constant_swab macros, and an architecture may    *)
(* replace it by an instruction sequence of its own (arch/*/asm/swab.h):   *)
(* those sequences are here, one instruction per line.  byteorder/         *)
(* big_endian.h and little_endian.h then define cpu_to_le32 and its        *)
(* relatives as a swab or as nothing.  A machine is a record of its        *)
(* architecture and of its byte order.                                     *)
(***************************************************************************)
EXTENDS Integers

\* The operations of C on words of n bits.
Bits(n) == 0..(n - 1)
Shl(n, x, k) == {b \in Bits(n) : b - k \in x}
Shr(n, x, k) == {b \in Bits(n) : b + k \in x}
Low(n, x) == x \cap Bits(n)
Xor(x, y) == (x \ y) \cup (y \ x)

\* What every swab must compute: byte i of the word becomes byte n/8 - 1 - i.
Reversed(n, x) == {b \in Bits(n) : (n - 8) - b + 2 * (b % 8) \in x}

-----------------------------------------------------------------------------
\* include/linux/swab.h: the macros every architecture falls back on.

constant_swab16(x) == Shl(16, x \cap (0..7), 8) \cup Shr(16, x \cap (8..15), 8)

constant_swab32(x) ==
    Shl(32, x \cap (0..7), 24) \cup Shl(32, x \cap (8..15), 8)
        \cup Shr(32, x \cap (16..23), 8) \cup Shr(32, x \cap (24..31), 24)

constant_swab64(x) ==
    Shl(64, x \cap (0..7), 56) \cup Shl(64, x \cap (8..15), 40)
        \cup Shl(64, x \cap (16..23), 24) \cup Shl(64, x \cap (24..31), 8)
        \cup Shr(64, x \cap (32..39), 8) \cup Shr(64, x \cap (40..47), 24)
        \cup Shr(64, x \cap (48..55), 40) \cup Shr(64, x \cap (56..63), 56)

constant_swahw32(x) == Shl(32, x \cap (0..15), 16) \cup Shr(32, x \cap (16..31), 16)

constant_swahb32(x) ==
    LET even == (0..7) \cup (16..23)
    IN  Shl(32, x \cap even, 8) \cup Shr(32, x \ even, 8)

-----------------------------------------------------------------------------
\* The instructions the architectures' sequences use, as their manuals define
\* them: a rotation to the right, a swap of the two low bytes (SH swap.b,
\* m68k rolw #8), a funnel shift by 8 (Xtensa src with SAR = 8), and a swap of
\* the bytes within each half word and of the half words (MIPS dsbh, dshd).
Ror(x, k) == Shl(32, x, 32 - k) \cup Shr(32, x, k)
SwapLow(x) == (x \ Bits(16)) \cup constant_swab16(Low(16, x))
Src(hi, lo) == Shl(32, hi, 24) \cup Shr(32, lo, 8)
Dsbh(x) == {b \in Bits(64) : (IF b % 16 < 8 THEN b + 8 ELSE b - 8) \in x}
Dshd(x) == {b \in Bits(64) : (48 - b) + 2 * (b % 16) \in x}

\* The sequence of arch/arm with its mask one byte too low.
arm_swab32_mask(x) ==
    LET t == Xor(x, Ror(x, 16))
    IN  Xor(Ror(x, 8), Shr(32, t \ (8..15), 8))

\* arch/arm: exclusive or with the word turned by half, then by a byte.  The
\* mask drops bits 16 to 23.
arm_swab32(x) ==
    LET t == Xor(x, Ror(x, 16))
    IN  Xor(Ror(x, 8), Shr(32, t \ (16..23), 8))

\* arch/arc, in C: the even bytes come from one rotation, the odd ones from
\* the other.
arc_swab32(x) ==
    LET in == Ror(x, 8)
    IN  Xor(Xor(Ror(x, 24), in) \cap ((0..7) \cup (16..23)), in)

\* arch/alpha: inslh(x, 7) is x >> 8, inswl(x, 3) the low half << 24; the two
\* words of the final sum have no bit in common.
alpha_swab32(x) ==
    LET t1 == Shl(64, Low(16, x), 24) \cup Shr(64, x, 8)
        t0 == t1 \cap ((8..15) \cup (24..31))
        t3 == Shr(64, t1, 16) \cap ((0..7) \cup (16..23))
    IN  Low(32, t0 \cup t3)

\* arch/xtensa: three funnel shifts.
xtensa_swab32(x) ==
    LET r1 == Src(Shr(32, x, 16), x)
        r2 == Src(r1, r1)
    IN  Src(x, r2)

xtensa_swab16(x) == Low(16, Shl(32, x, 8) \cup Shr(32, x \cap (8..15), 8))

\* arch/mips (release 2): bytes within half words, then the half words.
mips_swab16(x) == Low(16, constant_swahb32(x))
mips_swab32(x) == Ror(constant_swahb32(x), 16)
mips_swab64(x) == Dshd(Dsbh(x))

\* arch/sh and arch/m68k: low bytes, half words, low bytes.
sh_swab32(x) == SwapLow(Ror(SwapLow(x), 16))
sh_swab16(x) == Low(16, SwapLow(x))

\* arch/ia64: mux1 reverses 64 bits; the shorter words are its top.
ia64_swab64(x) == Reversed(64, x)
ia64_swab32(x) == Low(32, Shr(64, ia64_swab64(x), 32))
ia64_swab16(x) == Low(16, Shr(64, ia64_swab64(x), 48))

\* arch/x86: bswap.
x86_swab32(x) == Reversed(32, x)

\* arch/nios2 with the optional instruction, which reverses 32 bits.
nios2_swab16(x) == Low(16, Reversed(32, Shl(32, x, 16)))

-----------------------------------------------------------------------------
\* The architectures, and how __fswab16, __fswab32 and __fswab64 choose: the
\* architecture's own function, for 64 bits two of 32, or the macro.  powerpc
\* (of 32 bits) and riscv stand for the architectures without functions of
\* their own.
Archs == {"arm", "arc", "alpha", "xtensa", "mips", "mips64", "sh", "m68k", "i386",
          "x86_64", "ia64", "nios2", "sparc64", "powerpc", "riscv"}

fswab16(a, x) ==
    CASE a = "xtensa" -> xtensa_swab16(x)
      [] a \in {"mips", "mips64"} -> mips_swab16(x)
      [] a = "sh" -> sh_swab16(x)
      [] a = "ia64" -> ia64_swab16(x)
      [] a = "nios2" -> nios2_swab16(x)
      [] OTHER -> constant_swab16(x)

fswab32(a, x) ==
    CASE a = "arm" -> arm_swab32(x)
      [] a = "arc" -> arc_swab32(x)
      [] a = "alpha" -> alpha_swab32(x)
      [] a = "xtensa" -> xtensa_swab32(x)
      [] a \in {"mips", "mips64"} -> mips_swab32(x)
      [] a \in {"sh", "m68k"} -> sh_swab32(x)
      [] a = "ia64" -> ia64_swab32(x)
      [] a \in {"i386", "x86_64", "nios2"} -> x86_swab32(x)
      [] OTHER -> constant_swab32(x)

\* __SWAB_64_THRU_32__, the union of arch/sh and the exchange of i386.
thru32_swab64(a, x) ==
    Shl(64, fswab32(a, Low(32, x)), 32) \cup fswab32(a, Low(32, Shr(64, x, 32)))

fswab64(a, x) ==
    CASE a = "mips64" -> mips_swab64(x)
      [] a \in {"ia64", "x86_64"} -> Reversed(64, x)
      [] a \in {"arm", "arc", "xtensa", "mips", "sh", "m68k", "i386", "nios2", "powerpc"}
             -> thru32_swab64(a, x)
      [] OTHER -> constant_swab64(x)

swab(m, n, x) ==
    IF n = 16 THEN fswab16(m.arch, x)
    ELSE IF n = 32 THEN fswab32(m.arch, x) ELSE fswab64(m.arch, x)

-----------------------------------------------------------------------------
\* A machine's load and store of n bits: the image is the word a little-endian
\* machine would load, so a big-endian one sees its bytes turned round.
Load(m, n, image) == IF m.big THEN Reversed(n, image) ELSE Low(n, image)
Store(m, n, x) == IF m.big THEN Reversed(n, x) ELSE Low(n, x)

\* __swab16p, __swab32p and __swab64p; sparc64 loads with the little-endian
\* address space instead.
swabp(m, n, image) ==
    IF m.arch = "sparc64" THEN Low(n, image) ELSE swab(m, n, Load(m, n, image))

\* __swab16s, __swab32s, __swab64s, __swahw32s and __swahb32s: in place.
swabs(m, n, image) == Store(m, n, swabp(m, n, image))
swahw32s(m, image) == Store(m, 32, constant_swahw32(Load(m, 32, image)))
swahb32s(m, image) == Store(m, 32, constant_swahb32(Load(m, 32, image)))

\* byteorder/big_endian.h and little_endian.h: a swab or nothing.  The
\* conversions to and from the CPU's order are the same operation.
cpu_to_le(m, n, x) == IF m.big THEN swab(m, n, x) ELSE x
cpu_to_be(m, n, x) == IF m.big THEN x ELSE swab(m, n, x)
le_to_cpu(m, n, x) == IF m.big THEN swab(m, n, x) ELSE x
be_to_cpu(m, n, x) == IF m.big THEN x ELSE swab(m, n, x)
=============================================================================
