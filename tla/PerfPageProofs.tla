--------------------------- MODULE PerfPageProofs ---------------------------
(***************************************************************************)
(* The loop of the perf page is left only with a snapshot of the page, and *)
(* what is computed from it is true, for every number of values of lock,   *)
(* every width, clock, counter and bound.                                  *)
(***************************************************************************)
EXTENDS PerfPage, WellFoundedInduction, TLAPS

(* A set of numbers that is not empty has a least one ... *)
LEMMA LeastNumber ==
  ASSUME NEW S, S \subseteq Nat, S # {}
  PROVE  \E x \in S : \A y \in S : x <= y
<1>. DEFINE R == {p \in Nat \X Nat : p[1] < p[2]}
<1>1. IsWellFoundedOn(R, Nat)
  BY NatLessThanWellFounded, Zenon DEF OpToRel
<1>2. \E x \in S : \A y \in S : <<y, x>> \notin R
  <2>. HIDE DEF R
  <2>. QED
    BY <1>1, WFMin, Zenon
<1>3. \A x, y \in Nat : <<y, x>> \notin R => x <= y
  OBVIOUS
<1>. QED
  <2>. HIDE DEF R
  <2>. QED
    BY <1>2, <1>3, Zenon

(* ... which gives induction over sets of numbers. *)
LEMMA Induction ==
  ASSUME NEW S, 0 \in S, \A n \in Nat : n \in S => n + 1 \in S
  PROVE  \A n \in Nat : n \in S
<1>. SUFFICES ASSUME Nat \ S # {} PROVE FALSE
  BY Zenon
<1>1. PICK x \in Nat \ S : \A y \in Nat \ S : x <= y
  BY LeastNumber, Zenon
<1>2. x # 0 /\ x - 1 \in Nat /\ (x - 1) + 1 = x
  BY <1>1
<1>. QED
  BY <1>1, <1>2

(* g is 1 << i for the i up to m. *)
IsPow(g, m) == g \in [0..m -> Nat] /\ g[0] = 1 /\ \A i \in 1..m : g[i] = 2 * g[i - 1]

LEMMA PowExists == \A m \in Nat : \E g : IsPow(g, m)
<1>. DEFINE S == {m \in Nat : \E g : IsPow(g, m)}
<1>1. 0 \in S
  <2>. DEFINE g == [i \in 0..0 |-> 1]
  <2>1. IsPow(g, 0)
    BY DEF IsPow
  <2>. QED
    BY <2>1, Zenon
<1>2. ASSUME NEW n \in Nat, n \in S PROVE n + 1 \in S
  <2>1. PICK g : IsPow(g, n)
    BY <1>2, Zenon
  <2>. DEFINE h == [i \in 0..(n + 1) |-> IF i = n + 1 THEN 2 * g[n] ELSE g[i]]
  <2>2. h \in [0..(n + 1) -> Nat] /\ h[0] = 1
    BY <2>1 DEF IsPow
  <2>3. ASSUME NEW i \in 1..(n + 1) PROVE h[i] = 2 * h[i - 1]
    <3>1. CASE i = n + 1
      BY <3>1
    <3>2. CASE i # n + 1
      BY <2>1, <3>2 DEF IsPow
    <3>. QED
      BY <3>1, <3>2, Zenon
  <2>4. IsPow(h, n + 1)
    BY <2>2, <2>3, Zenon DEF IsPow
  <2>. QED
    BY <2>4
<1>3. \A n \in Nat : n \in S
  <2>. HIDE DEF S
  <2>. QED
    BY <1>1, <1>2, Induction, Zenon
<1>. QED
  BY <1>3, Zenon

LEMMA PowUnique ==
  ASSUME NEW m \in Nat, NEW n \in Nat, NEW g, NEW h, IsPow(g, m), IsPow(h, n)
  PROVE  \A i \in Nat : i <= m /\ i <= n => g[i] = h[i]
<1>. DEFINE S == {i \in Nat : i <= m /\ i <= n => g[i] = h[i]}
<1>1. 0 \in S
  BY Zenon DEF IsPow
<1>2. ASSUME NEW i \in Nat, i \in S PROVE i + 1 \in S
  <2>. SUFFICES ASSUME i + 1 <= m, i + 1 <= n PROVE g[i + 1] = h[i + 1]
    OBVIOUS
  <2>1. g[i] = h[i]
    BY <1>2
  <2>2. i + 1 \in 1..m /\ i + 1 \in 1..n /\ (i + 1) - 1 = i
    OBVIOUS
  <2>. QED
    BY <2>1, <2>2, Zenon DEF IsPow
<1>3. \A i \in Nat : i \in S
  <2>. HIDE DEF S
  <2>. QED
    BY <1>1, <1>2, Induction, Zenon
<1>. QED
  BY <1>3, Zenon

(* The definition of Pow2 defines it. *)
LEMMA Pow2Def == Pow2 = [n \in Nat |-> IF n = 0 THEN 1 ELSE 2 * Pow2[n - 1]]
<1>. DEFINE G(n) == CHOOSE g : IsPow(g, n)
            f == [n \in Nat |-> G(n)[n]]
<1>1. \A n \in Nat : IsPow(G(n), n)
  BY PowExists, Zenon
<1>2. ASSUME NEW n \in Nat PROVE f[n] = IF n = 0 THEN 1 ELSE 2 * f[n - 1]
  <2>1. CASE n = 0
    BY <1>1, <2>1, Zenon DEF IsPow
  <2>2. CASE n # 0
    <3>. HIDE DEF G
    <3>1. n - 1 \in Nat /\ n \in 1..n
      BY <2>2
    <3>2. IsPow(G(n), n) /\ IsPow(G(n - 1), n - 1)
      BY <1>1, <3>1, Zenon
    <3>3. G(n)[n - 1] = G(n - 1)[n - 1]
      BY <3>1, <3>2, PowUnique
    <3>4. G(n)[n] = 2 * G(n)[n - 1]
      BY <3>1, <3>2, Zenon DEF IsPow
    <3>. QED
      BY <2>2, <3>1, <3>3, <3>4, Zenon
  <2>. QED
    BY <2>1, <2>2, Zenon
<1>3. \E q : q = [n \in Nat |-> IF n = 0 THEN 1 ELSE 2 * q[n - 1]]
  <2>1. f = [n \in Nat |-> IF n = 0 THEN 1 ELSE 2 * f[n - 1]]
    <3>1. f = [n \in Nat |-> f[n]]
      OBVIOUS
    <3>. HIDE DEF f
    <3>. QED
      BY <1>2, <3>1, Zenon
  <2>. HIDE DEF f
  <2>. QED
    BY <2>1, Zenon
<1>. QED
  BY <1>3, Zenon DEF Pow2

LEMMA Pow2Step == Pow2[0] = 1 /\ \A n \in Nat : Pow2[n + 1] = 2 * Pow2[n]
<1>1. ASSUME NEW n \in Nat PROVE Pow2[n] = IF n = 0 THEN 1 ELSE 2 * Pow2[n - 1]
  BY Pow2Def, Zenon
<1>2. ASSUME NEW n \in Nat PROVE Pow2[n + 1] = 2 * Pow2[n]
  <2>1. n + 1 \in Nat /\ n + 1 # 0 /\ (n + 1) - 1 = n
    OBVIOUS
  <2>. QED
    BY <1>1, <2>1, Zenon
<1>. QED
  BY <1>1, <1>2, Zenon

LEMMA Pow2Type == \A n \in Nat : Pow2[n] \in Nat \ {0}
<1>. DEFINE S == {n \in Nat : Pow2[n] \in Nat \ {0}}
<1>1. 0 \in S
  BY Pow2Step
<1>2. ASSUME NEW n \in Nat, n \in S PROVE n + 1 \in S
  <2>1. Pow2[n] \in Nat \ {0} /\ Pow2[n + 1] = 2 * Pow2[n]
    BY <1>2, Pow2Step, Zenon
  <2>. QED
    BY <2>1
<1>3. \A n \in Nat : n \in S
  <2>. HIDE DEF S
  <2>. QED
    BY <1>1, <1>2, Induction, Zenon
<1>. QED
  BY <1>3, Zenon

LEMMA Pow2Plus ==
  ASSUME NEW a \in Nat
  PROVE  \A n \in Nat : Pow2[a + n] = Pow2[a] * Pow2[n]
<1>. DEFINE S == {n \in Nat : Pow2[a + n] = Pow2[a] * Pow2[n]}
<1>1. 0 \in S
  <2>1. a + 0 = a /\ Pow2[a] \in Nat
    BY Pow2Type
  <2>. QED
    BY <2>1, Pow2Step
<1>2. ASSUME NEW n \in Nat, n \in S PROVE n + 1 \in S
  <2>1. a + (n + 1) = (a + n) + 1 /\ a + n \in Nat
    OBVIOUS
  <2>2. Pow2[a + (n + 1)] = 2 * Pow2[a + n] /\ Pow2[n + 1] = 2 * Pow2[n]
    BY <2>1, Pow2Step, Zenon
  <2>3. Pow2[a + n] = Pow2[a] * Pow2[n]
    BY <1>2, Zenon
  <2>4. PICK x \in Nat : x = Pow2[a]
    BY Pow2Type, Zenon
  <2>5. PICK y \in Nat : y = Pow2[n]
    BY Pow2Type, Zenon
  <2>6. 2 * (x * y) = x * (2 * y)
    OBVIOUS
  <2>. QED
    BY <2>2, <2>3, <2>4, <2>5, <2>6
<1>3. \A n \in Nat : n \in S
  <2>. HIDE DEF S
  <2>. QED
    BY <1>1, <1>2, Induction, Zenon
<1>. QED
  BY <1>3, Zenon

(* Division by a positive number. *)
LEMMA DivMod ==
  ASSUME NEW a \in Int, NEW b \in Nat \ {0}
  PROVE  /\ a \div b \in Int /\ a % b \in 0..(b - 1)
         /\ a - (a % b) = b * (a \div b)
         /\ a >= 0 => a \div b >= 0
<1>1. a \div b \in Int /\ a % b \in 0..(b - 1)
  OBVIOUS
<1>2. a - (a % b) = b * (a \div b)
  OBVIOUS
<1>3. ASSUME a >= 0 PROVE a \div b >= 0
  <2>1. PICK q \in Int : q = a \div b
    BY <1>1, Zenon
  <2>2. PICK r \in 0..(b - 1) : r = a % b
    BY <1>1, Zenon
  <2>3. q < 0 => b * q <= -b
    OBVIOUS
  <2>. QED
    BY <1>2, <1>3, <2>1, <2>2, <2>3
<1>. QED
  BY <1>1, <1>2, <1>3, Zenon

LEMMA Division ==
  ASSUME NEW a \in Nat, NEW b \in Nat \ {0}
  PROVE  \E q \in Nat, r \in 0..(b - 1) : q = a \div b /\ r = a % b /\ a = b * q + r /\ q <= a
<1>1. PICK q \in Nat : q = a \div b
  BY DivMod
<1>2. PICK r \in 0..(b - 1) : r = a % b
  BY DivMod
<1>3. a = b * q + r
  BY <1>1, <1>2, DivMod
<1>4. (b - 1) * q >= 0
  OBVIOUS
<1>5. q <= a
  BY <1>3, <1>4
<1>. QED
  BY <1>1, <1>2, <1>3, <1>5, Zenon

LEMMA DivModUnique ==
  ASSUME NEW a \in Int, NEW b \in Nat \ {0}, NEW q \in Int, NEW r \in 0..(b - 1), a = b * q + r
  PROVE  a \div b = q /\ a % b = r
<1>1. PICK d \in Int : d = a \div b
  BY DivMod, Zenon
<1>2. PICK e \in 0..(b - 1) : e = a % b
  BY DivMod, Zenon
<1>3. a = b * d + e
  BY <1>1, <1>2, DivMod
<1>4. b * (d - q) = r - e
  BY <1>1, <1>2, <1>3
<1>5. d - q < 1 
  <2>. SUFFICES ASSUME d - q >= 1 PROVE FALSE
    BY <1>1
  <2>1. b * (d - q) >= b
    OBVIOUS
  <2>. QED
    BY <1>2, <1>4, <2>1
<1>6. d - q > -1
  <2>. SUFFICES ASSUME d - q <= -1 PROVE FALSE
    BY <1>1
  <2>1. b * (d - q) <= -b
    OBVIOUS
  <2>. QED
    BY <1>2, <1>4, <2>1
<1>7. d = q
  BY <1>1, <1>5, <1>6
<1>. QED
  BY <1>1, <1>2, <1>4, <1>7

LEMMA ModSmall ==
  ASSUME NEW b \in Nat \ {0}, NEW a \in 0..(b - 1)
  PROVE  a % b = a
BY DivModUnique, a = b * 0 + a

(* What is cut off before a sum makes no difference to what is cut off after. *)
LEMMA ModPlus ==
  ASSUME NEW a \in Int, NEW c \in Int, NEW b \in Nat \ {0}
  PROVE  ((a % b) + c) % b = (a + c) % b
<1>1. PICK d \in Int : d = a \div b
  BY DivMod, Zenon
<1>2. PICK e \in 0..(b - 1) : e = a % b
  BY DivMod, Zenon
<1>3. a = b * d + e
  BY <1>1, <1>2, DivMod
<1>4. PICK f \in Int : f = (e + c) \div b
  BY DivMod
<1>5. PICK g \in 0..(b - 1) : g = (e + c) % b
  BY DivMod
<1>6. e + c = b * f + g
  BY <1>4, <1>5, DivMod
<1>7. a + c = b * (d + f) + g
  <2>1. b * (d + f) = b * d + b * f
    OBVIOUS
  <2>. QED
    BY <1>3, <1>6, <2>1
<1>8. a + c \in Int /\ d + f \in Int
  OBVIOUS
<1>9. (a + c) % b = g
  BY <1>5, <1>7, <1>8, DivModUnique, Zenon
<1>. QED
  BY <1>2, <1>5, <1>9, Zenon

(* The quotient and the remainder, multiplied apart. *)
LEMMA SplitProduct ==
  ASSUME NEW t \in Nat, NEW m \in Nat, NEW s \in Nat \ {0}
  PROVE  (t \div s) * m + ((t % s) * m) \div s = (t * m) \div s
<1>1. PICK q \in Int : q = t \div s
  BY DivMod
<1>2. PICK r \in 0..(s - 1) : r = t % s
  BY DivMod
<1>3. t = s * q + r
  BY <1>1, <1>2, DivMod
<1>. DEFINE p == r * m
<1>4. p \in Nat
  BY <1>2
<1>5. PICK d \in Int : d = p \div s
  BY <1>4, DivMod
<1>6. PICK e \in 0..(s - 1) : e = p % s
  BY <1>4, DivMod
<1>7. p = s * d + e
  BY <1>4, <1>5, <1>6, DivMod
<1>8. t * m = s * (q * m + d) + e
  <2>1. t * m = s * (q * m) + r * m
    BY <1>3
  <2>2. s * (q * m + d) = s * (q * m) + s * d
    OBVIOUS
  <2>. QED
    BY <1>7, <2>1, <2>2
<1>9. PICK x \in Int : x = q * m + d
  OBVIOUS
<1>10. PICK y \in Int : y = t * m
  OBVIOUS
<1>11. y = s * x + e
  BY <1>8, <1>9, <1>10, Zenon
<1>12. y \div s = x
  BY <1>11, DivModUnique, Zenon
<1>. QED
  BY <1>1, <1>2, <1>5, <1>9, <1>10, <1>12, Zenon

-----------------------------------------------------------------------------
(* A quotient is monotone, and not above its dividend. *)
LEMMA DivMonotone ==
  ASSUME NEW a \in Nat, NEW c \in Nat, a <= c, NEW s \in Nat \ {0}
  PROVE  a \div s \in Nat /\ a \div s <= c \div s /\ c \div s <= c
<1>1. PICK p \in Nat : p = a \div s
  BY DivMod
<1>2. PICK q \in Nat : q = c \div s
  BY DivMod
<1>3. PICK r \in 0..(s - 1) : a = s * p + r
  <2>1. PICK r \in 0..(s - 1) : r = a % s
    BY DivMod
  <2>2. a = s * p + r
    BY <1>1, <2>1, DivMod
  <2>. QED
    BY <2>2, Zenon
<1>4. PICK t \in 0..(s - 1) : c = s * q + t
  <2>1. PICK t \in 0..(s - 1) : t = c % s
    BY DivMod
  <2>2. c = s * q + t
    BY <1>2, <2>1, DivMod
  <2>. QED
    BY <2>2, Zenon
<1>5. p <= q
  <2>. SUFFICES ASSUME p >= q + 1 PROVE FALSE
    OBVIOUS
  <2>1. s * p >= s * q + s
    <3>1. s * (p - q - 1) >= 0
      OBVIOUS
    <3>. QED
      BY <3>1
  <2>. QED
    BY <1>3, <1>4, <2>1
<1>6. q <= s * q
  OBVIOUS
<1>. QED
  BY <1>1, <1>2, <1>4, <1>5, <1>6

LEMMA LongType == Long \in Nat \ {0}
BY Pow2Type, WidthAssumption, Zenon DEF Long

LEMMA U64Type == ASSUME NEW x \in Int PROVE U64(x) \in 0..(Long - 1)
BY LongType, DivMod, Zenon DEF U64

LEMMA U64Small == ASSUME NEW x \in 0..(Long - 1) PROVE U64(x) = x
BY LongType, ModSmall, Zenon DEF U64

LEMMA U64Plus == ASSUME NEW x \in Int, NEW y \in Int PROVE U64(U64(x) + y) = U64(x + y)
BY LongType, ModPlus, Zenon DEF U64

(* The value of a counter, and what the shifts make of it. *)
PmcMod == Pow2[PmcBits]
PmcHalf == Pow2[PmcBits - 1]
Signed(v) == IF v >= PmcHalf THEN v - PmcMod ELSE v

LEMMA PmcFacts == PmcHalf \in Nat \ {0} /\ PmcMod = 2 * PmcHalf
<1>1. PICK n \in Nat : n = PmcBits - 1 /\ n + 1 = PmcBits
  BY WidthAssumption
<1>. QED
  BY <1>1, Pow2Type, Pow2Step, Zenon DEF PmcHalf, PmcMod

LEMMA SignExtends ==
  ASSUME NEW v \in 0..(PmcMod - 1)
  PROVE  SignExtend(v, PmcBits) = Signed(v)
<1>1. PICK h \in Nat \ {0} : h = PmcHalf /\ PmcMod = 2 * h
  BY PmcFacts, Zenon
<1>2. PICK k \in Nat \ {0} : k = Pow2[LongBits - PmcBits]
  BY Pow2Type, WidthAssumption
<1>3. Long = (2 * h) * k
  <2>1. PICK n \in Nat : n = LongBits - PmcBits /\ PmcBits + n = LongBits /\ PmcBits \in Nat
    BY WidthAssumption
  <2>2. Pow2[PmcBits + n] = Pow2[PmcBits] * Pow2[n]
    BY <2>1, Pow2Plus, Zenon
  <2>. QED
    BY <1>1, <1>2, <2>1, <2>2, Zenon DEF Long, PmcMod
<1>4. U64(v * k) = v * k
  <2>1. v * k <= (2 * h - 1) * k
    <3>1. (2 * h - 1 - v) * k >= 0
      BY <1>1
    <3>. QED
      BY <1>1, <3>1
  <2>2. (2 * h - 1) * k = (2 * h) * k - k
    OBVIOUS
  <2>3. v * k \in 0..(Long - 1)
    BY <1>1, <1>3, <2>1, <2>2
  <2>. QED
    BY <2>3, U64Small, Zenon
<1>5. Long \div 2 = h * k
  BY <1>3
<1>6. v * k >= h * k <=> v >= h
  <2>1. v >= h => (v - h) * k >= 0
    BY <1>1
  <2>2. v < h => (h - v - 1) * k >= 0
    BY <1>1
  <2>3. (v - h) * k = v * k - h * k /\ (h - v - 1) * k = h * k - v * k - k
    BY <1>1
  <2>. QED
    BY <1>1, <2>1, <2>2, <2>3
<1>7. CASE v >= h
  <2>1. v * k - Long = k * (v - 2 * h) + 0
    BY <1>1, <1>3
  <2>2. (v * k - Long) \div k = v - 2 * h
    BY <1>1, <2>1, LongType, DivModUnique
  <2>. QED
    BY <1>1, <1>2, <1>4, <1>5, <1>6, <1>7, <2>2, Zenon DEF SignExtend, Signed
<1>8. CASE v < h
  <2>1. v * k = k * v + 0
    BY <1>1
  <2>2. (v * k) \div k = v
    BY <1>1, <2>1, DivModUnique
  <2>. QED
    BY <1>1, <1>2, <1>4, <1>5, <1>6, <1>8, <2>2 DEF SignExtend, Signed
<1>. QED
  BY <1>1, <1>7, <1>8

(* A clock that is short is made long again. *)
LEMMA ClockMadeLong ==
  ASSUME NEW t \in Nat, NEW y \in Nat, y <= t, t < y + Pow2[ClockBits], t < Long
  PROVE  ShortClock(t % Pow2[ClockBits], y) = t
<1>1. PICK c \in Nat \ {0} : c = Pow2[ClockBits]
  BY Pow2Type, WidthAssumption, Zenon
<1>2. ((t % c) - y) % c = t - y
  <2>. DEFINE z == -y
  <2>1. ((t % c) + z) % c = (t + z) % c
    <3>1. z \in Int /\ t \in Int
      OBVIOUS
    <3>. HIDE DEF z
    <3>. QED
      BY <3>1, ModPlus, Zenon
  <2>2. t + (-y) \in 0..(c - 1)
    BY <1>1
  <2>3. (t + (-y)) % c = t + (-y)
    BY <2>2, ModSmall, Zenon
  <2>4. PICK u \in Int : u = t % c
    OBVIOUS
  <2>. QED
    BY <2>1, <2>3, <2>4, Zenon
<1>3. U64(y + (t - y)) = t
  <2>1. y + (t - y) = t /\ t \in 0..(Long - 1)
    BY LongType
  <2>. QED
    BY <2>1, U64Small, Zenon
<1>. QED
  BY <1>1, <1>2, <1>3, Zenon DEF ShortClock

LEMMA ClockFacts == \A c \in Clocks : c[1] \in Nat \ {0} /\ c[2] \in Nat
  BY ClockAssumption, Zenon

LEMMA TscBound == ASSUME NEW t \in 0..MaxTsc PROVE t \in Nat /\ t <= MaxTsc /\ t < Long
  BY BoundAssumption, LongType

LEMMA NsMonotone ==
  ASSUME NEW c \in Clocks, NEW t \in Nat, NEW u \in Nat, t <= u
  PROVE  Ns(t, c[1], c[2]) \in Nat /\ Ns(t, c[1], c[2]) <= Ns(u, c[1], c[2])
<1>1. PICK m \in Nat \ {0} : m = c[1]
  BY ClockFacts, Zenon
<1>2. PICK s \in Nat \ {0} : s = Pow2[c[2]]
  BY ClockFacts, Pow2Type, Zenon
<1>3. t * m \in Nat /\ u * m \in Nat /\ t * m <= u * m
  <2>1. (u - t) * m >= 0
    OBVIOUS
  <2>. QED
    BY <2>1
<1>. QED
  BY <1>1, <1>2, <1>3, DivMonotone, Zenon DEF Ns

(* The kernel's clock, and the one the text computes. *)
LEMMA NsFacts ==
  ASSUME NEW c \in Clocks, NEW t \in 0..MaxTsc
  PROVE  Ns(t, c[1], c[2]) \in Nat /\ ToNs(t, c[1], c[2]) = Ns(t, c[1], c[2])
<1>1. PICK m \in Nat \ {0} : m = c[1]
  BY ClockFacts, Zenon
<1>2. PICK s \in Nat \ {0} : s = Pow2[c[2]] /\ m * s <= Long
  BY <1>1, ClockFacts, Pow2Type, ClockAssumption, Zenon
<1>3. t \in Nat /\ MaxTsc \in Nat /\ t <= MaxTsc
  BY TscBound, BoundAssumption, Zenon
<1>4. PICK n \in Nat : n = (t * m) \div s /\ n <= Ns(MaxTsc, c[1], c[2])
  BY <1>1, <1>2, <1>3, NsMonotone, Zenon DEF Ns
<1>5. n \in 0..(Long - 1)
  <2>1. PICK x \in Nat : x = Ns(MaxTsc, c[1], c[2])
    BY <1>3, NsMonotone
  <2>2. x < Long
    BY <2>1, BoundAssumption, Zenon
  <2>. QED
    BY <1>4, <2>1, <2>2, LongType
<1>6. PICK r \in 0..(s - 1) : r = t % s
  BY <1>3, Division, Zenon
<1>7. r * m \in 0..(Long - 1)
  <2>1. (s - 1 - r) * m >= 0
    BY <1>6
  <2>. QED
    BY <1>2, <1>6, <2>1, LongType
<1>8. U64(r * m) = r * m
  BY <1>7, U64Small, Zenon
<1>9. (t \div s) * m + ((t % s) * m) \div s = n
  BY <1>3, <1>4, SplitProduct, Zenon
<1>10. ToNs(t, c[1], c[2]) = U64((t \div s) * m + U64((t % s) * m) \div s)
  BY <1>1, <1>2, Zenon DEF ToNs
<1>11. ToNs(t, c[1], c[2]) = U64(n)
  BY <1>6, <1>8, <1>9, <1>10, Zenon
<1>. QED
  BY <1>1, <1>2, <1>4, <1>5, <1>11, U64Small, Zenon DEF Ns

(* The scaled count, and that it is not below the count. *)
LEMMA ScaleSplit ==
  ASSUME NEW count \in Nat, NEW en \in Nat, NEW run \in Nat \ {0}, (count % run) * en < Long
  PROVE  Scale(count, en, run) = U64((count * en) \div run)
<1>1. PICK r \in 0..(run - 1) : r = count % run
  BY Division, Zenon
<1>2. r * en \in 0..(Long - 1)
  BY <1>1, LongType
<1>3. U64(r * en) = r * en
  BY <1>2, U64Small, Zenon
<1>4. (count \div run) * en + ((count % run) * en) \div run = (count * en) \div run
  BY SplitProduct, Zenon
<1>5. Scale(count, en, run) = U64((count \div run) * en + U64((count % run) * en) \div run)
  BY Zenon DEF Scale
<1>. QED
  BY <1>1, <1>3, <1>4, <1>5, Zenon

LEMMA ScaleAbove ==
  ASSUME NEW count \in Nat, NEW en \in Nat, NEW run \in Nat \ {0}, run <= en
  PROVE  (count * en) \div run >= count
<1>1. count * run \in Nat /\ count * en \in Nat /\ count * run <= count * en
  <2>1. count * (en - run) >= 0
    OBVIOUS
  <2>. QED
    BY <2>1
<1>2. count * run = run * count + 0
  OBVIOUS
<1>3. (count * run) \div run = count
  BY <1>1, <1>2, DivModUnique
<1>. QED
  BY <1>1, <1>3, DivMonotone, Zenon

(* From the clock to a timestamp and back. *)
LEMMA ThereAndBack ==
  ASSUME NEW c \in Clocks, NEW t \in 0..MaxTsc
  PROVE  LET cyc == ToCyc(ToNs(t, c[1], c[2]), c[1], c[2])
         IN  cyc <= t /\ (t - cyc) * c[1] < Pow2[c[2]] + c[1]
<1>1. PICK m \in Nat \ {0} : m = c[1]
  BY ClockFacts, Zenon
<1>2. PICK s \in Nat \ {0} : s = Pow2[c[2]] /\ m * s <= Long
  BY <1>1, ClockFacts, Pow2Type, ClockAssumption, Zenon
<1>3. t \in Nat /\ t * m \in Nat /\ t < Long
  BY TscBound
<1>4. PICK n \in Nat : n = Ns(t, c[1], c[2]) /\ n = ToNs(t, c[1], c[2])
  BY NsFacts, Zenon
<1>5. PICK a \in Nat : a = t * m
  BY <1>3, Zenon
<1>6. PICK p \in Nat, e \in 0..(s - 1) : p = a \div s /\ a = s * p + e
  BY Division
<1>7. n = p
  BY <1>1, <1>2, <1>4, <1>5, <1>6, Zenon DEF Ns
<1>8. PICK b \in Nat : b = n * s
  OBVIOUS
<1>9. PICK d \in Nat, f \in 0..(m - 1) : d = b \div m /\ b = m * d + f
  BY Division
<1>12. m * (t - d) = e + f
  <2>1. m * (t - d) = t * m - m * d
    BY <1>3
  <2>2. n * s = s * p
    BY <1>7
  <2>. QED
    BY <1>5, <1>6, <1>8, <1>9, <2>1, <2>2
<1>13. d <= t
  <2>. SUFFICES ASSUME t - d <= -1 PROVE FALSE
    BY <1>3
  <2>1. m * (t - d) <= -m
    OBVIOUS
  <2>. QED
    BY <1>6, <1>9, <1>12, <2>1
<1>14. PICK r \in 0..(m - 1) : r = n % m
  BY Division, Zenon
<1>15. r * s \in 0..(Long - 1)
  <2>1. (m - 1 - r) * s >= 0
    BY <1>14
  <2>. QED
    BY <1>2, <1>14, <2>1, LongType
<1>16. U64(r * s) = r * s
  BY <1>15, U64Small, Zenon
<1>17. (n \div m) * s + ((n % m) * s) \div m = d
  <2>1. (n \div m) * s + ((n % m) * s) \div m = (n * s) \div m
    BY SplitProduct, Zenon
  <2>. QED
    BY <1>8, <1>9, <2>1, Zenon
<1>18. ToCyc(n, c[1], c[2]) = U64((n \div m) * s + U64((n % m) * s) \div m)
  BY <1>1, <1>2, Zenon DEF ToCyc
<1>19. ToCyc(n, c[1], c[2]) = U64(d)
  BY <1>14, <1>16, <1>17, <1>18, Zenon
<1>20. U64(d) = d
  BY <1>3, <1>13, LongType, U64Small
<1>21. (t - d) * m < s + m
  BY <1>3, <1>6, <1>9, <1>12
<1>. QED
  BY <1>1, <1>2, <1>4, <1>13, <1>19, <1>20, <1>21, Zenon

-----------------------------------------------------------------------------
(* lock n increments later *)
Plus(a, n) == IF a + n >= LockMod THEN a + n - LockMod ELSE a + n

(* The updates since lock was read are what lock shows of them, and as     *)
(* long as there were none the fields read are those of the page.          *)
SeqInv ==
  /\ page["lock"] \in 0..(LockMod - 1)
  /\ at \in 0..13
  /\ since \in Nat
  /\ got = [f \in Locals |-> got[f]]
  /\ at \in {0, 1} => have = {}
  /\ at > 1 =>
       /\ 2 * since < LockMod
       /\ got["lock"] \in 0..(LockMod - 1)
       /\ page["lock"] = Plus(got["lock"], 2 * since)
       /\ since = 0 => \A f \in have \cap Fields : got[f] = page[f]

(* lock is the first that is read, and is read once in a pass. *)
LEMMA OrderFacts ==
  /\ Order[1] = "lock"
  /\ \A i \in 2..12 : Order[i] # "lock"
  /\ "lock" \in Fields
  /\ Fields \subseteq Locals
  /\ \A i \in 1..12 : Order[i] \in Locals
<1>1. Order[1] = "lock"
  BY Zenon DEF Order
<1>2. ASSUME NEW i \in 2..12 PROVE Order[i] # "lock"
  <2>1. i = 2 \/ i = 3 \/ i = 4 \/ i = 5 \/ i = 6 \/ i = 7 \/ i = 8 \/ i = 9 \/ i = 10 \/ i = 11 \/ i = 12
    BY <1>2
  <2>. QED
    BY <2>1 DEF Order
<1>3. \A i \in 1..12 : Order[i] \in Locals
  BY Zenon DEF Locals
<1>4. "lock" \in Fields
  <2>1. "lock" \in Locals
    BY <1>1, <1>3
  <2>. QED
    BY <2>1, Zenon DEF Fields
<1>. QED
  BY <1>1, <1>2, <1>3, <1>4, Zenon DEF Fields

(* Two increments of lock, from n increments to n + 2. *)
LEMMA IncrementTwice ==
  ASSUME NEW a \in 0..(LockMod - 1), NEW n \in Nat, n + 2 < LockMod
  PROVE  Increment(Increment(Plus(a, n))) = Plus(a, n + 2)
BY LockAssumption DEF Increment, Plus

(* An increment stays in the range of lock. *)
LEMMA IncrementType ==
  ASSUME NEW a \in 0..(LockMod - 1)
  PROVE  Increment(a) \in 0..(LockMod - 1)
BY LockAssumption DEF Increment

(* lock has its old value only after no increment. *)
LEMMA PlusNothing ==
  ASSUME NEW a \in 0..(LockMod - 1), NEW n \in Nat, n < LockMod, Plus(a, n) = a
  PROVE  n = 0
BY LockAssumption DEF Plus

LEMMA InitSeq == Init => SeqInv
<1>. SUFFICES ASSUME Init PROVE SeqInv
  BY Zenon
<1>1. page["lock"] \in 0..(LockMod - 1)
  BY OrderFacts, LockAssumption, Zenon DEF Init
<1>2. got = [f \in Locals |-> got[f]]
  BY Zenon DEF Init, Cleared
<1>3. at = 0 /\ have = {} /\ since = 0
  BY Zenon DEF Init
<1>. QED
  BY <1>1, <1>2, <1>3 DEF SeqInv

LEMMA UpdateSeq ==
  ASSUME SeqInv, NEW i, NEW v, NEW c, Update(i, v, c)
  PROVE  SeqInv'
<1>1. page'["lock"] = Increment(Increment(page["lock"]))
  BY OrderFacts, Zenon DEF Update
<1>2. page'["lock"] \in 0..(LockMod - 1)
  BY <1>1, IncrementType, Zenon DEF SeqInv
<1>3. at' = at /\ got' = got /\ have' = have
  BY Zenon DEF Update
<1>4. CASE at > 1
  <2>1. since' = since + 1 /\ 2 * since + 2 < LockMod
    BY <1>4, Zenon DEF Update
  <2>2. Increment(Increment(Plus(got["lock"], 2 * since))) = Plus(got["lock"], 2 * since + 2)
    BY <1>4, <2>1, IncrementTwice DEF SeqInv
  <2>3. 2 * since' = 2 * since + 2 /\ since' \in Nat /\ since' # 0
    BY <2>1 DEF SeqInv
  <2>4. page'["lock"] = Plus(got["lock"], 2 * since')
    BY <1>1, <1>4, <2>2, <2>3, Zenon DEF SeqInv
  <2>. QED
    BY <1>2, <1>3, <1>4, <2>1, <2>3, <2>4, Zenon DEF SeqInv, Plus
<1>5. CASE ~(at > 1)
  <2>1. since' = 0
    BY <1>5, Zenon DEF Update
  <2>. QED
    BY <1>2, <1>3, <1>5, <2>1, Zenon DEF SeqInv
<1>. QED
  BY <1>4, <1>5, Zenon

LEMMA ReadSeq ==
  ASSUME SeqInv, Read
  PROVE  SeqInv'
<1>1. at \in 1..12 /\ page' = page
  BY Zenon DEF Read, kernelVars
<1>2. PICK v \in Finds(Order[at]) :
        /\ got' = [got EXCEPT ![Order[at]] = v]
        /\ at' = Follow(at, [got EXCEPT ![Order[at]] = v])
  BY Zenon DEF Read
<1>3. Order[at] \in Locals
  BY <1>1, OrderFacts, Zenon
<1>4. /\ got' = [f \in Locals |-> got'[f]]
      /\ got'[Order[at]] = v
      /\ \A f \in Locals : f # Order[at] => got'[f] = got[f]
  BY <1>2, <1>3, Zenon DEF SeqInv
<1>5. at' \in 2..13
  BY <1>1, <1>2 DEF Follow, Check
<1>6. Order[at] \in Fields => v = page[Order[at]]
  BY <1>2, Zenon DEF Finds, Fields
<1>7. have' = have \cup {Order[at]}
  BY Zenon DEF Read
<1>8. CASE at = 1
  <2>1. since' = 0 /\ Order[at] = "lock" /\ have = {}
    BY <1>8, OrderFacts, Zenon DEF Read, SeqInv
  <2>2. have' = {"lock"} /\ got'["lock"] = page["lock"]
    BY <1>4, <1>6, <1>7, <2>1, OrderFacts, Zenon
  <2>3. page["lock"] = Plus(page["lock"], 2 * since')
    BY <2>1, LockAssumption DEF Plus, SeqInv
  <2>4. page'["lock"] = Plus(got'["lock"], 2 * since')
    BY <1>1, <2>2, <2>3, Zenon
  <2>5. \A f \in have' \cap Fields : got'[f] = page'[f]
    BY <1>1, <2>2, Zenon
  <2>6. 2 * since' < LockMod /\ since' \in Nat
    BY <2>1, LockAssumption
  <2>. QED
    BY <1>1, <1>4, <1>5, <2>2, <2>4, <2>5, <2>6 DEF SeqInv, Plus
<1>9. CASE at # 1
  <2>1. at \in 2..12 /\ since' = since
    BY <1>1, <1>9 DEF Read
  <2>2. Order[at] # "lock"
    BY <2>1, OrderFacts, Zenon
  <2>3. got'["lock"] = got["lock"]
    BY <1>4, <2>2, OrderFacts, Zenon
  <2>4. ASSUME since = 0, NEW f \in have' \cap Fields PROVE got'[f] = page'[f]
    <3>1. CASE f = Order[at]
      BY <1>1, <1>4, <1>6, <3>1, Zenon
    <3>2. CASE f # Order[at]
      BY <1>1, <1>4, <1>7, <2>1, <2>4, <3>2, OrderFacts DEF SeqInv
    <3>. QED
      BY <3>1, <3>2, Zenon
  <2>. QED
    BY <1>1, <1>4, <1>5, <2>1, <2>3, <2>4 DEF SeqInv, Plus
<1>. QED
  BY <1>8, <1>9, Zenon

LEMMA StepSeq ==
  ASSUME SeqInv, [Next]_vars
  PROVE  SeqInv'
<1>1. ASSUME NEW i \in Indexes \cup {0}, NEW v \in 0..(Pow2[PmcBits] - 1), NEW c \in Clocks, Update(i, v, c)
      PROVE  SeqInv'
  BY <1>1, UpdateSeq, Zenon
<1>2. CASE Count
  BY <1>2, Zenon DEF Count, SeqInv, readerVars, Plus
<1>3. CASE Tick
  BY <1>3, Zenon DEF Tick, SeqInv, readerVars, Plus
<1>4. CASE Begin
  BY <1>4 DEF Begin, SeqInv, kernelVars, Cleared, Plus
<1>5. CASE Read
  BY <1>5, ReadSeq, Zenon
<1>6. CASE Retry
  BY <1>6 DEF Retry, SeqInv, kernelVars, Plus
<1>7. CASE Accept
  BY <1>7 DEF Accept, SeqInv, kernelVars, Cleared, Plus
<1>8. CASE UNCHANGED vars
  BY <1>8, Zenon DEF vars, kernelVars, readerVars, SeqInv, Plus
<1>. QED
  BY <1>1, <1>2, <1>3, <1>4, <1>5, <1>6, <1>7, <1>8, Zenon DEF Next, Kernel, Reader

(* The loop is left only after no update. *)
LEMMA AcceptSame ==
  ASSUME SeqInv, Accept
  PROVE  since = 0 /\ \A f \in have \cap Fields : got[f] = page[f]
<1>1. at = Check /\ at > 1 /\ page["lock"] = got["lock"]
  BY DEF Accept, Check
<1>2. Plus(got["lock"], 2 * since) = got["lock"]
  BY <1>1, Zenon DEF SeqInv
<1>3. 2 * since = 0
  BY <1>1, <1>2, PlusNothing DEF SeqInv
<1>4. since = 0
  BY <1>3 DEF SeqInv
<1>. QED
  BY <1>1, <1>4, Zenon DEF SeqInv

(* The loop is left with a snapshot: of the actions only Accept sets at to *)
(* 0, and lock has the value that was read only after no update.           *)
THEOREM Snapshot == Spec => AcceptsSnapshot
<1>1. ASSUME SeqInv, [Next]_vars
      PROVE  [at = Check /\ at' = 0 => \A f \in have \cap Fields : got[f] = page[f]]_vars
  <2>. SUFFICES ASSUME at = Check, at' = 0 PROVE \A f \in have \cap Fields : got[f] = page[f]
    BY Zenon
  <2>1. Accept
    BY <1>1 DEF Next, Kernel, Reader, Update, Count, Tick, Begin, Read, Retry, vars, readerVars, Check
  <2>. QED
    BY <1>1, <2>1, AcceptSame, Zenon
<1>. QED
  BY <1>1, InitSeq, StepSeq, PTL DEF Spec, AcceptsSnapshot

-----------------------------------------------------------------------------
(* Time by the clock of the page from the last update until t. *)
Elapsed(t) ==
  Ns(t, page["time_mult"], page["time_shift"])
    - Ns(page["time_cycles"], page["time_mult"], page["time_shift"])

(* While the event is on a counter the counter and the time go on from     *)
(* what the page says of them.                                             *)
KernelInv ==
  /\ cap \in Caps
  /\ <<page["time_mult"], page["time_shift"]>> \in Clocks
  /\ page["pmc_width"] = PmcBits
  /\ tsc \in 0..MaxTsc /\ page["time_cycles"] <= tsc
  /\ "short" \in cap => tsc < page["time_cycles"] + Pow2[ClockBits]
  /\ page["time_offset"] = U64(-Ns(page["time_cycles"], page["time_mult"], page["time_shift"]))
  /\ total <= MaxTotal
  /\ page["index"] # 0 => "rdpmc" \in cap
  /\ page["offset"] = U64(total - (IF page["index"] = 0 THEN 0 ELSE Signed(counter)))
  /\ enabled = page["time_enabled"] + Elapsed(tsc)
  /\ running = page["time_running"] + (IF page["index"] = 0 THEN 0 ELSE Elapsed(tsc))
  /\ page["time_running"] <= page["time_enabled"]
  /\ enabled < Long

(* What has been read by the time the reader is where it is. *)
PassInv ==
  /\ \A i \in {2, 3, 9, 10} : at > i => Order[i] \in have
  /\ at \in 4..8 => UsesTime(got)
  /\ UsesTime(got) => \A i \in 4..8 : at > i => Order[i] \in have
  /\ at \in 11..12 => UsesPmc(got)
  /\ UsesPmc(got) => \A i \in 11..12 : at > i => Order[i] \in have
  /\ "pmc" \in have => at = Check
  /\ got["pmc"] < PmcMod

(* If no update came between, what was read from the hardware goes with    *)
(* the page.                                                               *)
HardwareInv ==
  /\ since = 0 /\ "cyc" \in have =>
       \E t \in page["time_cycles"]..tsc :
         /\ got["cyc"] = IF "short" \in cap THEN t % Pow2[ClockBits] ELSE t
         /\ truth.enabled = page["time_enabled"] + Elapsed(t)
         /\ truth.running = page["time_running"] + (IF page["index"] = 0 THEN 0 ELSE Elapsed(t))
  /\ since = 0 /\ (IF page["index"] = 0 THEN "offset" \in have ELSE "pmc" \in have) =>
       /\ truth.total <= total
       /\ page["offset"] = U64(truth.total - (IF page["index"] = 0 THEN 0 ELSE Signed(got["pmc"])))

(* The last result is not ahead of what is, nor of what the reader has     *)
(* found since, nor of the page unless its times depend on the clock.      *)
ResultInv ==
  /\ result.enabled \in Nat /\ result.running \in Nat
  /\ result.enabled <= enabled /\ result.running <= running
  /\ ~result.stale => result.count \in Nat /\ result.count <= total
  /\ \/ result.enabled <= page["time_enabled"] /\ result.running <= page["time_running"]
     \/ "time" \in cap /\ page["time_enabled"] # page["time_running"]
  /\ "cyc" \in have => result.enabled <= truth.enabled /\ result.running <= truth.running
  /\ "offset" \in have /\ ~result.stale => result.count <= truth.total

IInv == SeqInv /\ TypeOK /\ KernelInv /\ PassInv /\ HardwareInv /\ ResultInv
          /\ CountTrue /\ TimesTrue /\ ScaleExact

-----------------------------------------------------------------------------
LEMMA PlaceFacts ==
  /\ Order[1] = "lock" /\ Order[2] = "time_enabled" /\ Order[3] = "time_running"
  /\ Order[4] = "cyc" /\ Order[5] = "time_offset" /\ Order[6] = "time_mult"
  /\ Order[7] = "time_shift" /\ Order[8] = "time_cycles" /\ Order[9] = "index"
  /\ Order[10] = "offset" /\ Order[11] = "pmc_width" /\ Order[12] = "pmc"
BY Zenon DEF Order

LEMMA NameFacts ==
  /\ {"time_enabled", "time_running", "time_offset", "time_mult", "time_shift", "time_cycles",
      "index", "offset", "pmc_width", "lock"} \subseteq Fields
  /\ "cyc" \in Locals /\ "pmc" \in Locals
<1>1. \A i \in 1..12 : Order[i] \in Locals
  BY Zenon DEF Locals
<1>2. {"time_enabled", "time_running", "cyc", "time_offset", "time_mult", "time_shift",
       "time_cycles", "index", "offset", "pmc_width", "pmc", "lock"} \subseteq Locals
  BY <1>1, PlaceFacts
<1>. QED
  BY <1>2, Zenon DEF Fields

(* Elapsed time is a number, and goes on. *)
LEMMA ElapsedFacts ==
  ASSUME TypeOK, KernelInv, NEW t \in Nat, page["time_cycles"] <= t, t <= tsc
  PROVE  Elapsed(t) \in Nat /\ Elapsed(t) <= Elapsed(tsc) /\ Elapsed(tsc) \in Nat
<1>1. PICK c \in Clocks : c[1] = page["time_mult"] /\ c[2] = page["time_shift"]
  BY Zenon DEF KernelInv
<1>2. /\ page["time_cycles"] \in 0..MaxTsc /\ t \in 0..MaxTsc /\ tsc \in 0..MaxTsc
      /\ page["time_cycles"] \in Nat
  BY BoundAssumption, NameFacts DEF KernelInv, TypeOK
<1>3. /\ Ns(page["time_cycles"], c[1], c[2]) \in Nat
      /\ Ns(t, c[1], c[2]) \in Nat /\ Ns(tsc, c[1], c[2]) \in Nat
  BY <1>2, NsFacts, Zenon
<1>4. /\ Ns(page["time_cycles"], c[1], c[2]) <= Ns(t, c[1], c[2])
      /\ Ns(t, c[1], c[2]) <= Ns(tsc, c[1], c[2])
  <2>1. t <= tsc
    BY Zenon
  <2>. QED
    BY <1>2, TscBound, NsMonotone, Zenon
<1>. QED
  BY <1>1, <1>3, <1>4 DEF Elapsed

(* The event was on a counter for no longer than it was enabled, and not   *)
(* for 2^64.                                                               *)
LEMMA TimeFacts ==
  ASSUME TypeOK, KernelInv
  PROVE  /\ page["time_enabled"] \in Nat /\ page["time_running"] \in Nat
         /\ page["time_enabled"] <= enabled /\ page["time_running"] <= running
         /\ running <= enabled /\ enabled < Long
<1>1. page["time_enabled"] \in Nat /\ page["time_running"] \in Nat /\ tsc \in Nat
  BY NameFacts, Zenon DEF TypeOK
<1>2. Elapsed(tsc) \in Nat
  BY <1>1, ElapsedFacts DEF KernelInv
<1>. QED
  BY <1>1, <1>2 DEF KernelInv, TypeOK

LEMMA InitInv == Init => IInv
<1>. SUFFICES ASSUME Init PROVE IInv
  BY Zenon
<1>1. SeqInv
  BY InitSeq, Zenon
<1>2. PICK c \in Clocks, l \in InitLock :
        page = [f \in Fields |->
                 IF f = "lock" THEN l
                 ELSE IF f = "time_mult" THEN c[1]
                 ELSE IF f = "time_shift" THEN c[2]
                 ELSE IF f = "time_offset" THEN U64(-Ns(tsc, c[1], c[2]))
                 ELSE IF f = "time_cycles" THEN tsc
                 ELSE IF f = "pmc_width" THEN PmcBits
                 ELSE 0]
  BY Zenon DEF Init
<1>3. tsc \in 0..MaxTsc /\ tsc \in Nat
  BY BoundAssumption DEF Init
<1>4. Ns(tsc, c[1], c[2]) \in Nat
  BY <1>3, NsFacts, Zenon
<1>5. c[1] \in Nat /\ c[2] \in Nat /\ <<c[1], c[2]>> \in Clocks
  BY ClockAssumption
<1>6. U64(-Ns(tsc, c[1], c[2])) \in Nat
  BY <1>4, U64Type, LongType
<1>7. PmcBits \in Nat /\ l \in Nat /\ l < LockMod
  BY WidthAssumption, LockAssumption
<1>8. page \in [Fields -> Nat]
  BY <1>2, <1>3, <1>5, <1>6, <1>7, Zenon
<1>9. /\ page["time_mult"] = c[1] /\ page["time_shift"] = c[2] /\ page["time_cycles"] = tsc
      /\ page["time_offset"] = U64(-Ns(tsc, c[1], c[2])) /\ page["pmc_width"] = PmcBits
      /\ page["lock"] = l /\ page["time_enabled"] = 0 /\ page["time_running"] = 0
      /\ page["index"] = 0 /\ page["offset"] = 0
  BY <1>2, NameFacts, Zenon
<1>10. Elapsed(tsc) = 0
  BY <1>4, <1>9 DEF Elapsed
<1>11. /\ cap \in Caps /\ counter = 0 /\ total = 0 /\ enabled = 0 /\ running = 0 /\ updates = 0
       /\ at = 0 /\ got = Cleared /\ have = {} /\ since = 0
       /\ truth = [total |-> 0, enabled |-> 0, running |-> 0] /\ result = NoResult
  BY Zenon DEF Init
<1>12. cap \subseteq {"rdpmc", "time", "short"}
  BY <1>11, CapAssumption, Zenon
<1>13. PmcMod \in Nat \ {0} /\ PmcMod = Pow2[PmcBits]
  BY PmcFacts DEF PmcMod
<1>14. got \in [Locals -> Nat] /\ got["pmc"] = 0
  BY <1>11, NameFacts, Zenon DEF Cleared
<1>15. TypeOK
  BY <1>3, <1>7, <1>8, <1>9, <1>11, <1>12, <1>13, <1>14 DEF TypeOK, Check
<1>16. KernelInv
  <2>1. U64(0) = 0
    BY LongType, U64Small
  <2>2. tsc < tsc + Pow2[ClockBits]
    BY <1>3, WidthAssumption, Pow2Type
  <2>3. 0 < Long /\ 0 <= MaxTotal
    BY LongType, BoundAssumption
  <2>. QED
    BY <1>3, <1>5, <1>9, <1>10, <1>11, <2>1, <2>2, <2>3 DEF KernelInv
<1>17. PassInv
  BY <1>11, <1>13, <1>14 DEF PassInv
<1>18. HardwareInv /\ ResultInv /\ CountTrue /\ TimesTrue /\ ScaleExact
  BY <1>9, <1>11 DEF HardwareInv, ResultInv, CountTrue, TimesTrue, ScaleExact, NoResult
<1>. QED
  BY <1>1, <1>15, <1>16, <1>17, <1>18, Zenon DEF IInv

LEMMA UpdateInv ==
  ASSUME IInv, NEW i \in Indexes \cup {0}, NEW v \in 0..(Pow2[PmcBits] - 1), NEW c \in Clocks,
         Update(i, v, c)
  PROVE  IInv'
<1>. USE DEF IInv
<1>1. SeqInv'
  BY UpdateSeq, Zenon
<1>2. UNCHANGED <<cap, tsc, total, enabled, running, at, got, have, truth, result>>
  BY Zenon DEF Update
<1>3. /\ page'["time_mult"] = c[1] /\ page'["time_shift"] = c[2] /\ page'["time_cycles"] = tsc
      /\ page'["time_offset"] = U64(-Ns(tsc, c[1], c[2])) /\ page'["pmc_width"] = page["pmc_width"]
      /\ page'["time_enabled"] = enabled /\ page'["time_running"] = running
      /\ page'["index"] = i
      /\ page'["offset"] = U64(IF i = 0 THEN total ELSE total - SignExtend(v, PmcBits))
      /\ page'["lock"] = Increment(Increment(page["lock"]))
  BY NameFacts, Zenon DEF Update
<1>4. /\ tsc \in Nat /\ tsc \in 0..MaxTsc /\ Ns(tsc, c[1], c[2]) \in Nat
      /\ U64(-Ns(tsc, c[1], c[2])) \in Nat
  BY NsFacts, U64Type, LongType DEF TypeOK, KernelInv
<1>5. c[1] \in Nat /\ c[2] \in Nat /\ <<c[1], c[2]>> \in Clocks /\ i \in Nat
  BY ClockAssumption, IndexAssumption
<1>6. SignExtend(v, PmcBits) = Signed(v) /\ Signed(v) \in Int
  BY SignExtends, PmcFacts DEF PmcMod, Signed
<1>7. U64(IF i = 0 THEN total ELSE total - SignExtend(v, PmcBits)) \in Nat
  BY <1>6, U64Type, LongType DEF TypeOK
<1>8. page'["lock"] \in 0..(LockMod - 1)
  BY <1>3, IncrementType, Zenon DEF SeqInv
<1>9. page' \in [Fields -> Nat]
  <2>1. page' = [f \in Fields |-> page'[f]]
    BY Zenon DEF Update
  <2>2. ASSUME NEW f \in Fields PROVE page'[f] \in Nat
    <3>1. CASE f \in {"time_mult", "time_shift", "time_cycles", "time_offset", "time_enabled",
                      "time_running", "index", "offset", "lock"}
      BY <1>3, <1>4, <1>5, <1>7, <1>8, <3>1, LockAssumption DEF TypeOK
    <3>2. CASE f \notin {"time_mult", "time_shift", "time_cycles", "time_offset", "time_enabled",
                         "time_running", "index", "offset", "lock"}
      BY <3>2, Zenon DEF Update, TypeOK
    <3>. QED
      BY <3>1, <3>2, Zenon
  <2>. QED
    BY <2>1, <2>2, Zenon
<1>10. since' \in Nat /\ updates' \in Nat /\ counter' = v
  BY DEF Update, TypeOK
<1>11. TypeOK'
  BY <1>2, <1>8, <1>9, <1>10, LockAssumption DEF TypeOK
<1>12. KernelInv'
  <2>1. Elapsed(tsc)' = 0
    BY <1>2, <1>3, <1>4 DEF Elapsed
  <2>2. tsc < tsc + Pow2[ClockBits]
    BY <1>4, WidthAssumption, Pow2Type
  <2>3. page'["offset"] = U64(total - (IF i = 0 THEN 0 ELSE Signed(v)))
    BY <1>3, <1>6 DEF TypeOK
  <2>4. i # 0 => "rdpmc" \in cap
    BY Zenon DEF Update
  <2>5. running <= enabled
    BY TimeFacts, Zenon
  <2>6. /\ cap' \in Caps /\ total' <= MaxTotal /\ page'["pmc_width"] = PmcBits
        /\ enabled' < Long
    BY <1>2, <1>3, Zenon DEF KernelInv
  <2>7. /\ <<page'["time_mult"], page'["time_shift"]>> \in Clocks
        /\ tsc' \in 0..MaxTsc
        /\ page'["time_offset"]
             = U64(-Ns(page'["time_cycles"], page'["time_mult"], page'["time_shift"]))
    BY <1>2, <1>3, <1>4, <1>5, Zenon
  <2>8. page'["time_cycles"] <= tsc' /\ page'["time_running"] <= page'["time_enabled"]
    BY <1>2, <1>3, <1>4, <2>5
  <2>9. /\ "short" \in cap' => tsc' < page'["time_cycles"] + Pow2[ClockBits]
        /\ page'["index"] # 0 => "rdpmc" \in cap'
        /\ page'["offset"]
             = U64(total' - (IF page'["index"] = 0 THEN 0 ELSE Signed(counter')))
    BY <1>2, <1>3, <1>10, <2>2, <2>3, <2>4, Zenon
  <2>10. enabled \in Nat /\ running \in Nat
    BY Zenon DEF TypeOK
  <2>11. /\ enabled' = page'["time_enabled"] + Elapsed(tsc)'
         /\ running' = page'["time_running"] + (IF page'["index"] = 0 THEN 0 ELSE Elapsed(tsc)')
    BY <1>2, <1>3, <2>1, <2>10
  <2>. QED
    BY <2>6, <2>7, <2>8, <2>9, <2>11, Zenon DEF KernelInv
<1>13. PassInv'
  BY <1>2, Zenon DEF PassInv, UsesTime, UsesPmc
<1>14. HardwareInv'
  <2>1. have # {} => since' # 0
    BY <1>2 DEF Update, SeqInv, TypeOK, Check
  <2>. QED
    BY <1>2, <2>1, Zenon DEF HardwareInv
<1>15. ResultInv'
  BY <1>2, <1>3, Zenon DEF ResultInv
<1>16. CountTrue' /\ TimesTrue' /\ ScaleExact'
  BY <1>2, Zenon DEF CountTrue, TimesTrue, ScaleExact
<1>. QED
  BY <1>1, <1>11, <1>12, <1>13, <1>14, <1>15, <1>16, Zenon

LEMMA CountInv ==
  ASSUME IInv, Count
  PROVE  IInv'
<1>. USE DEF IInv
<1>1. /\ UNCHANGED <<cap, page, tsc, enabled, running, updates, at, got, have, since, truth, result>>
      /\ total' = total + 1 /\ counter' = (counter + 1) % PmcMod
      /\ page["index"] # 0 /\ total < MaxTotal /\ counter # PmcHalf - 1
  BY Zenon DEF Count, readerVars, PmcMod, PmcHalf
<1>2. SeqInv'
  BY <1>1, Zenon DEF SeqInv, Plus
<1>3. PICK h \in Nat \ {0} : h = PmcHalf /\ PmcMod = 2 * h
  BY PmcFacts, Zenon
<1>4. counter \in 0..(2 * h - 1)
  BY <1>3, Zenon DEF TypeOK, PmcMod
<1>5. counter' = IF counter = 2 * h - 1 THEN 0 ELSE counter + 1
  <2>1. CASE counter = 2 * h - 1
    <3>1. 2 * h = (2 * h) * 1 + 0
      OBVIOUS
    <3>2. (2 * h) % (2 * h) = 0
      BY <3>1, DivModUnique
    <3>. QED
      BY <1>1, <1>3, <2>1, <3>2
  <2>2. CASE counter # 2 * h - 1
    <3>1. counter + 1 \in 0..(2 * h - 1) /\ 2 * h \in Nat \ {0}
      BY <1>4, <2>2
    <3>2. (counter + 1) % (2 * h) = counter + 1
      BY <3>1, ModSmall, Zenon
    <3>. QED
      BY <1>1, <1>3, <2>2, <3>2, Zenon
  <2>. QED
    BY <2>1, <2>2, Zenon
<1>6. Signed(counter') = Signed(counter) + 1 /\ Signed(counter) \in Int
  BY <1>1, <1>3, <1>4, <1>5 DEF Signed
<1>7. TypeOK'
  <2>1. counter' \in 0..(Pow2[PmcBits] - 1)
    BY <1>3, <1>4, <1>5 DEF PmcMod
  <2>. QED
    BY <1>1, <2>1 DEF TypeOK
<1>8. KernelInv'
  <2>1. total' - Signed(counter') = total - Signed(counter)
    BY <1>1, <1>6 DEF TypeOK
  <2>2. page'["offset"] = U64(total' - Signed(counter'))
    BY <1>1, <2>1, Zenon DEF KernelInv
  <2>3. Elapsed(tsc)' = Elapsed(tsc)
    BY <1>1, Zenon DEF Elapsed
  <2>4. total' <= MaxTotal
    BY <1>1, BoundAssumption DEF TypeOK
  <2>. QED
    BY <1>1, <2>2, <2>3, <2>4, Zenon DEF KernelInv
<1>9. PassInv' /\ CountTrue' /\ TimesTrue' /\ ScaleExact'
  BY <1>1, Zenon DEF PassInv, UsesTime, UsesPmc, CountTrue, TimesTrue, ScaleExact
<1>10. HardwareInv'
  BY <1>1 DEF HardwareInv, TypeOK, Elapsed
<1>11. ResultInv'
  BY <1>1 DEF ResultInv, TypeOK
<1>. QED
  BY <1>2, <1>7, <1>8, <1>9, <1>10, <1>11, Zenon

LEMMA TickInv ==
  ASSUME IInv, Tick
  PROVE  IInv'
<1>. USE DEF IInv
<1>. DEFINE d == Ns(tsc + 1, page["time_mult"], page["time_shift"])
                   - Ns(tsc, page["time_mult"], page["time_shift"])
<1>1. /\ UNCHANGED <<cap, page, counter, total, updates, at, got, have, since, truth, result>>
      /\ tsc' = tsc + 1 /\ tsc < MaxTsc /\ enabled' = enabled + d /\ enabled + d < Long
      /\ running' = (IF page["index"] # 0 THEN running + d ELSE running)
      /\ "short" \in cap => tsc + 1 < page["time_cycles"] + Pow2[ClockBits]
  BY Zenon DEF Tick, readerVars
<1>2. PICK c \in Clocks : c[1] = page["time_mult"] /\ c[2] = page["time_shift"]
  BY Zenon DEF KernelInv
<1>3. tsc \in Nat /\ tsc \in 0..MaxTsc /\ tsc + 1 \in 0..MaxTsc
  BY <1>1, BoundAssumption DEF TypeOK
<1>4. /\ Ns(tsc, c[1], c[2]) \in Nat /\ Ns(tsc + 1, c[1], c[2]) \in Nat
      /\ Ns(tsc, c[1], c[2]) <= Ns(tsc + 1, c[1], c[2])
  <2>1. tsc <= tsc + 1 /\ tsc + 1 \in Nat
    BY <1>3
  <2>. QED
    BY <1>3, <2>1, NsFacts, NsMonotone, Zenon
<1>5. d \in Nat
  BY <1>2, <1>4
<1>6. Elapsed(tsc) \in Nat /\ Elapsed(tsc)' = Elapsed(tsc) + d
  <2>1. page["time_cycles"] \in 0..MaxTsc /\ page["time_cycles"] \in Nat
    BY <1>3, NameFacts, BoundAssumption DEF KernelInv, TypeOK
  <2>2. Ns(page["time_cycles"], c[1], c[2]) \in Nat
    BY <2>1, NsFacts, Zenon
  <2>3. Elapsed(tsc) \in Nat
    BY <1>3, ElapsedFacts DEF KernelInv
  <2>. QED
    <3>1. /\ Elapsed(tsc) = Ns(tsc, c[1], c[2]) - Ns(page["time_cycles"], c[1], c[2])
          /\ Elapsed(tsc)' = Ns(tsc + 1, c[1], c[2]) - Ns(page["time_cycles"], c[1], c[2])
          /\ d = Ns(tsc + 1, c[1], c[2]) - Ns(tsc, c[1], c[2])
      BY <1>1, <1>2, Zenon DEF Elapsed
    <3>. QED
      BY <1>4, <2>2, <2>3, <3>1
<1>. HIDE DEF d
<1>7. SeqInv'
  BY <1>1, Zenon DEF SeqInv, Plus
<1>8. TypeOK'
  BY <1>1, <1>3, <1>5 DEF TypeOK
<1>9. KernelInv'
  <2>1. enabled' < Long
    BY <1>1, Zenon
  <2>2. page["time_cycles"] \in Nat /\ page["time_enabled"] \in Nat /\ page["time_running"] \in Nat
    BY NameFacts, Zenon DEF TypeOK
  <2>3. enabled' = page'["time_enabled"] + Elapsed(tsc)'
    <3>1. enabled' = enabled + d /\ page' = page
      BY <1>1, Zenon
    <3>2. enabled = page["time_enabled"] + Elapsed(tsc)
      BY Zenon DEF KernelInv
    <3>. QED
      BY <1>5, <1>6, <2>2, <3>1, <3>2
  <2>4. running' = page'["time_running"] + (IF page'["index"] = 0 THEN 0 ELSE Elapsed(tsc)')
    <3>1. page' = page /\ running' = (IF page["index"] # 0 THEN running + d ELSE running)
      BY <1>1, Zenon
    <3>2. running = page["time_running"] + (IF page["index"] = 0 THEN 0 ELSE Elapsed(tsc))
      BY Zenon DEF KernelInv
    <3>. QED
      BY <1>5, <1>6, <2>2, <3>1, <3>2
  <2>. QED
    BY <1>1, <1>3, <2>1, <2>2, <2>3, <2>4 DEF KernelInv
<1>10. PassInv' /\ CountTrue' /\ ScaleExact'
  BY <1>1, Zenon DEF PassInv, UsesTime, UsesPmc, CountTrue, ScaleExact
<1>11. TimesTrue' /\ ResultInv'
  BY <1>1, <1>5 DEF TimesTrue, ResultInv, TypeOK
<1>12. HardwareInv'
  <2>1. page["time_cycles"] \in Nat
    BY NameFacts, Zenon DEF TypeOK
  <2>2. page["time_cycles"]..tsc \subseteq page["time_cycles"]..(tsc + 1)
    BY <1>3, <2>1
  <2>. QED
    BY <1>1, <2>2, Zenon DEF HardwareInv, Elapsed
<1>. QED
  BY <1>7, <1>8, <1>9, <1>10, <1>11, <1>12, Zenon

(* The steps that begin a pass leave nothing read. *)
LEMMA BeginInv ==
  ASSUME IInv, Begin
  PROVE  IInv'
<1>. USE DEF IInv
<1>1. /\ UNCHANGED <<cap, page, counter, tsc, total, enabled, running, updates, truth, result>>
      /\ at' = 1 /\ got' = Cleared /\ have' = {} /\ since' = 0
  BY Zenon DEF Begin, kernelVars
<1>2. SeqInv'
  BY <1>1 DEF SeqInv, Cleared
<1>3. got' \in [Locals -> Nat] /\ got'["pmc"] = 0
  BY <1>1, NameFacts, Zenon DEF Cleared
<1>4. TypeOK'
  <2>1. at' \in 0..Check
    BY <1>1 DEF Check
  <2>2. have' \subseteq Locals /\ since' \in Nat
    BY <1>1
  <2>. QED
    BY <1>1, <1>3, <2>1, <2>2, Zenon DEF TypeOK
<1>5. KernelInv'
  BY <1>1, Zenon DEF KernelInv, Elapsed
<1>6. PassInv'
  BY <1>1, <1>3, PmcFacts DEF PassInv
<1>7. HardwareInv' /\ ResultInv' /\ CountTrue' /\ TimesTrue' /\ ScaleExact'
  BY <1>1 DEF HardwareInv, ResultInv, CountTrue, TimesTrue, ScaleExact
<1>. QED
  BY <1>2, <1>4, <1>5, <1>6, <1>7, Zenon

LEMMA RetryInv ==
  ASSUME IInv, Retry
  PROVE  IInv'
<1>. USE DEF IInv
<1>1. /\ UNCHANGED <<cap, page, counter, tsc, total, enabled, running, updates, got, truth, result>>
      /\ at' = 1 /\ have' = {} /\ since' = 0
  BY Zenon DEF Retry, kernelVars
<1>2. SeqInv'
  BY <1>1 DEF SeqInv
<1>3. TypeOK'
  BY <1>1 DEF TypeOK, Check
<1>4. KernelInv'
  BY <1>1, Zenon DEF KernelInv, Elapsed
<1>5. PassInv'
  BY <1>1 DEF PassInv
<1>6. HardwareInv' /\ ResultInv' /\ CountTrue' /\ TimesTrue' /\ ScaleExact'
  BY <1>1 DEF HardwareInv, ResultInv, CountTrue, TimesTrue, ScaleExact
<1>. QED
  BY <1>2, <1>3, <1>4, <1>5, <1>6, Zenon

(* The place the reader gets to, and what it has read there. *)
LEMMA ReadPass ==
  ASSUME IInv, Read
  PROVE  PassInv' /\ got' \in [Locals -> Nat] /\ at' \in 2..Check
<1>. USE DEF IInv
<1>1. at \in 1..12 /\ cap' = cap /\ have' = have \cup {Order[at]}
  BY Zenon DEF Read, kernelVars
<1>2. PICK v \in Finds(Order[at]) :
        got' = [got EXCEPT ![Order[at]] = v] /\ at' = Follow(at, [got EXCEPT ![Order[at]] = v])
  BY Zenon DEF Read
<1>3. Order[at] \in Locals /\ at' = Follow(at, got')
  BY <1>1, <1>2, OrderFacts, Zenon
<1>4. v \in Nat /\ (at = 12 => v < PmcMod)
  <2>1. Order[at] = "cyc" => v \in Nat
    <3>1. Pow2[ClockBits] \in Nat \ {0}
      BY WidthAssumption, Pow2Type, Zenon
    <3>2. tsc \in Nat /\ tsc \in Int
      BY DEF TypeOK
    <3>3. tsc % Pow2[ClockBits] \in 0..(Pow2[ClockBits] - 1)
      BY <3>1, <3>2, DivMod, Zenon
    <3>. QED
      BY <1>2, <3>1, <3>2, <3>3 DEF Finds
  <2>2. PmcMod \in Nat /\ counter \in 0..(PmcMod - 1)
    BY PmcFacts DEF TypeOK, PmcMod
  <2>3. Order[at] = "pmc" => v \in 0..(PmcMod - 1)
    BY <1>2, <2>2, Zenon DEF Finds, PmcMod
  <2>4. Order[at] \in Fields => v \in Nat
    BY <1>2 DEF Finds, TypeOK, Fields
  <2>. QED
    BY <1>3, <2>1, <2>2, <2>3, <2>4, PlaceFacts DEF Fields
<1>5. got' \in [Locals -> Nat]
  BY <1>2, <1>3, <1>4, Zenon DEF TypeOK
<1>6. got'[Order[at]] = v /\ \A f \in Locals : f # Order[at] => got'[f] = got[f]
  BY <1>2, <1>3, Zenon DEF TypeOK
<1>7. at' \in 2..13
  BY <1>1, <1>3 DEF Follow, Check
<1>8. got'["pmc"] < PmcMod
  BY <1>1, <1>4, <1>6, NameFacts, PlaceFacts DEF PassInv
<1>9. \A i \in {2, 3, 9, 10} : at' > i => Order[i] \in have'
  BY <1>1, <1>3 DEF PassInv, Follow, Check
<1>10. "pmc" \in have' => at' = Check
  <2>1. "pmc" \notin have
    BY <1>1 DEF PassInv, Check
  <2>2. "pmc" \in have' => at = 12
    BY <1>1, <2>1, PlaceFacts
  <2>. QED
    BY <1>3, <2>2 DEF Follow, Check
<1>11. (at' \in 4..8 => UsesTime(got)')
       /\ (UsesTime(got)' => \A i \in 4..8 : at' > i => Order[i] \in have')
  <2>1. CASE at \in 1..2
    <3>1. at' \in 2..3
      BY <1>3, <2>1 DEF Follow
    <3>. QED
      BY <3>1
  <2>2. CASE at = 3
    <3>1. at' = IF UsesTime(got)' THEN 4 ELSE 9
      BY <1>1, <1>3, <2>2 DEF Follow, UsesTime
    <3>. QED
      BY <3>1
  <2>3. CASE at \in 4..12
    <3>1. Order[at] # "time_enabled" /\ Order[at] # "time_running"
      BY <2>3, PlaceFacts
    <3>2. UsesTime(got)' = UsesTime(got)
      BY <1>1, <1>6, <3>1, NameFacts, Zenon DEF UsesTime, Fields
    <3>3. CASE at = 10
      <4>1. at' \in {11, 13}
        BY <1>3, <3>3 DEF Follow, Check
      <4>. QED
        BY <1>1, <3>2, <3>3, <4>1 DEF PassInv
    <3>4. CASE at # 10
      <4>1. at # 3 /\ at' = at + 1
        BY <1>3, <2>3, <3>4 DEF Follow, Check
      <4>. QED
        BY <1>1, <2>3, <3>2, <4>1 DEF PassInv
    <3>. QED
      BY <3>3, <3>4, Zenon
  <2>. QED
    BY <1>1, <2>1, <2>2, <2>3
<1>12. (at' \in 11..12 => UsesPmc(got)')
       /\ (UsesPmc(got)' => \A i \in 11..12 : at' > i => Order[i] \in have')
  <2>1. CASE at \in 1..9
    <3>1. at' \in 2..10
      BY <1>3, <2>1 DEF Follow
    <3>. QED
      BY <3>1
  <2>2. CASE at = 10
    <3>1. at' = IF UsesPmc(got)' THEN 11 ELSE 13
      BY <1>1, <1>3, <2>2 DEF Follow, UsesPmc, Check
    <3>. QED
      BY <3>1
  <2>3. CASE at \in 11..12
    <3>1. Order[at] # "index"
      BY <2>3, PlaceFacts
    <3>2. UsesPmc(got)' = UsesPmc(got)
      BY <1>1, <1>6, <3>1, NameFacts, Zenon DEF UsesPmc, Fields
    <3>3. at # 3 /\ at # 10 /\ at' = at + 1
      BY <1>3, <2>3 DEF Follow, Check
    <3>. QED
      BY <1>1, <2>3, <3>2, <3>3 DEF PassInv
  <2>. QED
    BY <1>1, <2>1, <2>2, <2>3
<1>. QED
  BY <1>5, <1>7, <1>8, <1>9, <1>10, <1>11, <1>12, Zenon DEF PassInv, Check

(* What is read from the hardware while there is no update goes with the   *)
(* page.                                                                   *)
LEMMA ReadHardware ==
  ASSUME IInv, Read
  PROVE  HardwareInv'
<1>. USE DEF IInv
<1>1. /\ at \in 1..12 /\ have' = have \cup {Order[at]}
      /\ UNCHANGED <<cap, page, counter, tsc, total, enabled, running>>
  BY Zenon DEF Read, kernelVars
<1>2. PICK v \in Finds(Order[at]) : got' = [got EXCEPT ![Order[at]] = v]
  BY Zenon DEF Read
<1>3. Order[at] \in Locals
  BY <1>1, OrderFacts, Zenon
<1>4. got'[Order[at]] = v /\ \A f \in Locals : f # Order[at] => got'[f] = got[f]
  BY <1>2, <1>3, Zenon DEF TypeOK
<1>5. /\ truth'.total = (IF at \in {10, 12} THEN total ELSE truth.total)
      /\ truth'.enabled = (IF at = 4 THEN enabled ELSE truth.enabled)
      /\ truth'.running = (IF at = 4 THEN running ELSE truth.running)
  BY Zenon DEF Read
<1>6. at = 1 => have = {}
  BY Zenon DEF SeqInv
<1>7. at # 1 => since' = since
  BY Zenon DEF Read
<1>8. (Order[at] = "cyc" => at = 4) /\ (Order[at] = "pmc" => at = 12)
      /\ (Order[at] = "offset" => at = 10)
  BY <1>1, PlaceFacts
<1>9. ASSUME since' = 0, "cyc" \in have'
      PROVE  \E t \in page["time_cycles"]..tsc :
               /\ got'["cyc"] = IF "short" \in cap THEN t % Pow2[ClockBits] ELSE t
               /\ truth'.enabled = page["time_enabled"] + Elapsed(t)
               /\ truth'.running = page["time_running"] + (IF page["index"] = 0 THEN 0 ELSE Elapsed(t))
  <2>1. CASE at = 4
    <3>1. Order[at] = "cyc"
      BY <2>1, PlaceFacts, Zenon
    <3>2. got'["cyc"] = IF "short" \in cap THEN tsc % Pow2[ClockBits] ELSE tsc
      BY <1>2, <1>4, <3>1, Zenon DEF Finds
    <3>3. tsc \in page["time_cycles"]..tsc
      BY NameFacts DEF TypeOK, KernelInv
    <3>. QED
      BY <1>5, <2>1, <3>2, <3>3, Zenon DEF KernelInv
  <2>2. CASE at # 4
    <3>1. "cyc" \in have /\ since = 0
      BY <1>1, <1>6, <1>7, <1>8, <1>9, <2>2, PlaceFacts, Zenon
    <3>2. got'["cyc"] = got["cyc"]
      BY <1>4, <1>8, <2>2, NameFacts, Zenon
    <3>. QED
      BY <1>5, <2>2, <3>1, <3>2, Zenon DEF HardwareInv
  <2>. QED
    BY <2>1, <2>2, Zenon
<1>10. ASSUME since' = 0, IF page["index"] = 0 THEN "offset" \in have' ELSE "pmc" \in have'
       PROVE  /\ truth'.total <= total
              /\ page["offset"] = U64(truth'.total - (IF page["index"] = 0 THEN 0 ELSE Signed(got'["pmc"])))
  <2>1. at # 1 /\ since = 0
    BY <1>1, <1>6, <1>7, <1>8, <1>10, PlaceFacts, Zenon
  <2>2. CASE page["index"] = 0
    <3>1. at # 12
      <4>1. ASSUME at = 12 PROVE FALSE
        <5>1. Order[9] = "index" /\ "index" \in have /\ UsesPmc(got)
          BY <4>1, PlaceFacts DEF PassInv
        <5>2. got["index"] = page["index"]
          BY <2>1, <4>1, <5>1, NameFacts DEF SeqInv
        <5>. QED
          BY <2>2, <5>1, <5>2, Zenon DEF UsesPmc
      <4>. QED
        BY <4>1, Zenon
    <3>2. CASE at = 10
      BY <1>5, <2>2, <3>2 DEF KernelInv, TypeOK
    <3>3. CASE at # 10
      <4>1. "offset" \in have /\ truth'.total = truth.total
        BY <1>1, <1>5, <1>8, <1>10, <2>2, <3>1, <3>3, Zenon
      <4>. QED
        BY <2>1, <2>2, <4>1, Zenon DEF HardwareInv
    <3>. QED
      BY <3>2, <3>3, Zenon
  <2>3. CASE page["index"] # 0
    <3>1. at = 12
      BY <1>1, <1>8, <1>10, <2>3 DEF PassInv, Check
    <3>2. "index" \in have
      BY <3>1, PlaceFacts DEF PassInv
    <3>3. got["index"] = page["index"]
      BY <2>1, <3>1, <3>2, NameFacts DEF SeqInv
    <3>4. got'["pmc"] = counter
      BY <1>2, <1>4, <3>1, <3>3, PlaceFacts, Zenon DEF Finds
    <3>. QED
      BY <1>5, <2>3, <3>1, <3>4 DEF KernelInv, TypeOK
  <2>. QED
    BY <2>2, <2>3, Zenon
<1>11. \A t : Elapsed(t)' = Ns(t, page["time_mult"], page["time_shift"])
                 - Ns(page["time_cycles"], page["time_mult"], page["time_shift"])
  BY <1>1, Zenon DEF Elapsed
<1>. QED
  BY <1>1, <1>9, <1>10, <1>11, Zenon DEF HardwareInv, Elapsed

LEMMA ReadInv ==
  ASSUME IInv, Read
  PROVE  IInv'
<1>. USE DEF IInv
<1>1. /\ at \in 1..12 /\ have' = have \cup {Order[at]}
      /\ UNCHANGED <<cap, page, counter, tsc, total, enabled, running, updates, result>>
  BY Zenon DEF Read, kernelVars
<1>2. truth' = [total |-> IF at \in {10, 12} THEN total ELSE truth.total,
                enabled |-> IF at = 4 THEN enabled ELSE truth.enabled,
                running |-> IF at = 4 THEN running ELSE truth.running]
  BY Zenon DEF Read
<1>3. SeqInv'
  BY ReadSeq, Zenon
<1>4. PassInv' /\ got' \in [Locals -> Nat] /\ at' \in 2..13
  BY ReadPass, Zenon DEF Check
<1>5. HardwareInv'
  BY ReadHardware, Zenon
<1>6. truth' \in [total : Nat, enabled : Nat, running : Nat]
  BY <1>2, Zenon DEF TypeOK
<1>7. have' \subseteq Locals /\ since' \in Nat
  BY <1>1, <1>3, OrderFacts DEF TypeOK, SeqInv
<1>8. TypeOK'
  BY <1>1, <1>4, <1>6, <1>7 DEF TypeOK, Check
<1>9. KernelInv'
  BY <1>1, Zenon DEF KernelInv, Elapsed
<1>10. ResultInv'
  <2>1. "cyc" \in have' => result.enabled <= truth'.enabled /\ result.running <= truth'.running
    BY <1>1, <1>2, PlaceFacts DEF ResultInv
  <2>2. "offset" \in have' /\ ~result.stale => result.count <= truth'.total
    BY <1>1, <1>2, PlaceFacts DEF ResultInv
  <2>. QED
    BY <1>1, <2>1, <2>2, Zenon DEF ResultInv
<1>11. CountTrue' /\ TimesTrue' /\ ScaleExact'
  BY <1>4 DEF CountTrue, TimesTrue, ScaleExact
<1>. QED
  BY <1>3, <1>4, <1>5, <1>8, <1>9, <1>10, <1>11, Zenon

(* The clock that was read gives the time since the update. *)
LEMMA DeltaElapsed ==
  ASSUME IInv, NEW t \in page["time_cycles"]..tsc,
         got["cyc"] = IF "short" \in cap THEN t % Pow2[ClockBits] ELSE t,
         \A f \in {"time_offset", "time_mult", "time_shift", "time_cycles"} : got[f] = page[f]
  PROVE  Delta(got) = Elapsed(t) /\ Elapsed(t) \in Nat /\ Elapsed(t) <= Elapsed(tsc)
<1>. USE DEF IInv
<1>1. PICK c \in Clocks : c[1] = page["time_mult"] /\ c[2] = page["time_shift"]
  BY Zenon DEF KernelInv
<1>2. /\ page["time_cycles"] \in Nat /\ tsc \in 0..MaxTsc /\ MaxTsc \in Nat
      /\ t \in Nat /\ page["time_cycles"] <= t /\ t <= tsc /\ tsc \in Nat
  BY NameFacts, BoundAssumption DEF TypeOK, KernelInv
<1>3. page["time_cycles"] \in 0..MaxTsc /\ t \in 0..MaxTsc
  BY <1>2
<1>4. t < Long
  BY <1>3, TscBound, Zenon
<1>5. (IF "short" \in cap THEN ShortClock(got["cyc"], got["time_cycles"]) ELSE got["cyc"]) = t
  <2>1. CASE "short" \in cap
    <3>1. t < page["time_cycles"] + Pow2[ClockBits]
      BY <1>2, <2>1, WidthAssumption, Pow2Type DEF KernelInv
    <3>2. ShortClock(t % Pow2[ClockBits], page["time_cycles"]) = t
      BY <1>2, <1>4, <3>1, ClockMadeLong, Zenon
    <3>. QED
      BY <2>1, <3>2, Zenon
  <2>2. CASE "short" \notin cap
    BY <2>2, Zenon
  <2>. QED
    BY <2>1, <2>2, Zenon
<1>6. Delta(got) = U64(page["time_offset"] + ToNs(t, c[1], c[2]))
  BY <1>1, <1>5, Zenon DEF Delta
<1>7. PICK n \in Nat : n = Ns(t, c[1], c[2]) /\ ToNs(t, c[1], c[2]) = n
  BY <1>3, NsFacts, Zenon
<1>8. PICK m \in Nat : m = Ns(page["time_cycles"], c[1], c[2])
  BY <1>3, NsFacts, Zenon
<1>9. page["time_offset"] = U64(-m)
  BY <1>1, <1>8, Zenon DEF KernelInv
<1>10. Delta(got) = U64(-m + n)
  BY <1>6, <1>7, <1>9, U64Plus
<1>11. Elapsed(t) = n - m
  BY <1>1, <1>7, <1>8, Zenon DEF Elapsed
<1>12. Elapsed(t) \in Nat /\ Elapsed(t) <= Elapsed(tsc) /\ Elapsed(tsc) \in Nat
  BY <1>2, ElapsedFacts, Zenon
<1>13. Elapsed(t) \in 0..(Long - 1)
  <2>1. /\ page["time_enabled"] \in Nat /\ enabled < Long /\ enabled = page["time_enabled"] + Elapsed(tsc)
    BY TimeFacts, Zenon DEF KernelInv
  <2>. QED
    BY <1>12, <2>1, LongType
<1>14. -m + n \in 0..(Long - 1) /\ -m + n = Elapsed(t)
  BY <1>11, <1>13
<1>15. U64(-m + n) = -m + n
  BY <1>14, U64Small, Zenon
<1>. QED
  BY <1>10, <1>12, <1>14, <1>15, Zenon

(* What the reader has in the end. *)
LEMMA AcceptTimes ==
  ASSUME IInv, Accept
  PROVE  /\ result'.timed <=> "time" \in cap /\ page["time_enabled"] # page["time_running"]
         /\ result'.timed => /\ "cyc" \in have
                             /\ result'.enabled = truth.enabled /\ result'.running = truth.running
         /\ ~result'.timed => /\ result'.enabled = page["time_enabled"]
                              /\ result'.running = page["time_running"]
         /\ result'.enabled \in Nat /\ result'.running \in Nat
         /\ result'.running <= result'.enabled /\ result'.enabled <= enabled /\ result'.running <= running
<1>. USE DEF IInv
<1>. DEFINE e == page["time_enabled"]
            r == page["time_running"]
<1>1. at = 13 /\ result' = Compute(got)
  BY Zenon DEF Accept, Check
<1>2. since = 0 /\ \A f \in have \cap Fields : got[f] = page[f]
  BY AcceptSame, Zenon
<1>3. {"time_enabled", "time_running", "index", "offset"} \subseteq have
  BY <1>1, PlaceFacts DEF PassInv
<1>4. got["time_enabled"] = e /\ got["time_running"] = r /\ got["index"] = page["index"]
  BY <1>2, <1>3, NameFacts, Zenon
<1>5. /\ e \in Nat /\ r \in Nat /\ r <= e /\ e <= enabled /\ r <= running
      /\ running <= enabled /\ enabled < Long /\ enabled \in Nat /\ running \in Nat
  BY TimeFacts, Zenon DEF KernelInv, TypeOK
<1>6. result'.timed = UsesTime(got)
  BY <1>1, Zenon DEF Compute
<1>7. UsesTime(got) <=> "time" \in cap /\ e # r
  BY <1>4, Zenon DEF UsesTime
<1>8. CASE UsesTime(got)
  <2>1. {"cyc", "time_offset", "time_mult", "time_shift", "time_cycles"} \subseteq have
    BY <1>1, <1>8, PlaceFacts DEF PassInv
  <2>2. PICK t \in page["time_cycles"]..tsc :
          /\ got["cyc"] = IF "short" \in cap THEN t % Pow2[ClockBits] ELSE t
          /\ truth.enabled = e + Elapsed(t)
          /\ truth.running = r + (IF page["index"] = 0 THEN 0 ELSE Elapsed(t))
    BY <1>2, <2>1, Zenon DEF HardwareInv
  <2>3. \A f \in {"time_offset", "time_mult", "time_shift", "time_cycles"} : got[f] = page[f]
    BY <1>2, <2>1, NameFacts, Zenon
  <2>4. Delta(got) = Elapsed(t) /\ Elapsed(t) \in Nat /\ Elapsed(t) <= Elapsed(tsc)
    BY <2>2, <2>3, DeltaElapsed, Zenon
  <2>5. Elapsed(tsc) \in Nat
    <3>1. tsc \in Nat /\ tsc <= tsc /\ page["time_cycles"] <= tsc
      BY DEF KernelInv, TypeOK
    <3>2. QED
      BY <3>1, ElapsedFacts, Zenon
  <2>6. enabled = e + Elapsed(tsc) /\ running = r + (IF page["index"] = 0 THEN 0 ELSE Elapsed(tsc))
    BY Zenon DEF KernelInv
  <2>. DEFINE x == Elapsed(t)
              y == Elapsed(tsc)
  <2>7. x \in Nat /\ y \in Nat /\ x <= y /\ Delta(got) = x
    BY <2>4, <2>5, Zenon
  <2>8. result'.enabled = U64(e + x) /\ result'.running = IF page["index"] # 0 THEN U64(r + x) ELSE r
    BY <1>1, <1>4, <1>8, <2>7, Zenon DEF Compute, RunningTime
  <2>. HIDE DEF x, y, e, r
  <2>9. e + x \in 0..(Long - 1) /\ r + x \in 0..(Long - 1)
    BY <1>5, <2>6, <2>7, LongType DEF y
  <2>10. U64(e + x) = e + x /\ U64(r + x) = r + x
    BY <2>9, U64Small, Zenon
  <2>11. result'.enabled = truth.enabled /\ result'.running = truth.running
    BY <2>2, <2>8, <2>10, <1>5, <2>7 DEF x
  <2>12. /\ result'.enabled \in Nat /\ result'.running \in Nat
         /\ result'.running <= result'.enabled /\ result'.enabled <= enabled /\ result'.running <= running
    BY <1>5, <2>6, <2>7, <2>8, <2>10 DEF y
  <2>. QED
    BY <1>6, <1>7, <1>8, <2>1, <2>11, <2>12, Zenon DEF e, r
<1>9. CASE ~UsesTime(got)
  <2>1. result'.enabled = U64(e + 0) /\ result'.running = IF page["index"] # 0 THEN U64(r + 0) ELSE r
    BY <1>1, <1>4, <1>9, Zenon DEF Compute, RunningTime
  <2>. HIDE DEF e, r
  <2>2. e + 0 \in 0..(Long - 1) /\ r + 0 \in 0..(Long - 1)
    BY <1>5, LongType
  <2>3. U64(e + 0) = e + 0 /\ U64(r + 0) = r + 0
    BY <2>2, U64Small, Zenon
  <2>4. result'.enabled = e /\ result'.running = r
    BY <1>5, <2>1, <2>3
  <2>. QED
    BY <1>5, <1>6, <1>7, <1>9, <2>4, Zenon DEF e, r
<1>. QED
  BY <1>8, <1>9, Zenon

LEMMA AcceptCount ==
  ASSUME IInv, Accept
  PROVE  ~result'.stale => /\ result'.count = truth.total /\ result'.count \in Nat
                           /\ truth.total <= total /\ "offset" \in have
<1>. USE DEF IInv
<1>1. at = 13 /\ result' = Compute(got)
  BY Zenon DEF Accept, Check
<1>2. since = 0 /\ \A f \in have \cap Fields : got[f] = page[f]
  BY AcceptSame, Zenon
<1>3. "index" \in have /\ "offset" \in have
  BY <1>1, PlaceFacts DEF PassInv
<1>4. got["index"] = page["index"] /\ got["offset"] = page["offset"] /\ page["offset"] \in Nat
  BY <1>2, <1>3, NameFacts, Zenon DEF TypeOK
<1>5. got["pmc"] \in 0..(PmcMod - 1)
  BY NameFacts, PmcFacts DEF PassInv, TypeOK
<1>6. Signed(got["pmc"]) \in Int /\ SignExtend(got["pmc"], PmcBits) = Signed(got["pmc"])
  BY <1>5, SignExtends, PmcFacts DEF Signed
<1>7. got["pmc"] = 0 => Signed(got["pmc"]) = 0
  BY PmcFacts DEF Signed
<1>8. truth.total \in Nat
  BY Zenon DEF TypeOK
<1>9. truth.total <= total => U64(truth.total) = truth.total
  <2>1. truth.total <= total => truth.total \in 0..(Long - 1)
    BY <1>8, BoundAssumption, LongType DEF KernelInv, TypeOK
  <2>. QED
    BY <2>1, U64Small, Zenon
<1>10. result'.stale = (got["index"] = 0 /\ got["pmc"] # 0)
  BY <1>1, Zenon DEF Compute
<1>11. CASE page["index"] = 0
  <2>1. truth.total <= total /\ page["offset"] = U64(truth.total - 0)
    BY <1>2, <1>3, <1>11, Zenon DEF HardwareInv
  <2>2. PICK p : /\ p = IF "rdpmc" \in cap /\ got["pmc"] # 0
                       THEN SignExtend(got["pmc"], got["pmc_width"]) ELSE 0
                 /\ result'.count = U64(got["offset"] + p)
    BY <1>1, Zenon DEF Compute
  <2>3. ASSUME got["pmc"] = 0 PROVE result'.count = truth.total
    <3>1. result'.count = U64(U64(truth.total - 0) + 0)
      BY <1>4, <2>1, <2>2, <2>3, Zenon
    <3>2. U64(U64(truth.total - 0) + 0) = U64((truth.total - 0) + 0)
      BY <1>8, U64Plus
    <3>. QED
      BY <1>8, <1>9, <2>1, <3>1, <3>2
  <2>. QED
    BY <1>3, <1>4, <1>8, <1>10, <1>11, <2>1, <2>3, Zenon
<1>12. CASE page["index"] # 0
  <2>1. "rdpmc" \in cap /\ UsesPmc(got)
    BY <1>4, <1>12, Zenon DEF KernelInv, UsesPmc
  <2>2. "pmc" \in have /\ "pmc_width" \in have
    BY <1>1, <2>1, PlaceFacts DEF PassInv
  <2>3. got["pmc_width"] = PmcBits
    BY <1>2, <2>2, NameFacts, Zenon DEF KernelInv
  <2>4. truth.total <= total /\ page["offset"] = U64(truth.total - Signed(got["pmc"]))
    BY <1>2, <1>12, <2>2, Zenon DEF HardwareInv
  <2>5. result'.count = U64(got["offset"] + Signed(got["pmc"]))
    BY <1>1, <1>6, <1>7, <2>1, <2>3, Zenon DEF Compute
  <2>6. PICK s \in Int : s = Signed(got["pmc"])
    BY <1>6, Zenon
  <2>7. U64(U64(truth.total - s) + s) = U64((truth.total - s) + s) /\ (truth.total - s) + s = truth.total
    <3>1. truth.total - s \in Int /\ (truth.total - s) + s = truth.total
      BY <1>8
    <3>. QED
      BY <3>1, U64Plus, Zenon
  <2>8. result'.count = truth.total
    BY <1>4, <1>9, <2>4, <2>5, <2>6, <2>7, Zenon
  <2>. QED
    BY <1>3, <1>8, <2>4, <2>8, Zenon
<1>. QED
  BY <1>11, <1>12, Zenon

LEMMA AcceptInv ==
  ASSUME IInv, Accept
  PROVE  IInv'
<1>. USE DEF IInv
<1>1. /\ UNCHANGED <<cap, page, counter, tsc, total, enabled, running, updates, truth>>
      /\ at' = 0 /\ got' = Cleared /\ have' = {} /\ since' = 0 /\ result' = Compute(got)
  BY Zenon DEF Accept, kernelVars
<1>2. SeqInv'
  BY <1>1 DEF SeqInv, Cleared
<1>3. got' \in [Locals -> Nat] /\ got'["pmc"] = 0
  BY <1>1, NameFacts, Zenon DEF Cleared
<1>4. DOMAIN result' = DOMAIN NoResult
  BY <1>1, Zenon DEF Compute, NoResult
<1>5. TypeOK'
  BY <1>1, <1>3, <1>4 DEF TypeOK, Check
<1>6. KernelInv'
  BY <1>1, Zenon DEF KernelInv, Elapsed
<1>7. PassInv'
  BY <1>1, <1>3, PmcFacts DEF PassInv
<1>8. HardwareInv'
  BY <1>1, Zenon DEF HardwareInv
<1>9. ResultInv' /\ CountTrue' /\ TimesTrue'
  <2>1. /\ result'.timed <=> "time" \in cap /\ page["time_enabled"] # page["time_running"]
        /\ result'.timed => result'.enabled = truth.enabled /\ result'.running = truth.running
        /\ ~result'.timed => /\ result'.enabled = page["time_enabled"]
                             /\ result'.running = page["time_running"]
        /\ result'.enabled \in Nat /\ result'.running \in Nat
        /\ result'.enabled <= enabled /\ result'.running <= running
    BY AcceptTimes, Zenon
  <2>2. ~result'.stale => /\ result'.count = truth.total /\ result'.count \in Nat
                          /\ truth.total <= total
    BY AcceptCount, Zenon
  <2>3. ~result'.stale => result'.count \in Nat /\ result'.count <= total'
    BY <1>1, <2>2, Zenon
  <2>4. \/ result'.enabled <= page'["time_enabled"] /\ result'.running <= page'["time_running"]
        \/ "time" \in cap' /\ page'["time_enabled"] # page'["time_running"]
    BY <1>1, <2>1
  <2>5. ResultInv'
    BY <1>1, <2>1, <2>3, <2>4, Zenon DEF ResultInv
  <2>6. CountTrue' /\ TimesTrue'
    BY <1>1, <2>1, <2>2, Zenon DEF CountTrue, TimesTrue
  <2>. QED
    BY <2>5, <2>6, Zenon
<1>10. ScaleExact'
  <2>. SUFFICES ASSUME ~result'.stale, result'.running # 0,
                       (result'.count % result'.running) * result'.enabled < Long
                PROVE  LET exact == (result'.count * result'.enabled) \div result'.running
                       IN  result'.scaled = U64(exact) /\ exact >= result'.count
    BY Zenon DEF ScaleExact
  <2>1. /\ result'.count \in Nat /\ result'.enabled \in Nat /\ result'.running \in Nat \ {0}
        /\ result'.running <= result'.enabled
    BY AcceptTimes, AcceptCount, Zenon
  <2>2. result'.scaled = Scale(result'.count, result'.enabled, result'.running)
    BY <1>1, Zenon DEF Compute
  <2>. QED
    BY <2>1, <2>2, ScaleSplit, ScaleAbove, Zenon
<1>. QED
  BY <1>2, <1>5, <1>6, <1>7, <1>8, <1>9, <1>10, Zenon

LEMMA StepInv ==
  ASSUME IInv, [Next]_vars
  PROVE  IInv'
<1>1. ASSUME NEW i \in Indexes \cup {0}, NEW v \in 0..(Pow2[PmcBits] - 1), NEW c \in Clocks, Update(i, v, c)
      PROVE  IInv'
  BY <1>1, UpdateInv, Zenon
<1>2. CASE Count
  BY <1>2, CountInv, Zenon
<1>3. CASE Tick
  BY <1>3, TickInv, Zenon
<1>4. CASE Begin
  BY <1>4, BeginInv, Zenon
<1>5. CASE Read
  BY <1>5, ReadInv, Zenon
<1>6. CASE Retry
  BY <1>6, RetryInv, Zenon
<1>7. CASE Accept
  BY <1>7, AcceptInv, Zenon
<1>8. CASE UNCHANGED vars
  <2>. USE <1>8 DEF vars, kernelVars, readerVars, IInv
  <2>1. SeqInv'
    BY Zenon DEF SeqInv, Plus
  <2>2. TypeOK'
    BY Zenon DEF TypeOK
  <2>3. KernelInv' /\ HardwareInv'
    BY Zenon DEF KernelInv, HardwareInv, Elapsed
  <2>4. PassInv'
    BY Zenon DEF PassInv, UsesTime, UsesPmc
  <2>5. ResultInv'
    BY Zenon DEF ResultInv
  <2>6. CountTrue' /\ TimesTrue'
    BY Zenon DEF CountTrue, TimesTrue
  <2>7. ScaleExact'
    BY Zenon DEF ScaleExact
  <2>. QED
    BY <2>1, <2>2, <2>3, <2>4, <2>5, <2>6, <2>7, Zenon
<1>. QED
  BY <1>1, <1>2, <1>3, <1>4, <1>5, <1>6, <1>7, <1>8, Zenon DEF Next, Kernel, Reader

(* What the loop returns is true, for every width of the counter and of    *)
(* the clock, every value the kernel sets the counter to and every number  *)
(* of updates and of passes of the loop.                                   *)
THEOREM TrueResults == Spec => []ResultTrue
<1>1. IInv => ResultTrue
  BY Zenon DEF IInv, ResultTrue
<1>. QED
  BY <1>1, InitInv, StepInv, PTL DEF Spec

(* The results of one caller never go back, from a result with the clock   *)
(* to one without it or the other way round.                               *)
THEOREM MonotoneResults == Spec => ResultsMonotone
<1>1. ASSUME IInv, [Next]_vars
      PROVE  [at = Check /\ at' = 0 =>
                /\ result'.enabled >= result.enabled
                /\ result'.running >= result.running
                /\ ~result.stale /\ ~result'.stale => result'.count >= result.count]_vars
  <2>. SUFFICES ASSUME at = Check, at' = 0
                PROVE  /\ result'.enabled >= result.enabled
                       /\ result'.running >= result.running
                       /\ ~result.stale /\ ~result'.stale => result'.count >= result.count
    BY Zenon
  <2>1. Accept
    BY <1>1 DEF Next, Kernel, Reader, Update, Count, Tick, Begin, Read, Retry, vars, readerVars, Check
  <2>2. result'.enabled >= result.enabled /\ result'.running >= result.running
    BY <1>1, <2>1, AcceptTimes, Zenon DEF IInv, ResultInv, TypeOK
  <2>3. ~result.stale /\ ~result'.stale => result'.count >= result.count
    BY <1>1, <2>1, AcceptCount, Zenon DEF IInv, ResultInv, TypeOK
  <2>. QED
    BY <2>2, <2>3, Zenon
<1>. QED
  BY <1>1, InitInv, StepInv, PTL DEF Spec, ResultsMonotone

(* From any clock value whose time fits into a u64, whether its product    *)
(* with time_mult does or not, the way to a timestamp and back never leads *)
(* past it, and loses less than a ns and a tick.                           *)
THEOREM SampleClockExact == Spec => []SampleClock
<1>1. ASSUME IInv PROVE SampleClock
  <2>1. PICK c \in Clocks : c[1] = page["time_mult"] /\ c[2] = page["time_shift"]
    BY <1>1, Zenon DEF IInv, KernelInv
  <2>2. tsc \in 0..MaxTsc /\ 0..tsc \subseteq 0..MaxTsc
    BY <1>1, BoundAssumption DEF IInv, KernelInv
  <2>. QED
    BY <2>1, <2>2, ThereAndBack, Zenon DEF SampleClock
<1>. QED
  BY <1>1, InitInv, StepInv, PTL DEF Spec

=============================================================================
