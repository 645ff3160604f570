--------------------------- MODULE AttrListProofs ---------------------------
(* Proofs about AttrList, for every set of kinds of lists, of sizes of data *)
(* and of what is read beyond the end of the data, and any number of       *)
(* records.                                                                *)
EXTENDS AttrList, TLAPS

(* The attributes and rules that are open, and the records of p that are   *)
(* not: p is one of them or, for the list itself, -1.                      *)
Open == {nests[i] : i \in 1..Len(nests)}
Kids(p) == {o \in recs : parent[o] = p}
Closed(p) == Kids(p) \ Open

(* Where the records of p begin, and where the record after o is. *)
Base(p) == IF p = -1 THEN 0 ELSE p + Before[fam]
Pace(l) == IF fam \in {"FAN"} \cup Whole THEN l ELSE Align4(l)
next == [o \in recs |-> o + Pace(length[o])]

(* The records K lie one after the other from b up to u. *)
Chain(b, K, nx, u) ==
  /\ b \in K \cup {u}
  /\ b <= u
  /\ \A o \in K :
       /\ b <= o /\ o < nx[o] /\ nx[o] <= u
       /\ nx[o] \in K \cup {u}
       /\ \A q \in K : q <= o \/ nx[o] <= q

(* The i-th of the open attributes, the list itself being the 0-th, and    *)
(* where its closed records end.                                           *)
Level(i) == IF i = 0 THEN -1 ELSE nests[i]
Reach(i) == IF i = Len(nests) THEN tail ELSE nests[i + 1]

HeaderOf(o) == IF parent[o] = -1 THEN Sizeof[fam] ELSE Inner[fam]

ListType ==
  /\ fam \in Family
  /\ recs \subseteq Nat
  /\ length \in [recs -> Nat]
  /\ parent \in [recs -> recs \cup {-1}]
  /\ nested \subseteq recs
  /\ tail \in Nat
  /\ nests \in Seq(nested)

Stack ==
  /\ \A i \in 1..Len(nests) : parent[nests[i]] = Level(i - 1)
  /\ \A i, j \in 1..Len(nests) : i < j => nests[i] < nests[j]
  /\ nested # {} => fam \in {"NFA"} \cup Tables
  /\ fam \in Tables => Len(nests) <= 1

Records ==
  /\ \A o \in recs : o < tail
  /\ \A o \in recs : parent[o] \in nested \cup {-1}
  /\ \A o \in recs \ Open : next[o] <= tail /\ HeaderOf(o) <= length[o]
  /\ \A o \in recs \ Open, c \in Open : c < o \/ next[o] <= c
  /\ fam # "FAN" => tail % 4 = 0 /\ \A o \in recs : o % 4 = 0

Chains ==
  /\ \A i \in 0..Len(nests) : Chain(Base(Level(i)), Closed(Level(i)), next, Reach(i))
  /\ \A p \in nested \ Open :
       Chain(Base(p), Closed(p), next, p + length[p] - Behind[fam])

ListInv == ListType /\ Stack /\ Records /\ Chains

(* There are not more than MaxRecs records, so that they can be counted. *)
Few == IsFiniteSet(recs) /\ Cardinality(recs) <= MaxRecs

Counted ==
  /\ Cardinality({}) = 0
  /\ \A S \in SUBSET recs : Cardinality(S) \in 0..MaxRecs
  /\ \A S \in SUBSET recs : \A a \in recs \ S : Cardinality(S \cup {a}) = Cardinality(S) + 1

(* Where the records of the attribute that is walked end. *)
Upto == IF root = -1 THEN tail ELSE root + length[root] - Behind[fam]

Passed == {o \in Kids(root) : o < off}

Waiting ==
  /\ size = 0 /\ root = -1 /\ off = 0 /\ len = 0 /\ seen = {}
  /\ skip = 0 /\ nth = 0 /\ ret = 0

Given ==
  /\ nests = <<>> /\ size \in 0..tail
  /\ root \in nested \cup {-1}
  /\ root # -1 => root + length[root] <= size
  /\ fam \in {"TLV", "XT", "TAG"} => size = tail
  /\ skip \in Skips \cup {0}

Walking ==
  /\ ret = 0
  /\ off \in Kids(root) \cup {Upto}
  /\ len = Limit - off
  /\ off # Base(root) => \E q \in Kids(root) : q < off /\ next[q] = off
  /\ \A o \in Passed : o < Limit /\ (fam = "EBT" \/ o + length[o] <= Limit)
  /\ seen = {o \in Passed : Cardinality({p \in Kids(root) : p < o}) >= skip}
  /\ nth = Cardinality(Passed)

Done == OnlyWhole /\ AllWhole /\ TableVerdict

WalkInv ==
  /\ reader \in {"waits", "walks", "done"}
  /\ reader = "waits" => Waiting
  /\ reader # "waits" => Given
  /\ reader = "walks" => Walking
  /\ reader = "done" => Done

-----------------------------------------------------------------------------
(* Arithmetic of the sizes. *)

LEMMA Aligned ==
  \A n \in Nat :
    /\ Align4(n) \in Nat /\ n <= Align4(n) /\ Align4(n) % 4 = 0
    /\ n % 4 = 0 => Align4(n) = n
  BY DEF Align4

LEMMA AlignedBelow ==
  \A n, m \in Nat : m % 4 = 0 /\ n <= m => Align4(n) <= m
  BY DEF Align4

LEMMA MultiplesOf4 ==
  \A n, m \in Nat :
    m % 4 = 0 /\ n % 4 = 0 => (n + m) % 4 = 0 /\ (m <= n => (n - m) % 4 = 0)
  OBVIOUS

(* The step of TLV_LIST_STEP fits in its __u16: a length field that passes *)
(* TLV_LIST_CHECK is at most 65532, for the space left is a multiple of 4. *)
LEMMA StepOfTLV ==
  \A n, l \in Nat :
    n % 4 = 0 /\ l <= n % 65536 => l <= n /\ Align4(l) % 65536 = Align4(l)
  BY DEF Align4

LEMMA Families ==
  ASSUME fam \in Family
  PROVE  /\ fam \in {"NLMSG", "RTA", "NFA", "RTNH", "FAN", "TLV", "XT", "EBT", "TAG"}
         /\ Sizeof[fam] \in Nat /\ Sizeof[fam] >= 4 /\ (fam # "FAN" => Sizeof[fam] % 4 = 0)
         /\ fam \in {"NFA"} \cup Tables =>
              /\ Before[fam] \in Nat /\ Before[fam] >= Sizeof[fam] /\ Before[fam] % 4 = 0
              /\ Inner[fam] \in Nat /\ Inner[fam] >= 4 /\ Inner[fam] % 4 = 0
              /\ Behind[fam] \in Nat /\ Behind[fam] % 4 = 0
         /\ fam = "NFA" =>
              Sizeof[fam] = 4 /\ Before[fam] = 4 /\ Inner[fam] = 4 /\ Behind[fam] = 0
<1>1. fam \in {"NLMSG", "RTA", "NFA", "RTNH", "FAN", "TLV", "XT", "EBT", "TAG"}
  BY FamilyAssumption, Zenon DEF Sizeof
<1>2. /\ Sizeof["NLMSG"] = 16 /\ Sizeof["RTA"] = 4 /\ Sizeof["NFA"] = 4
      /\ Sizeof["RTNH"] = 8 /\ Sizeof["FAN"] = 24 /\ Sizeof["TLV"] = 4
      /\ Sizeof["XT"] = 112 /\ Sizeof["EBT"] = 48 /\ Sizeof["TAG"] = 8
  BY Zenon DEF Sizeof
<1>3. /\ Before["NFA"] = 4 /\ Before["XT"] = 112 /\ Before["EBT"] = 112
      /\ Inner["NFA"] = 4 /\ Inner["XT"] = 32 /\ Inner["EBT"] = 40
      /\ Behind["NFA"] = 0 /\ Behind["XT"] = 40 /\ Behind["EBT"] = 48
  BY Zenon DEF Before, Inner, Behind
<1>4. QED
  BY <1>1, <1>2, <1>3 DEF Tables

(* What a record takes in the buffer is what NEXT passes over, and its     *)
(* length field covers its header.                                         *)
LEMMA Sizes ==
  ASSUME fam \in Family, NEW n \in Nat, nests # <<>> => fam \in {"NFA"} \cup Tables,
         NEW h, h = IF nests = <<>> THEN Sizeof[fam] ELSE Inner[fam]
  PROVE  /\ Field(n) \in Nat /\ SPACE(n) \in Nat
         /\ h <= Field(n) /\ Field(n) <= SPACE(n) /\ 0 < SPACE(n)
         /\ Pace(Field(n)) = SPACE(n)
         /\ fam # "FAN" => SPACE(n) % 4 = 0
<1>1. h \in Nat /\ h >= 4
  BY Families, Zenon
<1>2. LENGTH(n) = h + n
  BY Zenon DEF LENGTH
<1>3. PICK m \in Nat : m = LENGTH(n) /\ m = h + n
  BY <1>1, <1>2
<1>4. Align4(m) \in Nat /\ m <= Align4(m) /\ Align4(m) % 4 = 0
  BY Aligned, Zenon
<1>5. /\ SPACE(n) = IF fam = "FAN" THEN m ELSE Align4(m)
      /\ Field(n) = IF fam \in Whole THEN SPACE(n) ELSE m
  BY <1>3, Zenon DEF SPACE, Field
<1>6. /\ Pace(m) = IF fam \in {"FAN"} \cup Whole THEN m ELSE Align4(m)
      /\ Pace(Align4(m)) = IF fam \in {"FAN"} \cup Whole THEN Align4(m) ELSE Align4(Align4(m))
      /\ "FAN" \notin Whole
  BY DEF Pace, Whole
<1>7. PICK k \in Nat : k = Align4(m) /\ m <= k /\ k % 4 = 0 /\ 0 < m
  BY <1>1, <1>3, <1>4
<1>8. CASE fam = "FAN"
  BY <1>1, <1>3, <1>5, <1>6, <1>7, <1>8
<1>9. CASE fam # "FAN" /\ fam \in Whole
  BY <1>1, <1>3, <1>5, <1>6, <1>7, <1>9
<1>10. CASE fam # "FAN" /\ fam \notin Whole
  BY <1>1, <1>3, <1>5, <1>6, <1>7, <1>10
<1>11. QED
  BY <1>8, <1>9, <1>10, Zenon

LEMMA PaceType ==
  ASSUME NEW l \in Nat
  PROVE  Pace(l) \in Nat /\ l <= Pace(l) /\ (l % 4 = 0 => Pace(l) = l)
  BY Aligned DEF Pace

-----------------------------------------------------------------------------
(* Chains of records. *)

LEMMA ChainNone ==
  ASSUME NEW b \in Nat, NEW nx
  PROVE  Chain(b, {}, nx, b)
  BY DEF Chain

LEMMA ChainSame ==
  ASSUME NEW b, NEW K, NEW nx, NEW ny, NEW u, Chain(b, K, nx, u),
         \A o \in K : ny[o] = nx[o]
  PROVE  Chain(b, K, ny, u)
  BY Zenon DEF Chain

LEMMA ChainGrows ==
  ASSUME NEW b \in Nat, NEW K \in SUBSET Nat, NEW nx, NEW ny, NEW u \in Nat, NEW v \in Nat,
         Chain(b, K, nx, u), u < v, ny[u] = v,
         \A o \in K : nx[o] \in Nat /\ ny[o] = nx[o]
  PROVE  Chain(b, K \cup {u}, ny, v)
<1>1. \A o \in K : b <= o /\ o < nx[o] /\ nx[o] <= u /\ nx[o] \in K \cup {u}
  BY Zenon DEF Chain
<1>2. \A o \in K : o < u
  BY <1>1
<1>3. b \in K \cup {u} /\ b <= v
  BY DEF Chain
<1>4. ASSUME NEW o \in K
      PROVE  /\ b <= o /\ o < ny[o] /\ ny[o] <= v
             /\ ny[o] \in (K \cup {u}) \cup {v}
             /\ \A q \in K \cup {u} : q <= o \/ ny[o] <= q
  BY <1>1, <1>4 DEF Chain
<1>5. /\ b <= u /\ u < ny[u] /\ ny[u] <= v
      /\ ny[u] \in (K \cup {u}) \cup {v}
      /\ \A q \in K \cup {u} : q <= u \/ ny[u] <= q
  BY <1>2 DEF Chain
<1>6. QED
  BY <1>3, <1>4, <1>5 DEF Chain

(* Walking along a chain: from one of its records the walk gets to the     *)
(* next one or to the end, and has then passed that record and those       *)
(* before.                                                                 *)
LEMMA ChainStep ==
  ASSUME NEW b \in Nat, NEW K \in SUBSET Nat, NEW nx, NEW u \in Nat,
         Chain(b, K, nx, u), NEW o \in K, nx[o] \in Nat, NEW q \in K
  PROVE  q < nx[o] <=> q < o \/ q = o
<1>1. q \in Nat /\ o \in Nat /\ o < nx[o] /\ (q <= o \/ nx[o] <= q)
  BY Zenon DEF Chain
<1>2. QED
  BY <1>1

-----------------------------------------------------------------------------
(* What the invariant of the list says of its parts. *)

LEMMA OpenFacts ==
  ASSUME ListInv
  PROVE  /\ Open \subseteq nested /\ Len(nests) \in Nat
         /\ \A i \in 1..Len(nests) : nests[i] \in Open /\ nests[i] \in recs /\ nests[i] \in Nat
         /\ Parent = Level(Len(nests))
         /\ \A i \in 0..Len(nests) : Level(i) \in Open \cup {-1} /\ Reach(i) \in Nat
         /\ nests = <<>> <=> Len(nests) = 0
<1> USE DEF ListInv, ListType
<1>1. Len(nests) \in Nat /\ \A i \in 1..Len(nests) : nests[i] \in nested
  OBVIOUS
<1>2. Open \subseteq nested /\ \A i \in 1..Len(nests) : nests[i] \in Open
  BY <1>1, Zenon DEF Open
<1>3. nests = <<>> <=> Len(nests) = 0
  OBVIOUS
<1>4. Parent = Level(Len(nests))
  BY <1>3, Zenon DEF Parent, Level
<1>5. ASSUME NEW i \in 0..Len(nests)
      PROVE  Level(i) \in Open \cup {-1} /\ Reach(i) \in Nat
  <2>1. i = 0 \/ i \in 1..Len(nests)
    BY <1>1
  <2>2. i = Len(nests) \/ i + 1 \in 1..Len(nests)
    BY <1>1
  <2>3. Level(i) \in Open \cup {-1}
    BY <1>2, <2>1, Zenon DEF Level
  <2>4. tail \in Nat /\ (i + 1 \in 1..Len(nests) => nests[i + 1] \in Nat)
    BY <1>1, Zenon
  <2>5. QED
    BY <2>2, <2>3, <2>4, Zenon DEF Reach
<1>6. QED
  BY <1>1, <1>2, <1>3, <1>4, <1>5, Zenon

LEMMA RecordFacts ==
  ASSUME ListInv
  PROVE  /\ \A o \in recs : o \in Nat /\ next[o] \in Nat /\ o + length[o] <= next[o]
         /\ \A p : Kids(p) \subseteq recs /\ Closed(p) \subseteq recs
         /\ tail \notin recs
<1>1. \A o \in recs : o \in Nat /\ length[o] \in Nat /\ o < tail
  BY Zenon DEF ListInv, ListType, Records
<1>2. \A o \in recs : next[o] \in Nat /\ o + length[o] <= next[o]
  BY <1>1, PaceType DEF next
<1>3. \A p : Kids(p) \subseteq recs /\ Closed(p) \subseteq recs
  BY Zenon DEF Kids, Closed
<1>4. tail \notin recs
  BY <1>1
<1>5. QED
  BY <1>1, <1>2, <1>3, <1>4, Zenon

(* The levels are different attributes. *)
LEMMA Levels ==
  ASSUME ListInv, NEW i \in 0..Len(nests), NEW j \in 0..Len(nests), i < j
  PROVE  Level(i) < Level(j) /\ Level(i) # Level(j)
<1>1. Len(nests) \in Nat /\ j \in 1..Len(nests) /\ nests[j] \in Nat
  BY OpenFacts
<1>2. CASE i = 0
  BY <1>1, <1>2 DEF Level
<1>3. CASE i # 0
  <2>1. i \in 1..Len(nests) /\ nests[i] \in Nat
    BY <1>1, <1>3, OpenFacts
  <2>2. nests[i] < nests[j]
    BY <1>1, <2>1, Zenon DEF ListInv, Stack
  <2>3. QED
    BY <1>1, <1>3, <2>1, <2>2 DEF Level
<1>4. QED
  BY <1>2, <1>3, Zenon

LEMMA BaseType ==
  ASSUME ListInv, NEW p \in nested \cup {-1}
  PROVE  Base(p) \in Nat
<1>1. fam \in Family /\ nested \subseteq Nat
  BY Zenon DEF ListInv, ListType
<1>2. p # -1 => fam \in {"NFA"} \cup Tables
  BY Zenon DEF ListInv, Stack
<1>3. QED
  BY <1>1, <1>2, Families DEF Base

-----------------------------------------------------------------------------
(* A record is added: what PutRecord does to the parts of the invariant. *)

LEMMA Added ==
  ASSUME ListInv, NEW l \in Nat, NEW s \in Nat, s > 0, PutRecord(l, s), fam' = fam
  PROVE  /\ recs' = recs \cup {tail} /\ tail' = tail + s /\ tail' \in Nat /\ tail < tail'
         /\ recs' \subseteq Nat
         /\ length' \in [recs' -> Nat] /\ parent' \in [recs' -> recs' \cup {-1}]
         /\ \A o \in recs : /\ o # tail
                            /\ length'[o] = length[o] /\ parent'[o] = parent[o]
                            /\ next'[o] = next[o]
         /\ length'[tail] = l /\ parent'[tail] = Parent /\ next'[tail] = tail + Pace(l)
         /\ \A p : Kids(p)' = IF p = Parent THEN Kids(p) \cup {tail} ELSE Kids(p)
         /\ reader = "waits"

<1>1. /\ recs \subseteq Nat /\ tail \in Nat /\ length \in [recs -> Nat]
      /\ parent \in [recs -> recs \cup {-1}] /\ nested \subseteq recs /\ tail \notin recs
  BY RecordFacts, Zenon DEF ListInv, ListType
<1>2. /\ recs' = recs \cup {tail} /\ tail' = tail + s /\ reader = "waits"
      /\ length' = [o \in recs' |-> IF o = tail THEN l ELSE length[o]]
      /\ parent' = [o \in recs' |-> IF o = tail THEN Parent ELSE parent[o]]
  BY Zenon DEF PutRecord
<1>3. tail' \in Nat /\ tail < tail' /\ recs' \subseteq Nat /\ \A o \in recs : o # tail
  BY <1>1, <1>2
<1>4. Parent \in recs' \cup {-1}
  BY <1>1, <1>2, OpenFacts DEF Parent, Level
<1>5. /\ length' \in [recs' -> Nat] /\ parent' \in [recs' -> recs' \cup {-1}]
      /\ \A o \in recs : length'[o] = length[o] /\ parent'[o] = parent[o]
      /\ length'[tail] = l /\ parent'[tail] = Parent
  BY <1>1, <1>2, <1>3, <1>4, Zenon
<1>6. \A m : Pace(m)' = Pace(m)
  BY Zenon DEF Pace
<1>7. next' = [o \in recs' |-> o + Pace(length'[o])]
  BY Zenon DEF next, Pace
<1>8. (\A o \in recs : next'[o] = next[o]) /\ next'[tail] = tail + Pace(l)
  BY <1>2, <1>5, <1>7, Zenon DEF next
<1>9. ASSUME NEW p
      PROVE  Kids(p)' = IF p = Parent THEN Kids(p) \cup {tail} ELSE Kids(p)
  BY <1>2, <1>3, <1>5, Zenon DEF Kids
<1>10. QED
  BY <1>2, <1>3, <1>5, <1>8, <1>9, Zenon

LEMMA SameOpen ==
  ASSUME nests' = nests
  PROVE  /\ Open' = Open
         /\ \A i : Level(i)' = Level(i)
         /\ \A i \in 0..Len(nests) : i # Len(nests) => Reach(i)' = Reach(i)
  BY Zenon DEF Open, Level, Reach

LEMMA SameBase ==
  ASSUME fam' = fam
  PROVE  \A p : Base(p)' = Base(p)
  BY Zenon DEF Base

(* NLMSG_LENGTH and the like: a record that is complete goes to the end of *)
(* the innermost open attribute.                                           *)
LEMMA PutInv ==
  ASSUME ListInv, NEW n \in Nat, Put(n)
  PROVE  ListInv'
<1> DEFINE l == Field(n)
           s == SPACE(n)
           h == IF nests = <<>> THEN Sizeof[fam] ELSE Inner[fam]
<1>1. PutRecord(l, s) /\ fam' = fam /\ nested' = nested /\ nests' = nests
  BY Zenon DEF Put
<1>2. fam \in Family /\ (nests # <<>> => fam \in {"NFA"} \cup Tables)
  <2>1. nests # <<>> => nested # {}
    BY OpenFacts, 1 \in 1..Len(nests) \/ Len(nests) = 0, Zenon
  <2>2. QED
    BY <2>1, Zenon DEF ListInv, ListType, Stack
<1>3. /\ l \in Nat /\ s \in Nat /\ h <= l /\ l <= s /\ 0 < s /\ Pace(l) = s
      /\ fam # "FAN" => s % 4 = 0
  BY <1>2, Sizes, Zenon
<1> HIDE DEF l, s
<1>4. /\ recs' = recs \cup {tail} /\ tail' = tail + s /\ tail' \in Nat /\ tail < tail'
      /\ recs' \subseteq Nat
      /\ length' \in [recs' -> Nat] /\ parent' \in [recs' -> recs' \cup {-1}]
      /\ \A o \in recs : /\ o # tail
                         /\ length'[o] = length[o] /\ parent'[o] = parent[o]
                         /\ next'[o] = next[o]
      /\ length'[tail] = l /\ parent'[tail] = Parent /\ next'[tail] = tail'
      /\ \A p : Kids(p)' = IF p = Parent THEN Kids(p) \cup {tail} ELSE Kids(p)
  BY <1>1, <1>3, Added
<1>5. /\ Open' = Open /\ Open \subseteq nested /\ nested \subseteq recs /\ tail \notin Open
      /\ Parent \in Open \cup {-1}
  <2>1. Open' = Open
    BY <1>1, SameOpen, Zenon
  <2>2. nested \subseteq recs /\ Open \subseteq nested /\ tail \notin recs
    BY <1>4, OpenFacts, Zenon DEF ListInv, ListType
  <2>3. Len(nests) \in 0..Len(nests)
    BY OpenFacts
  <2>4. Parent \in Open \cup {-1}
    BY <2>3, OpenFacts, Zenon
  <2>5. QED
    BY <2>1, <2>2, <2>4, Zenon
<1>6. ListType'
  BY <1>1, <1>4, Zenon DEF ListInv, ListType
<1>7. Stack'
  <2>1. \A i \in 1..Len(nests) : parent'[nests[i]] = parent[nests[i]]
    BY <1>4, OpenFacts, Zenon
  <2>2. \A i \in 1..Len(nests) : parent'[nests'[i]] = Level(i - 1)'
    BY <1>1, <2>1, SameOpen, Zenon DEF ListInv, Stack
  <2>3. QED
    BY <1>1, <2>2, Zenon DEF ListInv, Stack
<1>8. Records'
  <2>1. /\ recs \subseteq Nat /\ tail \in Nat
        /\ \A o \in recs : o < tail /\ parent[o] \in nested \cup {-1}
        /\ \A o \in recs \ Open : next[o] <= tail /\ HeaderOf(o) <= length[o]
        /\ \A o \in recs \ Open, c \in Open : c < o \/ next[o] <= c
        /\ fam # "FAN" => tail % 4 = 0 /\ \A o \in recs : o % 4 = 0
    BY Zenon DEF ListInv, ListType, Records
  <2>2. \A o \in recs' : o < tail' /\ parent'[o] \in nested' \cup {-1}
    BY <1>1, <1>4, <1>5, <2>1
  <2>3. ASSUME NEW o \in recs' \ Open' PROVE next'[o] <= tail' /\ HeaderOf(o)' <= length'[o]
    <3>1. CASE o = tail
      <4>1. Parent = -1 <=> nests = <<>>
        BY OpenFacts, nests # <<>> => Len(nests) \in 1..Len(nests) DEF Parent
      <4>2. HeaderOf(o)' = h
        BY <1>1, <1>4, <3>1, <4>1, Zenon DEF HeaderOf
      <4> HIDE DEF h
      <4>3. QED
        BY <1>3, <1>4, <3>1, <4>2
    <3>2. CASE o # tail
      <4>1. o \in recs \ Open
        BY <1>4, <1>5, <2>3, <3>2, Zenon
      <4>2. HeaderOf(o)' = HeaderOf(o)
        BY <1>1, <1>4, <4>1, Zenon DEF HeaderOf
      <4>3. next[o] \in Nat
        BY <4>1, RecordFacts, Zenon
      <4>4. QED
        BY <1>4, <2>1, <4>1, <4>2, <4>3
    <3>3. QED
      BY <3>1, <3>2, Zenon
  <2>4. \A o \in recs' \ Open', c \in Open' : c < o \/ next'[o] <= c
    BY <1>4, <1>5, <2>1
  <2>5. fam' # "FAN" => tail' % 4 = 0 /\ \A o \in recs' : o % 4 = 0
    BY <1>1, <1>3, <1>4, <2>1, MultiplesOf4
  <2>6. QED
    BY <1>4, <2>2, <2>3, <2>4, <2>5, Zenon DEF Records
<1>9. Chains'
  <2>1. \A p : Closed(p)' = IF p = Parent THEN Closed(p) \cup {tail} ELSE Closed(p)
    BY <1>4, <1>5, Zenon DEF Closed
  <2>2. \A p : \A o \in Closed(p) : o \in Nat /\ next[o] \in Nat /\ next'[o] = next[o]
    BY <1>4, RecordFacts, Zenon
  <2>3. ASSUME NEW i \in 0..Len(nests)
        PROVE  Chain(Base(Level(i)), Closed(Level(i)), next, Reach(i))'
    <3>1. Level(i)' = Level(i) /\ \A p : Base(p)' = Base(p)
      BY <1>1, SameOpen, SameBase, Zenon
    <3>2. Chain(Base(Level(i)), Closed(Level(i)), next, Reach(i))
      BY Zenon DEF ListInv, Chains
    <3> DEFINE p == Level(i)
               b == Base(p)
               K == Closed(p)
    <3>3. Base(Level(i))' = b /\ b \in Nat /\ K \in SUBSET Nat
      BY <1>5, <2>2, <3>1, OpenFacts, BaseType, Zenon
    <3>4. CASE i = Len(nests)
      <4>1. p = Parent /\ Reach(i) = tail /\ Reach(i)' = tail'
        BY <1>1, <3>4, OpenFacts, Zenon DEF Reach
      <4>2. Closed(Level(i))' = K \cup {tail}
        BY <2>1, <3>1, <4>1, Zenon
      <4> HIDE DEF K, b
      <4>3. Chain(b, K, next, tail)
        BY <3>2, <4>1, Zenon DEF K, b
      <4>4. \A o \in K : next[o] \in Nat /\ next'[o] = next[o]
        BY <2>2, Zenon DEF K
      <4>5. Chain(b, K \cup {tail}, next', tail')
        BY <1>4, <3>3, <4>3, <4>4, ChainGrows, Zenon DEF ListInv, ListType
      <4>6. QED
        BY <3>3, <4>1, <4>2, <4>5, Zenon
    <3>5. CASE i # Len(nests)
      <4>1. Reach(i)' = Reach(i) /\ p # Parent
        BY <1>1, <3>5, SameOpen, OpenFacts, Levels
      <4>2. Closed(Level(i))' = K
        BY <2>1, <3>1, <4>1, Zenon
      <4>3. Chain(b, K, next', Reach(i))
        BY <2>2, <3>2, ChainSame, Zenon
      <4> HIDE DEF K, b
      <4>4. QED
        BY <3>3, <4>1, <4>2, <4>3, Zenon
    <3>6. QED
      BY <3>4, <3>5, Zenon
  <2>4. ASSUME NEW p \in nested \ Open
        PROVE  Chain(Base(p), Closed(p), next, p + length[p] - Behind[fam])'
    <3>1. Chain(Base(p), Closed(p), next, p + length[p] - Behind[fam])
      BY Zenon DEF ListInv, Chains
    <3>2. Closed(p)' = Closed(p) /\ Base(p)' = Base(p) /\ length'[p] = length[p]
      BY <1>1, <1>4, <1>5, <2>1, RecordFacts, SameBase, p # -1, Zenon DEF ListInv, ListType
    <3>3. Chain(Base(p), Closed(p), next', p + length[p] - Behind[fam])
      BY <2>2, <3>1, ChainSame, Zenon
    <3>4. QED
      BY <1>1, <3>2, <3>3, Zenon
  <2>5. QED
    BY <1>1, <1>5, <2>3, <2>4, Zenon DEF Chains
<1>10. QED
  BY <1>6, <1>7, <1>8, <1>9, Zenon DEF ListInv

LEMMA Pushed ==
  ASSUME NEW S, NEW s \in Seq(S), NEW T, S \subseteq T, NEW e \in T
  PROVE  /\ Append(s, e) \in Seq(T) /\ Len(Append(s, e)) = Len(s) + 1
         /\ \A i \in 1..Len(s) : Append(s, e)[i] = s[i]
         /\ Append(s, e)[Len(s) + 1] = e
  OBVIOUS

(* NFA_NEST, and the head of a rule: an open record, inside of which the   *)
(* next one goes.                                                          *)
LEMMA NestInv ==
  ASSUME ListInv, NEW l \in Nat, PutRecord(l, Before[fam]), fam' = fam,
         fam \in {"NFA"} \cup Tables, fam \in Tables => nests = <<>>,
         nested' = nested \cup {tail}, nests' = Append(nests, tail)
  PROVE  ListInv'
<1>0. PICK n \in Nat : n = Len(nests)
  BY OpenFacts, Zenon
<1>1. fam \in Family /\ nests \in Seq(nested) /\ nested \subseteq recs
  BY Zenon DEF ListInv, ListType
<1>2. PICK s \in Nat : s = Before[fam] /\ s > 0 /\ s % 4 = 0
  BY <1>1, Families
<1>3. /\ recs' = recs \cup {tail} /\ tail' = tail + s /\ tail' \in Nat /\ tail < tail'
      /\ recs' \subseteq Nat
      /\ length' \in [recs' -> Nat] /\ parent' \in [recs' -> recs' \cup {-1}]
      /\ \A o \in recs : /\ o # tail
                         /\ length'[o] = length[o] /\ parent'[o] = parent[o]
                         /\ next'[o] = next[o]
      /\ parent'[tail] = Parent
      /\ \A p : Kids(p)' = IF p = Parent THEN Kids(p) \cup {tail} ELSE Kids(p)
  BY <1>2, Added, Zenon
<1>4. /\ nests' \in Seq(nested') /\ Len(nests') = n + 1
      /\ \A i \in 1..n : nests'[i] = nests[i]
      /\ nests'[n + 1] = tail
  BY <1>0, <1>1, Pushed
<1>5. Open' = Open \cup {tail}
  <2>1. Open' = {nests'[i] : i \in 1..(n + 1)} /\ Open = {nests[i] : i \in 1..n}
    BY <1>0, <1>4, Zenon DEF Open
  <2>2. \A i \in 1..(n + 1) : i \in 1..n \/ i = n + 1
    BY <1>1
  <2>3. \A i \in 1..n : i \in 1..(n + 1)
    BY <1>1
  <2>4. n + 1 \in 1..(n + 1)
    BY <1>1
  <2>5. QED
    BY <1>4, <2>1, <2>2, <2>3, <2>4, Zenon
<1>6. Open \subseteq nested /\ tail \notin Open /\ Parent \in Open \cup {-1} /\ Parent = Level(n)
  BY <1>0, <1>1, <1>3, OpenFacts, n \in 0..n, Zenon
<1>7. (\A i \in 0..n : Level(i)' = Level(i)) /\ Level(n + 1)' = tail
  <2>1. \A i \in 0..n : i = 0 \/ i \in 1..n
    BY <1>1
  <2>2. n + 1 # 0
    BY <1>1
  <2>3. \A i : Level(i)' = IF i = 0 THEN -1 ELSE nests'[i]
    BY Zenon DEF Level
  <2>4. QED
    BY <1>4, <2>1, <2>2, <2>3, Zenon DEF Level
<1>8. (\A i \in 0..n : Reach(i)' = Reach(i)) /\ Reach(n + 1)' = tail'
  <2>1. \A i \in 0..n : i # n + 1 /\ (i # n => i + 1 \in 1..n)
    BY <1>1
  <2>2. \A i : Reach(i)' = IF i = n + 1 THEN tail' ELSE nests'[i + 1]
    BY <1>4, Zenon DEF Reach
  <2>3. \A i : Reach(i) = IF i = n THEN tail ELSE nests[i + 1]
    BY <1>0, Zenon DEF Reach
  <2>4. QED
    BY <1>4, <2>1, <2>2, <2>3, Zenon
<1>9. ListType'
  BY <1>1, <1>3, <1>4, Zenon DEF ListInv, ListType

<1>10. Stack'
  <2>1. ASSUME NEW i \in 1..Len(nests') PROVE parent'[nests'[i]] = Level(i - 1)'
    <3>1. CASE i \in 1..n
      <4>1. i - 1 \in 0..n
        BY <1>1, <3>1
      <4>2. parent'[nests[i]] = parent[nests[i]]
        BY <1>0, <1>3, <3>1, OpenFacts, Zenon
      <4>3. parent[nests[i]] = Level(i - 1)
        BY <1>0, <3>1, Zenon DEF ListInv, Stack
      <4>4. QED
        BY <1>4, <1>7, <3>1, <4>1, <4>2, <4>3, Zenon
    <3>2. CASE i = n + 1
      <4>1. i - 1 = n /\ n \in 0..n
        BY <1>1, <3>2
      <4>2. Level(i - 1)' = Level(n)
        BY <1>7, <4>1, Zenon
      <4>3. QED
        BY <1>3, <1>4, <1>6, <3>2, <4>2, Zenon
    <3>3. QED
      BY <1>1, <1>4, <3>1, <3>2
  <2>2. ASSUME NEW i \in 1..Len(nests'), NEW j \in 1..Len(nests'), i < j
        PROVE  nests'[i] < nests'[j]
    <3>1. i \in 1..n /\ (j \in 1..n \/ j = n + 1)
      BY <1>1, <1>4, <2>2
    <3>2. nests[i] \in recs /\ nests[i] < tail
      BY <1>0, <3>1, OpenFacts, Zenon DEF ListInv, Records
    <3>3. j \in 1..n => nests[i] < nests[j]
      BY <1>0, <2>2, <3>1, Zenon DEF ListInv, Stack
    <3>4. QED
      BY <1>4, <3>1, <3>2, <3>3, Zenon
  <2>3. fam' \in Tables => Len(nests') <= 1
    BY <1>0, <1>4
  <2>4. QED
    BY <2>1, <2>2, <2>3, Zenon DEF Stack
<1>11. Records'
  <2>1. /\ recs \subseteq Nat /\ tail \in Nat
        /\ \A o \in recs : o < tail /\ parent[o] \in nested \cup {-1}
        /\ \A o \in recs \ Open : next[o] <= tail /\ HeaderOf(o) <= length[o]
        /\ \A o \in recs \ Open, c \in Open : c < o \/ next[o] <= c
        /\ fam # "FAN" => tail % 4 = 0 /\ \A o \in recs : o % 4 = 0
    BY Zenon DEF ListInv, ListType, Records
  <2>2. \A o \in recs' : o < tail' /\ parent'[o] \in nested' \cup {-1}
    BY <1>3, <1>6, <2>1
  <2>3. ASSUME NEW o \in recs' \ Open'
        PROVE  /\ next'[o] <= tail' /\ HeaderOf(o)' <= length'[o]
               /\ \A c \in Open' : c < o \/ next'[o] <= c
    <3>1. o \in recs \ Open
      BY <1>3, <1>5, <2>3, Zenon
    <3>2. HeaderOf(o)' = HeaderOf(o)
      BY <1>3, <3>1, Zenon DEF HeaderOf
    <3>3. next[o] \in Nat /\ next'[o] = next[o] /\ length'[o] = length[o]
      BY <1>3, <3>1, RecordFacts, Zenon
    <3>4. QED
      BY <1>3, <1>5, <2>1, <3>1, <3>2, <3>3
  <2>4. fam' # "FAN" => tail' % 4 = 0 /\ \A o \in recs' : o % 4 = 0
    BY <1>2, <1>3, <2>1, MultiplesOf4, Zenon
  <2>5. QED
    BY <1>3, <2>2, <2>3, <2>4, Zenon DEF Records
<1>12. Chains'
  <2>1. /\ \A p : Closed(p)' = Closed(p)
        /\ \A p : \A o \in Closed(p) : o \in Nat /\ next[o] \in Nat /\ next'[o] = next[o]
    BY <1>3, <1>5, RecordFacts, Zenon DEF Closed
  <2>2. ASSUME NEW i \in 0..Len(nests')
        PROVE  Chain(Base(Level(i)), Closed(Level(i)), next, Reach(i))'
    <3>1. CASE i \in 0..n
      <4>1. Chain(Base(Level(i)), Closed(Level(i)), next, Reach(i))
        BY <1>0, <3>1, Zenon DEF ListInv, Chains
      <4>2. Chain(Base(Level(i)), Closed(Level(i)), next', Reach(i))
        BY <2>1, <4>1, ChainSame, Zenon
      <4>3. /\ Level(i)' = Level(i) /\ Reach(i)' = Reach(i)
            /\ \A p : Base(p)' = Base(p)
        BY <1>7, <1>8, <3>1, SameBase, Zenon
      <4>4. QED
        BY <2>1, <4>2, <4>3, Zenon
    <3>2. CASE i = n + 1
      <4>1. Level(i)' = tail /\ Reach(i)' = tail'
        BY <1>7, <1>8, <3>2, Zenon
      <4>2. Closed(Level(i))' = {}
        <5>1. Closed(Level(i))' = Closed(tail)
          BY <2>1, <4>1, Zenon
        <5>2. \A o \in recs : parent[o] # tail
          BY <1>3, <1>1, RecordFacts DEF ListInv, ListType, Records
        <5>3. QED
          BY <5>1, <5>2, Zenon DEF Closed, Kids
      <4>3. Base(Level(i))' = tail'
        BY <1>2, <1>3, <4>1, tail \in Nat, tail # -1, Zenon DEF Base, ListInv, ListType
      <4>4. Chain(tail', {}, next', tail')
        BY <1>3, ChainNone, Zenon
      <4>5. QED
        BY <4>1, <4>2, <4>3, <4>4, Zenon
    <3>3. QED
      BY <1>1, <1>4, <3>1, <3>2
  <2>3. ASSUME NEW p \in nested' \ Open'
        PROVE  Chain(Base(p), Closed(p), next, p + length[p] - Behind[fam])'
    <3>1. p \in nested \ Open /\ p \in recs
      BY <1>1, <1>5, <2>3, Zenon
    <3>2. Chain(Base(p), Closed(p), next, p + length[p] - Behind[fam])
      BY <3>1, Zenon DEF ListInv, Chains
    <3>3. Closed(p)' = Closed(p) /\ Base(p)' = Base(p) /\ length'[p] = length[p]
      BY <1>3, <2>1, <3>1, SameBase, Zenon
    <3>4. Chain(Base(p), Closed(p), next', p + length[p] - Behind[fam])
      BY <2>1, <3>2, ChainSame, Zenon
    <3>5. QED
      BY <3>3, <3>4, Zenon
  <2>4. QED
    BY <2>2, <2>3, Zenon DEF Chains
<1>13. QED
  BY <1>9, <1>10, <1>11, <1>12, Zenon DEF ListInv

LEMMA Popped ==
  ASSUME NEW S, NEW s \in Seq(S), NEW m \in 0..Len(s)
  PROVE  /\ SubSeq(s, 1, m) \in Seq(S) /\ Len(SubSeq(s, 1, m)) = m
         /\ \A i \in 1..m : SubSeq(s, 1, m)[i] = s[i]
  OBVIOUS

(* The attributes that are open when only the first m are left. *)
LEMMA FirstLevels ==
  ASSUME ListInv, NEW m \in Nat, NEW n \in Nat, n = Len(nests), m <= n, Len(nests') = m,
         \A i \in 1..m : nests'[i] = nests[i]
  PROVE  /\ Open' \subseteq Open
         /\ \A j \in 1..n : m < j => nests[j] \notin Open'
         /\ \A j \in 1..n : j <= m => nests[j] \in Open'
         /\ \A i \in 0..m : Level(i)' = Level(i)
         /\ \A i \in 0..m : i # m => Reach(i)' = Reach(i)
         /\ Reach(m)' = tail'
         /\ m < n => Reach(m) = nests[m + 1]
<1>1. \A i \in 1..m : i \in 1..n
  OBVIOUS
<1>2. \A i \in 0..m : (i = 0 \/ i \in 1..m) /\ (i # m => i + 1 \in 1..m)
  OBVIOUS
<1>3. Open' = {nests[i] : i \in 1..m} /\ Open = {nests[i] : i \in 1..n}
  BY Zenon DEF Open
<1>4. Open' \subseteq Open
  BY <1>1, <1>3, Zenon
<1>5. ASSUME NEW j \in 1..n, m < j PROVE nests[j] \notin Open'
  <2>1. \A i \in 1..m : i < j
    BY <1>5
  <2>2. \A i \in 1..m : nests[i] < nests[j] /\ nests[i] \in Nat /\ nests[j] \in Nat
    BY <1>1, <2>1, OpenFacts, Zenon DEF ListInv, Stack
  <2>3. \A i \in 1..m : nests[i] # nests[j]
    BY <2>2
  <2>4. QED
    BY <1>3, <2>3, Zenon
<1>6. ASSUME NEW j \in 1..n, j <= m PROVE nests[j] \in Open'
  BY <1>3, <1>6, j \in 1..m, Zenon
<1>7. \A i \in 0..m : Level(i)' = Level(i)
  BY <1>2, Zenon DEF Level
<1>8. \A i \in 0..m : i # m => i # n
  OBVIOUS
<1>9. \A i \in 0..m : i # m => Reach(i)' = Reach(i)
  BY <1>2, <1>8, Zenon DEF Reach
<1>10. Reach(m)' = tail' /\ (m < n => Reach(m) = nests[m + 1])
  BY DEF Reach
<1>11. QED
  BY <1>4, <1>5, <1>6, <1>7, <1>9, <1>10, Zenon

LEMMA Contents ==
  \A c, b, t, w \in Nat :
    0 < b /\ c + b <= t =>
      /\ t + w \in Nat /\ (t + w) - c \in Nat /\ t <= t + w
      /\ c < t + w /\ b <= (t + w) - c
      /\ c + ((t + w) - c) - w = t
  OBVIOUS

(* NFA_NEST_END, and the target of a rule: the innermost open attribute is *)
(* completed, with what it has got inside.                                 *)
LEMMA CloseInv ==
  ASSUME ListInv, fam' = fam, fam \in {"NFA"} \cup Tables,
         recs' = recs, parent' = parent, nested' = nested,
         tail' = tail + Behind[fam],
         length' = [length EXCEPT ![Parent] = tail' - Parent],
         nests' \in Seq(nested), NEW m \in Nat, Len(nests) = m + 1, Len(nests') = m,
         \A i \in 1..m : nests'[i] = nests[i]
  PROVE  ListInv'
<1>1. PICK n \in Nat : n = Len(nests) /\ n = m + 1
  OBVIOUS
<1>2. n = m + 1 /\ n \in 1..n /\ m < n /\ m <= n
  BY <1>1
<1>3. PICK c : c = Parent /\ c = nests[n] /\ c \in nested /\ c \in recs /\ c \in Nat /\ c \in Open
  BY <1>1, <1>2, OpenFacts, n # 0, Zenon DEF Level
<1>4. /\ recs \subseteq Nat /\ length \in [recs -> Nat] /\ fam \in Family /\ tail \in Nat
      /\ nested \subseteq recs /\ nests \in Seq(nested)
  BY Zenon DEF ListInv, ListType
<1>5. Len(nests') = m /\ \A i \in 1..m : nests'[i] = nests[i]
  BY Zenon
<1>6. /\ Open' \subseteq Open /\ c \notin Open'
      /\ \A j \in 1..n : j <= m => nests[j] \in Open'
      /\ \A i \in 0..m : Level(i)' = Level(i)
      /\ \A i \in 0..m : i # m => Reach(i)' = Reach(i)
      /\ Reach(m)' = tail' /\ Reach(m) = c
  BY <1>1, <1>2, <1>3, <1>5, FirstLevels, Zenon
<1>7. Open = Open' \cup {c}
  <2>1. \A j \in 1..n : j <= m \/ j = n
    BY <1>2
  <2>2. Open = {nests[j] : j \in 1..n}
    BY <1>1, Zenon DEF Open
  <2>3. QED
    BY <1>3, <1>6, <2>1, <2>2, Zenon
<1>8. Chain(Base(c), Closed(c), next, tail)
  <2>1. n \in 0..n /\ n # 0
    BY <1>2
  <2>2. Level(n) = c /\ Reach(n) = tail
    BY <1>1, <1>3, <2>1, Zenon DEF Level, Reach
  <2>3. Chain(Base(Level(n)), Closed(Level(n)), next, Reach(n))
    BY <1>1, <2>1, Zenon DEF ListInv, Chains
  <2>4. QED
    BY <2>2, <2>3, Zenon
<1>9. PICK b \in Nat, w \in Nat : /\ b = Before[fam] /\ w = Behind[fam] /\ tail' = tail + w
                                  /\ w % 4 = 0 /\ 0 < b
  BY <1>4, Families
<1>10. /\ c + b <= tail /\ tail' \in Nat /\ tail' - c \in Nat /\ tail <= tail'
       /\ c < tail' /\ b <= tail' - c
  <2>1. Base(c) = c + b /\ Base(c) <= tail
    BY <1>3, <1>8, <1>9, c # -1, Zenon DEF Base, Chain
  <2>2. PICK t \in Nat : t = tail /\ c + b <= t /\ tail' = t + w
    BY <1>4, <1>9, <2>1, Zenon
  <2>3. b \in Nat /\ w \in Nat /\ t \in Nat /\ c \in Nat /\ 0 < b
    BY <1>3, <1>9, Zenon
  <2>4. /\ c + b <= t /\ t + w \in Nat /\ (t + w) - c \in Nat /\ t <= t + w
        /\ c < t + w /\ b <= (t + w) - c
    BY ONLY <2>2, <2>3, Contents, Zenon
  <2>5. QED
    BY <2>2, <2>4, Zenon
<1>11. /\ tail' % 4 = 0 /\ c % 4 = 0 /\ (tail' - c) % 4 = 0
  <2>1. tail % 4 = 0 /\ c % 4 = 0
    BY <1>3, fam # "FAN", Zenon DEF ListInv, Records, Tables
  <2>2. (tail + w) % 4 = 0
    BY <1>4, <1>9, <2>1, MultiplesOf4, Zenon
  <2>3. tail' % 4 = 0
    BY <1>9, <2>2, Zenon
  <2>4. c <= tail'
    BY <1>3, <1>10
  <2>5. QED
    BY <1>3, <1>10, <2>1, <2>3, <2>4, MultiplesOf4, Zenon
<1>12. /\ length' \in [recs -> Nat] /\ length'[c] = tail' - c
       /\ \A o \in recs : o # c => length'[o] = length[o]
  BY <1>3, <1>4, <1>10, Zenon
<1>13. next'[c] = tail' /\ \A o \in recs : o # c => next'[o] = next[o]
  <2>1. next' = [o \in recs |-> o + Pace(length'[o])]
    BY DEF next, Pace
  <2>2. Pace(tail' - c) = tail' - c
    BY <1>10, <1>11, PaceType, Zenon
  <2>3. c + (tail' - c) = tail'
    BY <1>3, <1>10
  <2>4. next'[c] = tail'
    BY <1>3, <1>12, <2>1, <2>2, <2>3, Zenon
  <2>5. ASSUME NEW o \in recs, o # c PROVE next'[o] = next[o]
    BY <1>12, <2>1, <2>5, Zenon DEF next
  <2>6. QED
    BY <2>4, <2>5, Zenon
<1>14. ListType'
  BY <1>5, <1>10, <1>12, Zenon DEF ListInv, ListType

<1>15. Stack'
  <2>1. ASSUME NEW i \in 1..m PROVE parent'[nests'[i]] = Level(i - 1)'
    <3>1. i \in 1..n /\ i - 1 \in 0..m
      BY <1>2
    <3>2. parent[nests[i]] = Level(i - 1)
      BY <1>1, <3>1, Zenon DEF ListInv, Stack
    <3>3. QED
      BY <1>5, <1>6, <3>1, <3>2, Zenon
  <2>2. ASSUME NEW i \in 1..m, NEW j \in 1..m, i < j PROVE nests'[i] < nests'[j]
    <3>1. i \in 1..n /\ j \in 1..n
      BY <1>2
    <3>2. QED
      BY <1>1, <1>5, <2>2, <3>1, Zenon DEF ListInv, Stack
  <2>3. fam \in Tables => m <= 1
    BY <1>1, <1>2 DEF ListInv, Stack
  <2>4. QED
    BY <1>5, <2>1, <2>2, <2>3, Zenon DEF ListInv, Stack
<1>16. Records'
  <2>1. /\ \A o \in recs : o < tail /\ parent[o] \in nested \cup {-1}
        /\ \A o \in recs \ Open : next[o] <= tail /\ HeaderOf(o) <= length[o]
        /\ \A o \in recs \ Open, d \in Open : d < o \/ next[o] <= d
        /\ fam # "FAN" => \A o \in recs : o % 4 = 0
    BY Zenon DEF ListInv, Records
  <2>2. \A o \in recs : o < tail'
    BY <1>4, <1>10, <2>1
  <2>3. HeaderOf(c) <= b
    <3>1. CASE fam = "NFA"
      BY <1>4, <1>9, <3>1, Families, Zenon DEF HeaderOf
    <3>2. CASE fam \in Tables
      <4>1. n = 1
        BY <1>1, <1>2, <3>2 DEF ListInv, Stack
      <4>2. parent[c] = -1
        BY <1>1, <1>3, <4>1 DEF ListInv, Stack, Level
      <4>3. QED
        BY <1>4, <1>9, <3>2, <4>2, Families, Zenon DEF HeaderOf
    <3>3. QED
      BY <3>1, <3>2, Zenon
  <2>4. ASSUME NEW o \in recs \ Open'
        PROVE  /\ next'[o] <= tail' /\ HeaderOf(o)' <= length'[o]
               /\ \A d \in Open' : d < o \/ next'[o] <= d
    <3>0. HeaderOf(o)' = HeaderOf(o)
      BY Zenon DEF HeaderOf
    <3>1. CASE o = c
      <4>1. \A d \in Open' : d < c
        <5>1. \A i \in 1..m : i \in 1..n /\ i < n
          BY <1>2
        <5>2. \A i \in 1..m : nests[i] < c
          BY <1>1, <1>3, <5>1 DEF ListInv, Stack
        <5>3. Open' = {nests[i] : i \in 1..m}
          BY <1>5, Zenon DEF Open
        <5>4. QED
          BY <5>2, <5>3, Zenon
      <4>2. HeaderOf(c) \in Nat
        <5>1. Sizeof[fam] \in Nat /\ Inner[fam] \in Nat
          BY <1>4, Families, Zenon
        <5>2. QED
          BY <5>1, Zenon DEF HeaderOf
      <4>3. HeaderOf(c) <= tail' - c
        BY <1>3, <1>10, <2>3, <4>2
      <4>4. QED
        BY <1>10, <1>12, <1>13, <3>0, <3>1, <4>1, <4>3
    <3>2. CASE o # c
      <4>1. o \in recs \ Open /\ next[o] \in Nat
        BY <1>7, <2>4, <3>2, RecordFacts, Zenon
      <4>2. next[o] <= tail'
        <5>1. next[o] <= tail
          BY <2>1, <4>1, Zenon
        <5>2. QED
          BY <1>4, <1>10, <4>1, <5>1
      <4>3. QED
        BY <1>6, <1>12, <1>13, <2>1, <3>0, <3>2, <4>1, <4>2
    <3>3. QED
      BY <3>1, <3>2, Zenon
  <2>5. QED
    BY <1>11, <2>1, <2>2, <2>4, Zenon DEF Records
<1>17. Chains'
  <2>1. parent[c] = Level(m)
    BY <1>1, <1>2, <1>3 DEF ListInv, Stack
  <2>2. \A p : Closed(p)' = IF p = Level(m) THEN Closed(p) \cup {c} ELSE Closed(p)
    <3>1. \A p : Kids(p)' = Kids(p)
      BY Zenon DEF Kids
    <3>2. \A p : c \in Kids(p) <=> p = Level(m)
      BY <1>3, <2>1, Zenon DEF Kids
    <3>3. QED
      BY <1>6, <1>7, <3>1, <3>2, Zenon DEF Closed
  <2>3. \A p : \A o \in Closed(p) : o \in Nat /\ next[o] \in Nat /\ next'[o] = next[o]
    BY <1>3, <1>13, RecordFacts, Zenon DEF Closed
  <2>4. \A p : Base(p)' = Base(p)
    BY SameBase, Zenon
  <2>5. ASSUME NEW i \in 0..m
        PROVE  Chain(Base(Level(i)), Closed(Level(i)), next, Reach(i))'
    <3>1. i \in 0..n
      BY <1>2
    <3>2. Chain(Base(Level(i)), Closed(Level(i)), next, Reach(i))
      BY <1>1, <3>1, Zenon DEF ListInv, Chains
    <3>3. Level(i)' = Level(i)
      BY <1>6, Zenon
    <3>4. PICK p, d, K : p = Level(i) /\ d = Base(p) /\ K = Closed(p)
      BY Zenon
    <3>5. d \in Nat /\ K \in SUBSET Nat /\ Base(Level(i))' = d
      BY <1>1, <2>3, <2>4, <3>1, <3>3, <3>4, OpenFacts, BaseType, Zenon
    <3>6. CASE i = m
      <4>1. Closed(Level(i))' = K \cup {c}
        BY <2>2, <3>3, <3>4, <3>6, Zenon
      <4>2. Chain(d, K, next, c)
        BY <1>6, <3>2, <3>4, <3>6, Zenon
      <4>3. \A o \in K : next[o] \in Nat /\ next'[o] = next[o]
        BY <2>3, <3>4, Zenon
      <4>4. Chain(d, K \cup {c}, next', tail')
        BY ONLY <1>3, <1>10, <1>13, <3>5, <4>2, <4>3, ChainGrows
      <4>5. QED
        BY <1>6, <3>5, <3>6, <4>1, <4>4, Zenon
    <3>7. CASE i # m
      <4>1. p # Level(m)
        BY <1>1, <1>2, <3>1, <3>4, <3>7, i < m, Levels
      <4>2. Closed(Level(i))' = K /\ Reach(i)' = Reach(i)
        BY <1>6, <2>2, <3>3, <3>4, <3>7, <4>1, Zenon
      <4>3. Chain(d, K, next', Reach(i))
        BY <2>3, <3>2, <3>4, ChainSame
      <4>4. QED
        BY <3>5, <4>2, <4>3, Zenon
    <3>8. QED
      BY <3>6, <3>7, Zenon
  <2>6. ASSUME NEW p \in nested \ Open'
        PROVE  Chain(Base(p), Closed(p), next, p + length[p] - Behind[fam])'
    <3>1. p # Level(m) /\ p \in recs
      <4>1. m \in 0..n /\ (m = 0 \/ m \in 1..n)
        BY <1>2
      <4>2. Level(m) \in Open' \cup {-1}
        BY <1>6, <4>1 DEF Level
      <4>3. p \in recs /\ p # -1
        BY <1>4, <2>6
      <4>4. QED
        BY <2>6, <4>2, <4>3, Zenon
    <3>2. Closed(p)' = Closed(p)
      BY <2>2, <3>1, Zenon
    <3>3. CASE p = c
      <4>0. PICK t \in Nat : t = tail /\ tail' = t + w
        BY <1>4, <1>9, Zenon
      <4>1. p + length'[p] - Behind[fam] = tail
        <5>1. c + ((t + w) - c) - w = t
          BY <1>3
        <5>2. QED
          BY <1>9, <1>12, <3>3, <4>0, <5>1, Zenon
      <4>2. Chain(Base(p), Closed(p), next', tail)
        BY <1>8, <2>3, <3>3, ChainSame
      <4>3. QED
        BY <2>4, <3>2, <4>1, <4>2, Zenon
    <3>4. CASE p # c
      <4>1. Chain(Base(p), Closed(p), next, p + length[p] - Behind[fam])
        BY <1>7, <2>6, <3>4, Zenon DEF ListInv, Chains
      <4>2. Chain(Base(p), Closed(p), next', p + length[p] - Behind[fam])
        BY <2>3, <4>1, ChainSame, Zenon
      <4>3. length'[p] = length[p]
        BY <1>12, <3>1, <3>4, Zenon
      <4>4. QED
        BY <2>4, <3>2, <4>2, <4>3, Zenon
    <3>5. QED
      BY <3>3, <3>4, Zenon
  <2>7. QED
    BY <1>5, <2>5, <2>6, Zenon DEF Chains
<1>18. QED
  BY <1>14, <1>15, <1>16, <1>17, Zenon DEF ListInv

LEMMA ChainBounds ==
  ASSUME NEW b \in Nat, NEW K \in SUBSET Nat, NEW nx, NEW u \in Int, Chain(b, K, nx, u),
         \A o \in K : nx[o] \in Nat
  PROVE  \A o \in K : b <= o /\ o < u
  BY DEF Chain

(* An attribute lies before what is inside of it. *)
LEMMA ParentBefore ==
  ASSUME ListInv, NEW o \in recs
  PROVE  parent[o] < o
<1>1. /\ recs \subseteq Nat /\ parent[o] \in nested \cup {-1} /\ nested \subseteq recs
      /\ length \in [recs -> Nat] /\ fam \in Family
  BY Zenon DEF ListInv, ListType, Records
<1>2. CASE o \in Open
  <2>1. PICK i \in 1..Len(nests) : o = nests[i]
    BY <1>2, Zenon DEF Open
  <2>2. PICK j \in 0..Len(nests) : j = i - 1 /\ j < i /\ i \in 0..Len(nests) /\ i # 0
    BY OpenFacts
  <2>3. parent[o] = Level(j)
    BY <2>1, <2>2, Zenon DEF ListInv, Stack
  <2>4. QED
    BY <2>1, <2>2, <2>3, Levels DEF Level
<1>3. CASE o \notin Open
  <2>1. PICK p \in nested \cup {-1} : p = parent[o] /\ o \in Closed(p)
    BY <1>1, <1>3, Zenon DEF Closed, Kids
  <2>2. /\ Base(p) \in Nat /\ Closed(p) \in SUBSET Nat
        /\ \A q \in Closed(p) : next[q] \in Nat
    BY <1>1, BaseType, RecordFacts, Zenon
  <2>3. Base(p) <= o
    <3>1. CASE p \in nested \ Open
      <4>1. Chain(Base(p), Closed(p), next, p + length[p] - Behind[fam])
        BY <3>1, Zenon DEF ListInv, Chains
      <4>2. QED
        BY <2>1, <4>1, Zenon DEF Chain
    <3>2. CASE p \in Open \cup {-1}
      <4>1. PICK i \in 0..Len(nests) : p = Level(i)
        <5>1. \A i \in 1..Len(nests) : i \in 0..Len(nests) /\ i # 0
          BY OpenFacts
        <5>2. 0 \in 0..Len(nests)
          BY OpenFacts
        <5>3. QED
          BY <3>2, <5>1, <5>2, Zenon DEF Open, Level
      <4>2. Chain(Base(p), Closed(p), next, Reach(i))
        BY <4>1, Zenon DEF ListInv, Chains
      <4>3. QED
        BY <2>1, <4>2, Zenon DEF Chain
    <3>3. QED
      BY <2>1, <3>1, <3>2, Zenon
  <2>4. p < Base(p)
    <3>1. CASE p = -1
      BY <3>1 DEF Base
    <3>2. CASE p # -1
      <4>1. fam \in {"NFA"} \cup Tables
        BY <3>2, Zenon DEF ListInv, Stack
      <4>2. QED
        BY <1>1, <3>2, <4>1, Families DEF Base
    <3>3. QED
      BY <3>1, <3>2, Zenon
  <2>5. p \in Int /\ o \in Int
    BY <1>1
  <2>6. QED
    BY <2>1, <2>2, <2>3, <2>4, <2>5
<1>4. QED
  BY <1>2, <1>3, Zenon

LEMMA SeqOfFewer ==
  ASSUME NEW S, NEW T, NEW s \in Seq(S), \A i \in 1..Len(s) : s[i] \in T
  PROVE  s \in Seq(T)
  OBVIOUS

(* NFA_NEST_CANCEL: skb_trim back to the k-th of the open attributes, and  *)
(* with it goes all that was built since.                                  *)
LEMMA CancelInv ==
  ASSUME ListInv, fam' = fam, fam = "NFA",
         NEW m \in Nat, NEW c, m + 1 \in 1..Len(nests), c = nests[m + 1],
         tail' = c,
         recs' = {o \in recs : o < c}, nested' = {o \in nested : o < c},
         length' = [o \in recs' |-> length[o]], parent' = [o \in recs' |-> parent[o]],
         nests' \in Seq(nested), Len(nests') = m, \A i \in 1..m : nests'[i] = nests[i]
  PROVE  ListInv'
<1>1. PICK n \in Nat : n = Len(nests) /\ m + 1 \in 1..n /\ m < n /\ m <= n
  BY OpenFacts
<1>2. c \in Open /\ c \in recs /\ c \in Nat
  BY <1>1, OpenFacts, Zenon
<1>3. /\ recs \subseteq Nat /\ length \in [recs -> Nat] /\ fam \in Family
      /\ parent \in [recs -> recs \cup {-1}] /\ nested \subseteq recs
      /\ \A o \in recs : parent[o] \in nested \cup {-1}
  BY Zenon DEF ListInv, ListType, Records
<1>4. /\ Open' \subseteq Open
      /\ \A j \in 1..n : m < j => nests[j] \notin Open'
      /\ \A j \in 1..n : j <= m => nests[j] \in Open'
      /\ \A i \in 0..m : Level(i)' = Level(i)
      /\ \A i \in 0..m : i # m => Reach(i)' = Reach(i)
      /\ Reach(m)' = tail' /\ Reach(m) = c
  BY <1>1, FirstLevels, Zenon
<1>5. (\A j \in 1..n : j <= m => nests[j] < c) /\ (\A j \in 1..n : m < j => c <= nests[j])
  <2>1. ASSUME NEW j \in 1..n, j <= m PROVE nests[j] < c
    BY <1>1, <2>1, j < m + 1, Zenon DEF ListInv, Stack
  <2>2. ASSUME NEW j \in 1..n, m < j PROVE c <= nests[j]
    <3>1. j = m + 1 \/ m + 1 < j
      BY <2>2
    <3>2. m + 1 < j => c < nests[j]
      BY <1>1, Zenon DEF ListInv, Stack
    <3>3. nests[j] \in Nat
      BY <1>1, OpenFacts, Zenon
    <3>4. QED
      BY <1>2, <3>1, <3>2, <3>3
  <2>3. QED
    BY <2>1, <2>2, Zenon
<1>6. \A o \in Open : o < c <=> o \in Open'
  <2>1. ASSUME NEW j \in 1..n PROVE nests[j] < c <=> nests[j] \in Open'
    <3>1. nests[j] \in Nat
      BY <1>1, OpenFacts, Zenon
    <3>2. j <= m \/ m < j
      OBVIOUS
    <3>3. QED
      BY <1>2, <1>4, <1>5, <3>1, <3>2
  <2>2. QED
    BY <1>1, <2>1, Zenon DEF Open
<1>7. /\ length' \in [recs' -> Nat]
      /\ \A o \in recs' : o \in recs /\ o < c /\ length'[o] = length[o] /\ parent'[o] = parent[o]
  BY <1>3, Zenon
<1>8. \A o \in recs' : next'[o] = next[o]
  <2>1. next' = [o \in recs' |-> o + Pace(length'[o])]
    BY Zenon DEF next, Pace
  <2>2. QED
    BY <1>7, <2>1, Zenon DEF next
<1>9. \A o \in recs' : parent'[o] \in nested' \cup {-1}
  <2>1. ASSUME NEW o \in recs' PROVE parent[o] \in nested' \cup {-1}
    <3>1. o \in recs /\ o < c /\ o \in Nat /\ parent[o] \in nested \cup {-1}
      BY <1>3, <1>7, Zenon
    <3>2. parent[o] < o
      BY <3>1, ParentBefore, Zenon
    <3>3. parent[o] \in Int
      <4>1. nested \subseteq Nat
        BY <1>3, Zenon
      <4>2. \A p \in nested \cup {-1} : p \in Int
        BY ONLY <4>1
      <4>3. QED
        BY ONLY <3>1, <4>2, Zenon
    <3>4. parent[o] < c
      BY <1>2, <3>1, <3>2, <3>3
    <3>5. QED
      BY <3>1, <3>4, Zenon
  <2>2. QED
    BY <1>7, <2>1, Zenon

<1>10. ListType'
  <2>1. nested' \subseteq recs' /\ recs' \subseteq Nat /\ tail' \in Nat
    BY <1>2, <1>3, Zenon
  <2>2. parent' \in [recs' -> recs' \cup {-1}]
    BY <1>9, <2>1, Zenon
  <2>3. \A i \in 1..m : nests'[i] \in nested'
    <3>1. \A i \in 1..m : i \in 1..n /\ i <= m
      BY <1>1
    <3>2. \A i \in 1..m : nests[i] < c /\ nests[i] \in nested
      BY <1>1, <1>5, <3>1, OpenFacts, Zenon
    <3>3. QED
      BY <3>2, Zenon
  <2>4. nests' \in Seq(nested')
    BY <2>3, SeqOfFewer, Zenon
  <2>5. QED
    BY <1>3, <1>7, <2>1, <2>2, <2>4, Zenon DEF ListType
<1>11. Stack'
  <2>1. ASSUME NEW i \in 1..m PROVE parent'[nests'[i]] = Level(i - 1)'
    <3>1. i \in 1..n /\ i - 1 \in 0..m /\ i <= m
      BY <1>1
    <3>2. parent[nests[i]] = Level(i - 1)
      BY <1>1, <3>1, Zenon DEF ListInv, Stack
    <3>3. nests[i] \in recs'
      BY <1>1, <1>5, <3>1, OpenFacts, Zenon
    <3>4. QED
      BY <1>4, <1>7, <3>1, <3>2, <3>3, Zenon
  <2>2. ASSUME NEW i \in 1..m, NEW j \in 1..m, i < j PROVE nests'[i] < nests'[j]
    <3>1. i \in 1..n /\ j \in 1..n
      BY <1>1
    <3>2. QED
      BY <1>1, <2>2, <3>1, Zenon DEF ListInv, Stack
  <2>3. QED
    BY <2>1, <2>2, Zenon DEF Stack, Tables
<1>12. Records'
  <2>1. ASSUME NEW o \in recs' \ Open'
        PROVE  /\ next'[o] <= tail' /\ HeaderOf(o)' <= length'[o]
               /\ \A d \in Open' : d < o \/ next'[o] <= d
    <3>1. o \in recs \ Open /\ o < c /\ o \in Nat
      BY <1>3, <1>6, <1>7, <2>1, Zenon
    <3>2. HeaderOf(o)' = HeaderOf(o)
      BY <1>7, <2>1, Zenon DEF HeaderOf
    <3>3. next[o] <= c
      <4>1. c < o \/ next[o] <= c
        BY <1>2, <3>1, Zenon DEF ListInv, Records
      <4>2. QED
        BY <1>2, <3>1, <4>1
    <3>4. HeaderOf(o) <= length[o] /\ \A d \in Open : d < o \/ next[o] <= d
      BY <3>1, Zenon DEF ListInv, Records
    <3>5. QED
      BY <1>4, <1>7, <1>8, <2>1, <3>2, <3>3, <3>4, Zenon
  <2>2. tail' % 4 = 0 /\ \A o \in recs' : o % 4 = 0
    BY <1>2, <1>7, Zenon DEF ListInv, Records
  <2>3. QED
    BY <1>7, <1>9, <2>1, <2>2, Zenon DEF Records
<1>13. Chains'
  <2>1. \A p : Closed(p)' = {o \in Closed(p) : o < c}
    <3>1. \A p : Kids(p)' = {o \in Kids(p) : o < c}
      BY <1>7, Zenon DEF Kids
    <3>2. QED
      BY <1>4, <1>6, <3>1, Zenon DEF Closed
  <2>2. \A p : \A o \in Closed(p) : o \in Nat /\ next[o] \in Nat /\ (o < c => next'[o] = next[o])
    BY <1>8, RecordFacts, Zenon
  <2>3. \A p : Base(p)' = Base(p)
    BY SameBase, Zenon
  <2>4. ASSUME NEW p \in nested \cup {-1}, NEW u \in Int, u <= c,
               Chain(Base(p), Closed(p), next, u)
        PROVE  Closed(p)' = Closed(p) /\ Chain(Base(p), Closed(p), next', u)
    <3>1. Base(p) \in Nat /\ Closed(p) \in SUBSET Nat
      BY <2>2, BaseType, Zenon
    <3>2. \A o \in Closed(p) : o < u
      BY <2>2, <2>4, <3>1, ChainBounds, Zenon
    <3>3. \A o \in Closed(p) : o < c
      BY <1>2, <2>4, <3>1, <3>2
    <3>4. QED
      BY <2>1, <2>2, <2>4, <3>3, ChainSame, Zenon
  <2>5. ASSUME NEW i \in 0..m
        PROVE  Chain(Base(Level(i)), Closed(Level(i)), next, Reach(i))'
    <3>1. i \in 0..n /\ (i # m => i + 1 \in 1..n /\ i + 1 <= m /\ i # n)
      BY <1>1
    <3>2. /\ Chain(Base(Level(i)), Closed(Level(i)), next, Reach(i))
          /\ Level(i) \in nested \cup {-1} /\ Reach(i) \in Nat
      BY <1>1, <3>1, OpenFacts, Zenon DEF ListInv, Chains
    <3>3. Reach(i) <= c /\ Reach(i)' = Reach(i)
      <4>1. CASE i = m
        BY <1>2, <1>4, <4>1
      <4>2. CASE i # m
        <5>1. Reach(i) = nests[i + 1]
          BY <1>1, <3>1, <4>2, Zenon DEF Reach
        <5>2. Reach(i) < c
          BY <1>5, <3>1, <4>2, <5>1, Zenon
        <5>3. QED
          BY <1>2, <1>4, <3>2, <4>2, <5>2
      <4>3. QED
        BY <4>1, <4>2, Zenon
    <3>4. PICK p : p = Level(i) /\ Level(i)' = p
      BY <1>4, Zenon
    <3>5. Closed(p)' = Closed(p) /\ Chain(Base(p), Closed(p), next', Reach(i))
      BY <2>4, <3>2, <3>3, <3>4
    <3>6. QED
      BY <2>3, <3>3, <3>4, <3>5, Zenon
  <2>6. ASSUME NEW p \in nested' \ Open'
        PROVE  Chain(Base(p), Closed(p), next, p + length[p] - Behind[fam])'
    <3>1. p \in nested \ Open /\ p \in recs /\ p < c /\ p \in Nat /\ p \in recs'
      BY <1>3, <1>6, <2>6, Zenon
    <3>2. Chain(Base(p), Closed(p), next, p + length[p] - Behind[fam])
      BY <3>1, Zenon DEF ListInv, Chains
    <3>3. PICK u \in Int : u = p + length[p] - Behind[fam] /\ u <= c
      <4>1. next[p] <= c
        <5>1. c < p \/ next[p] <= c
          BY <1>2, <3>1, Zenon DEF ListInv, Records
        <5>2. QED
          BY <1>2, <3>1, <5>1
      <4>2. p + length[p] <= next[p] /\ next[p] \in Nat /\ length[p] \in Nat
        BY <1>3, <3>1, RecordFacts, Zenon
      <4>3. Behind[fam] = 0
        BY <1>3, Families, Zenon
      <4>4. QED
        BY <1>2, <3>1, <4>1, <4>2, <4>3
    <3>4. Closed(p)' = Closed(p) /\ Chain(Base(p), Closed(p), next', u)
      BY <2>4, <3>1, <3>2, <3>3, Zenon
    <3>5. length'[p] = length[p]
      BY <1>7, <3>1, Zenon
    <3>6. QED
      BY <2>3, <3>3, <3>4, <3>5, Zenon
  <2>7. QED
    BY <2>5, <2>6, Zenon DEF Chains
<1>14. QED
  BY <1>10, <1>11, <1>12, <1>13, Zenon DEF ListInv

-----------------------------------------------------------------------------
(* The builder keeps the list in order, and the reader leaves it alone. *)
LEMMA ListInit == Init => ListInv
<1> SUFFICES ASSUME Init PROVE ListInv
  BY Zenon
<1>1. /\ fam \in Family /\ recs = {} /\ nested = {} /\ tail = 0 /\ nests = <<>>
      /\ length = <<>> /\ parent = <<>>
  BY Zenon DEF Init
<1>2. Len(nests) = 0 /\ nests \in Seq(nested)
  BY <1>1
<1>3. Open = {} /\ \A p : Closed(p) = {}
  BY <1>1, <1>2 DEF Open, Closed, Kids
<1>4. ListType
  <2>1. length \in [recs -> Nat] /\ parent \in [recs -> recs \cup {-1}]
    BY <1>1
  <2>2. QED
    BY <1>1, <1>2, <2>1, Zenon DEF ListType
<1>5. Stack
  BY <1>1, <1>2 DEF Stack
<1>6. Records
  <2>1. tail % 4 = 0
    BY <1>1
  <2>2. QED
    BY <1>1, <2>1, Zenon DEF Records
<1>7. Chains
  <2>1. ASSUME NEW i \in 0..Len(nests)
        PROVE  Chain(Base(Level(i)), Closed(Level(i)), next, Reach(i))
    <3>1. Base(Level(i)) = 0 /\ Reach(i) = 0
      BY <1>1, <1>2 DEF Base, Level, Reach
    <3>2. QED
      BY <1>3, <3>1, ChainNone, Zenon
  <2>2. QED
    BY <1>1, <2>1, Zenon DEF Chains
<1>8. QED
  BY <1>4, <1>5, <1>6, <1>7, Zenon DEF ListInv

LEMMA ListSame == ListInv /\ UNCHANGED listVars => ListInv'
<1> SUFFICES ASSUME ListInv, UNCHANGED listVars PROVE ListInv'
  BY Zenon
<1>1. /\ fam' = fam /\ recs' = recs /\ length' = length /\ parent' = parent
      /\ nested' = nested /\ tail' = tail /\ nests' = nests
  BY Zenon DEF listVars
<1>2. next' = next /\ Open' = Open
  BY <1>1, Zenon DEF next, Pace, Open
<1>3. \A p : Closed(p)' = Closed(p) /\ Base(p)' = Base(p) /\ HeaderOf(p)' = HeaderOf(p)
  BY <1>1, <1>2, Zenon DEF Closed, Kids, Base, HeaderOf
<1>4. \A i : Level(i)' = Level(i) /\ Reach(i)' = Reach(i)
  BY <1>1, Zenon DEF Level, Reach
<1>5. ListType' /\ Stack'
  BY <1>1, <1>4, Zenon DEF ListInv, ListType, Stack
<1>6. Records'
  BY <1>1, <1>2, <1>3, Zenon DEF ListInv, Records
<1>7. Chains'
  BY <1>1, <1>2, <1>3, <1>4, Zenon DEF ListInv, Chains
<1>8. QED
  BY <1>5, <1>6, <1>7, Zenon DEF ListInv

(* A step may complete an attribute that is too long for its nfa_len; if   *)
(* it does not, the list stays in order.                                   *)
LEMMA ListStep == ListInv /\ [Next]_vars /\ ~overlong' => ListInv'
<1> SUFFICES ASSUME ListInv, [Next]_vars, ~overlong' PROVE ListInv'
  BY Zenon
<1>1. ASSUME NEW n \in Payload \cup LongData, Put(n) PROVE ListInv'
  BY <1>1, PutInv, SizeAssumption
<1>2. CASE NFA_NEST
  <2>1. fam = "NFA" /\ fam \in Family
    BY <1>2, Zenon DEF NFA_NEST, ListInv, ListType
  <2>2. LENGTH(0) = 4 /\ SPACE(0) = 4 /\ Before[fam] = 4
    <3>1. Sizeof[fam] = 4 /\ Inner[fam] = 4 /\ Before[fam] = 4
      BY <2>1, Families, Zenon
    <3>2. LENGTH(0) = 4
      BY <3>1 DEF LENGTH
    <3>3. Align4(4) = 4
      BY DEF Align4
    <3>4. QED
      BY <2>1, <3>1, <3>2, <3>3, Zenon DEF SPACE
  <2>3. PutRecord(4, Before[fam])
    BY <1>2, <2>2, Zenon DEF NFA_NEST
  <2>4. QED
    BY <1>2, <2>1, <2>3, NestInv, Zenon DEF NFA_NEST, Tables
<1>3. CASE BeginRule
  <2>1. Before[fam] \in Nat
    BY <1>3, Families, Zenon DEF BeginRule, ListInv, ListType
  <2>2. QED
    BY <1>3, <2>1, NestInv, Zenon DEF BeginRule
<1>4. CASE NFA_NEST_END
  <2>1. PICK m \in Nat : m + 1 = Len(nests)
    BY <1>4, OpenFacts DEF NFA_NEST_END
  <2>2. Len(nests) - 1 = m /\ m \in 0..Len(nests)
    BY <2>1
  <2>3. /\ nests' \in Seq(nested) /\ Len(nests') = m
        /\ \A i \in 1..m : nests'[i] = nests[i]
    BY <1>4, <2>2, Popped, Zenon DEF NFA_NEST_END, ListInv, ListType
  <2>4. tail' = tail + Behind[fam]
    BY <1>4, Families DEF NFA_NEST_END, ListInv, ListType
  <2>5. length' = [length EXCEPT ![Parent] = tail' - Parent]
    <3>1. PICK c : c = Parent /\ c \in Nat /\ c < tail
      <4>1. Len(nests) \in 1..Len(nests) /\ Len(nests) # 0
        BY <2>1
      <4>2. Parent \in recs
        BY <4>1, OpenFacts, Zenon DEF Level
      <4>3. QED
        BY <4>2, Zenon DEF ListInv, ListType, Records
    <3>2. tail \in Nat /\ ~Exceeds16(tail - c)
      BY <1>4, <3>1, Zenon DEF NFA_NEST_END, ListInv, ListType
    <3>3. U16(tail - c) = tail - c
      BY <3>1, <3>2, SMT DEF U16, Exceeds16
    <3>4. QED
      BY <1>4, <3>1, <3>3, Zenon DEF NFA_NEST_END
  <2>6. QED
    BY <1>4, <2>1, <2>3, <2>4, <2>5, CloseInv, Zenon DEF NFA_NEST_END
<1>5. CASE EndRule
  <2>1. Len(nests) = 1
    <3>1. Len(nests) \in Nat /\ Len(nests) # 0
      BY <1>5, OpenFacts, Zenon DEF EndRule
    <3>2. Len(nests) <= 1
      BY <1>5, Zenon DEF EndRule, ListInv, Stack
    <3>3. \A n \in Nat : n # 0 /\ n <= 1 => n = 1
      OBVIOUS
    <3>4. QED
      BY <3>1, <3>2, <3>3, Zenon
  <2>2. nests' = <<>> /\ Len(<<>>) = 0 /\ <<>> \in Seq(nested)
    BY <1>5 DEF EndRule
  <2>3. \A i \in 1..0 : nests'[i] = nests[i]
    OBVIOUS
  <2>4. 0 \in Nat /\ Len(nests) = 0 + 1 /\ Len(nests') = 0 /\ nests' \in Seq(nested)
    BY <2>1, <2>2
  <2>5. QED
    BY <1>5, <2>3, <2>4, CloseInv, Zenon DEF EndRule
<1>6. CASE NFA_NEST_CANCEL
  <2>1. PICK k \in 1..Len(nests) :
          /\ tail' = nests[k]
          /\ recs' = {o \in recs : o < nests[k]}
          /\ nested' = {o \in nested : o < nests[k]}
          /\ nests' = SubSeq(nests, 1, k - 1)
    BY <1>6, Zenon DEF NFA_NEST_CANCEL
  <2>2. PICK m \in Nat : m + 1 = k /\ k - 1 = m /\ m \in 0..Len(nests)
    BY OpenFacts
  <2>3. /\ nests' \in Seq(nested) /\ Len(nests') = m
        /\ \A i \in 1..m : nests'[i] = nests[i]
    BY <2>1, <2>2, Popped, Zenon DEF ListInv, ListType
  <2>4. /\ fam = "NFA" /\ fam' = fam
        /\ length' = [o \in recs' |-> length[o]] /\ parent' = [o \in recs' |-> parent[o]]
    BY <1>6, Zenon DEF NFA_NEST_CANCEL
  <2>5. PICK c : c = nests[m + 1]
    BY Zenon
  <2>6. m + 1 \in 1..Len(nests)
    BY <2>2, Zenon
  <2>7. QED
    BY <2>1, <2>2, <2>3, <2>4, <2>5, <2>6, CancelInv, Zenon
<1>7. ASSUME NEW n \in Cuts, NEW k \in Skips, Deliver(n, k) PROVE ListInv'
  BY <1>7, ListSame, Zenon DEF Deliver
<1>8. ASSUME NEW o \in seen, Descend(o) PROVE ListInv'
  BY <1>8, ListSame, Zenon DEF Descend
<1>9. CASE Walk \/ Break \/ EndOfList
  BY <1>9, ListSame, Zenon DEF Walk, Break, EndOfList
<1>10. CASE UNCHANGED vars
  BY <1>10, ListSame, Zenon DEF vars
<1>11. QED
  BY <1>1, <1>2, <1>3, <1>4, <1>5, <1>6, <1>7, <1>8, <1>9, <1>10, Zenon DEF Next

-----------------------------------------------------------------------------
(* The reader.  Once the list is sent nothing of it is open: the records   *)
(* the reader may meet are a chain.                                        *)
LEMMA RootChain ==
  ASSUME ListInv, Given
  PROVE  /\ Base(root) \in Nat /\ Upto \in Nat /\ Limit \in Int
         /\ Kids(root) \in SUBSET Nat /\ Kids(root) \subseteq recs
         /\ Chain(Base(root), Kids(root), next, Upto)
         /\ Limit <= Upto /\ Limit <= size
         /\ root # -1 \/ fam \in {"TLV", "XT", "TAG"} => Limit = Upto
         /\ root = -1 => Limit = size
<1>1. nests = <<>> /\ Len(nests) = 0 /\ 0 \in 0..Len(nests)
  BY DEF Given
<1>2. Open = {} /\ \A p : Closed(p) = Kids(p)
  BY <1>1 DEF Open, Closed
<1>3. /\ recs \subseteq Nat /\ length \in [recs -> Nat] /\ nested \subseteq recs /\ tail \in Nat
      /\ fam \in Family
  BY Zenon DEF ListInv, ListType
<1>4. Kids(root) \in SUBSET Nat /\ Kids(root) \subseteq recs
  BY <1>3, Zenon DEF Kids
<1>5. Base(root) \in Nat
  BY BaseType, Zenon DEF Given
<1>6. CASE root = -1
  <2>1. Level(0) = -1 /\ Reach(0) = tail
    BY <1>1, Zenon DEF Level, Reach
  <2>2. Chain(Base(-1), Kids(-1), next, tail)
    <3>1. Chain(Base(Level(0)), Closed(Level(0)), next, Reach(0))
      BY <1>1, Zenon DEF ListInv, Chains
    <3>2. QED
      BY <1>2, <2>1, <3>1, Zenon
  <2>3. Upto = tail /\ Limit = size
    BY <1>6, Zenon DEF Upto, Limit
  <2>4. size \in 0..tail /\ (fam \in {"TLV", "XT", "TAG"} => size = tail)
    BY Zenon DEF Given
  <2>5. size \in Int /\ size <= tail
    BY <1>3, <2>4
  <2>6. QED
    BY <1>3, <1>4, <1>5, <1>6, <2>2, <2>3, <2>4, <2>5
<1>7. CASE root # -1
  <2>1. root \in nested /\ root \in recs /\ root + length[root] <= size
    BY <1>3, <1>7, Zenon DEF Given
  <2>2. Chain(Base(root), Kids(root), next, root + length[root] - Behind[fam])
    BY <1>2, <2>1, Zenon DEF ListInv, Chains
  <2>3. fam \in {"NFA"} \cup Tables
    BY <2>1, Zenon DEF ListInv, Stack
  <2>4. PICK w \in Nat : w = Behind[fam]
    BY <1>3, <2>3, Families, Zenon
  <2>5. PICK x \in Nat, l \in Nat : x = root /\ l = length[root] /\ x + l <= size
    BY <1>3, <2>1, Zenon
  <2>6. Upto = (x + l) - w /\ Limit = (x + l) - w
    BY <1>7, <2>4, <2>5 DEF Upto, Limit
  <2>7. size \in Int
    BY <1>3 DEF Given
  <2>8. (x + l) - w \in Int /\ (x + l) - w <= size
    BY <2>5, <2>7
  <2>9. Base(root) <= Upto
    BY <2>2, <2>4, <2>5, <2>6 DEF Chain
  <2>10. Upto \in Nat
    BY <1>5, <2>6, <2>8, <2>9
  <2>11. Chain(Base(root), Kids(root), next, Upto)
    BY <2>2, <2>4, <2>5, <2>6
  <2>12. QED
    BY <1>4, <1>5, <1>7, <2>6, <2>8, <2>10, <2>11
<1>8. QED
  BY <1>6, <1>7, Zenon

(* A record of the chain has its header, and ends before the next one. *)
LEMMA KidFacts ==
  ASSUME ListInv, Given, NEW o \in Kids(root)
  PROVE  /\ o \in recs /\ o \in Nat /\ parent[o] = root /\ length[o] \in Nat /\ next[o] \in Nat
         /\ length[o] >= 4 /\ (root = -1 => Sizeof[fam] <= length[o])
         /\ next[o] = o + Pace(length[o])
         /\ o + length[o] <= next[o] /\ next[o] <= Upto
         /\ Base(root) <= o /\ o < next[o]
<1>1. o \in recs /\ parent[o] = root
  BY Zenon DEF Kids
<1>2. o \in Nat /\ length[o] \in Nat /\ next[o] \in Nat /\ o + length[o] <= next[o]
  BY <1>1, RecordFacts, Zenon DEF ListInv, ListType
<1>3. Base(root) <= o /\ next[o] <= Upto /\ o < next[o]
  BY RootChain, Zenon DEF Chain
<1>4. o \notin Open
  BY DEF Given, Open
<1>5. HeaderOf(o) <= length[o]
  BY <1>1, <1>4, Zenon DEF ListInv, Records
<1>6. CASE root = -1
  <2>1. Sizeof[fam] \in Nat /\ 4 <= Sizeof[fam]
    BY Families, Zenon DEF ListInv, ListType
  <2>2. Sizeof[fam] <= length[o]
    BY <1>1, <1>5, <1>6, Zenon DEF HeaderOf
  <2>3. QED
    BY <1>1, <1>2, <1>3, <2>1, <2>2 DEF next
<1>7. CASE root # -1
  <2>1. fam \in {"NFA"} \cup Tables
    BY <1>7, Zenon DEF Given, ListInv, Stack
  <2>2. Inner[fam] \in Nat /\ 4 <= Inner[fam]
    BY <2>1, Families, Zenon DEF ListInv, ListType
  <2>3. Inner[fam] <= length[o]
    BY <1>1, <1>5, <1>7, Zenon DEF HeaderOf
  <2>4. QED
    BY <1>1, <1>2, <1>3, <1>7, <2>2, <2>3 DEF next
<1>8. QED
  BY <1>6, <1>7, Zenon

(* There is something to visit only where a record is. *)
LEMMA OffInside ==
  ASSUME ListInv, Given, Walking
  PROVE  /\ off \in Nat /\ len \in Int /\ len = Limit - off /\ off <= Upto
         /\ off \notin Kids(root) => off = Upto /\ len <= 0
         /\ fam \in {"TLV", "XT", "TAG"} => Limit = Upto /\ 0 <= len
<1>1. off \in Kids(root) \cup {Upto} /\ len = Limit - off
  BY Zenon DEF Walking
<1>2. off \in Nat /\ off <= Upto
  BY <1>1, RootChain, KidFacts
<1>3. Limit \in Int /\ Limit <= Upto /\ Upto \in Nat
      /\ (fam \in {"TLV", "XT", "TAG"} => Limit = Upto)
  BY RootChain, Zenon
<1>4. QED
  BY <1>1, <1>2, <1>3

LEMMA OkPositive ==
  ASSUME fam \in Family, NEW l \in Nat, NEW n \in Int, Ok(l, n),
         fam = "TLV" => n >= 0, fam # "TAG"
  PROVE  /\ n > 0
         /\ fam \notin {"TLV"} \cup Whole => l <= n
         /\ fam \in {"NLMSG", "RTA", "NFA", "RTNH", "FAN"} => n >= Sizeof[fam]
<1>1. fam \in {"NLMSG", "RTA", "NFA", "RTNH", "FAN", "TLV", "XT", "EBT", "TAG"}
  BY Families, Zenon
<1>2. /\ Sizeof["NLMSG"] = 16 /\ Sizeof["RTA"] = 4 /\ Sizeof["NFA"] = 4
      /\ Sizeof["RTNH"] = 8 /\ Sizeof["FAN"] = 24
  BY Zenon DEF Sizeof
<1>3. QED
  BY <1>1, <1>2 DEF Ok, NLMSG_OK, RTA_OK, NFA_OK, RTNH_OK, FAN_EVENT_OK, TLV_OK, ITERATE,
                    Tables, Whole

LEMMA FieldsType ==
  ASSUME ListInv, NEW l \in Fields
  PROVE  l \in Nat
<1>1. length \in [recs -> Nat] /\ Junk \subseteq Nat
  BY SizeAssumption DEF ListInv, ListType
<1>2. \/ off \in recs /\ l = length[off]
      \/ l = 0
      \/ l \in Junk
  BY Zenon DEF Fields
<1>3. ASSUME off \in recs PROVE length[off] \in Nat
  BY <1>1, <1>3, Zenon
<1>4. l \in Junk => l \in Nat
  BY <1>1, Zenon
<1>5. QED
  BY <1>2, <1>3, <1>4

(* OK holds of nothing but a record whose header is there: it is then the  *)
(* record's own length field that is read, and NEXT goes to the next       *)
(* record.                                                                 *)
LEMMA OkMeansRecord ==
  ASSUME ListInv, Given, Walking, NEW l \in Fields, Ok(l, len)
  PROVE  /\ off \in Kids(root) /\ l = length[off] /\ Step(l) = Pace(l)
         /\ off < Limit /\ (fam = "EBT" \/ off + length[off] <= Limit)
<1>1. fam \in Family /\ l \in Nat
  BY FieldsType, Zenon DEF ListInv, ListType
<1>2. fam \in {"NLMSG", "RTA", "NFA", "RTNH", "FAN", "TLV", "XT", "EBT", "TAG"}
  BY <1>1, Families, Zenon
<1>3. fam \in {"TLV", "TAG", "NLMSG", "RTA", "RTNH", "FAN"} => root = -1
  BY Zenon DEF Given, ListInv, Stack, Tables
<1>4. off \in Kids(root)
  <2> SUFFICES ASSUME off \notin Kids(root) PROVE FALSE
    BY Zenon
  <2>1. off = Upto /\ len <= 0 /\ len \in Int /\ (fam \in {"TLV", "XT", "TAG"} => 0 <= len)
    BY OffInside, Zenon
  <2>2. CASE fam = "TAG"
    <3>1. off = tail
      BY <1>3, <2>1, <2>2, Zenon DEF Upto
    <3>2. l = 0
      BY <2>2, <3>1, RecordFacts, Zenon DEF Fields
    <3>3. QED
      BY <2>2, <3>2, Zenon DEF Ok, for_each_tag, Tables
  <2>3. CASE fam # "TAG"
    BY <1>1, <2>1, <2>3, OkPositive
  <2>4. QED
    BY <2>2, <2>3, Zenon
<1>5. /\ off \in recs /\ off \in Nat /\ length[off] \in Nat /\ length[off] >= 4
      /\ (root = -1 => Sizeof[fam] <= length[off])
      /\ off + length[off] <= Upto
  <2>1. /\ next[off] \in Nat /\ off + length[off] <= next[off] /\ next[off] <= Upto
        /\ off \in Nat /\ length[off] \in Nat
    BY <1>4, KidFacts, Zenon
  <2>2. off + length[off] <= Upto
    BY <2>1, RootChain
  <2>3. QED
    BY <1>4, <2>2, KidFacts, Zenon
<1>6. /\ len = Limit - off /\ len \in Int /\ Limit \in Int /\ Limit <= size /\ size \in Int
      /\ (fam \in {"TLV", "XT", "TAG"} => Limit = Upto /\ 0 <= len)
  <2>1. Limit \in Int /\ Limit <= size
    BY RootChain, Zenon
  <2>2. /\ len = Limit - off /\ len \in Int
        /\ fam \in {"TLV", "XT", "TAG"} => Limit = Upto /\ 0 <= len
    BY OffInside, Zenon
  <2>3. size \in Int
    BY DEF Given, ListInv, ListType
  <2>4. QED
    BY <2>1, <2>2, <2>3, Zenon
<1>7. Sizeof[fam] \in Nat
  BY <1>1, Families, Zenon
<1>8. l = length[off]
  <2> SUFFICES ASSUME l # length[off] PROVE FALSE
    BY Zenon
  <2>1. fam \notin Tables /\ ~(off + Sizeof[fam] <= size)
    BY <1>5, Zenon DEF Fields
  <2>2. len < Sizeof[fam]
    BY <1>5, <1>6, <1>7, <2>1
  <2>3. CASE fam \in {"TLV", "TAG"}
    <3>1. root = -1 /\ Limit = Upto
      BY <1>3, <1>6, <2>3, Zenon
    <3>2. off + Sizeof[fam] <= Upto
      BY <1>5, <1>7, <3>1, RootChain
    <3>3. QED
      BY <1>5, <1>6, <1>7, <2>1, <3>1, <3>2
  <2>4. CASE fam \notin {"TLV", "TAG"}
    <3>1. fam \in {"NLMSG", "RTA", "NFA", "RTNH", "FAN"}
      BY <1>2, <2>1, <2>4, Zenon DEF Tables
    <3>2. len >= Sizeof[fam]
      BY <1>1, <1>6, <3>1, OkPositive, Zenon
    <3>3. QED
      BY <1>6, <1>7, <2>2, <3>2
  <2>5. QED
    BY <2>3, <2>4, Zenon
<1>9. off < Limit
  <2>1. CASE fam = "TAG"
    BY <1>5, <1>6, <2>1
  <2>2. CASE fam # "TAG"
    <3>1. len > 0
      BY <1>1, <1>6, <2>2, OkPositive, Zenon
    <3>2. QED
      BY <1>5, <1>6, <3>1
  <2>3. QED
    BY <2>1, <2>2, Zenon
<1>10. fam = "EBT" \/ off + length[off] <= Limit
  <2>1. CASE fam \in {"TLV", "XT", "TAG"}
    BY <1>5, <1>6, <2>1, Zenon
  <2>2. CASE fam \notin {"TLV", "XT", "TAG", "EBT"}
    <3>1. l <= len
      BY <1>1, <1>6, <2>2, OkPositive, Zenon DEF Whole
    <3>2. QED
      BY <1>5, <1>6, <1>8, <3>1
  <2>3. QED
    BY <2>1, <2>2, Zenon
<1>11. Step(l) = Pace(l)
  <2>1. CASE fam = "TLV"
    <3>1. l <= len % 65536
      BY <2>1 DEF Ok, TLV_OK, Tables
    <3>2. len % 4 = 0
      <4>1. tail % 4 = 0 /\ off % 4 = 0 /\ tail \in Nat
        BY <1>5, <2>1, Zenon DEF ListInv, Records, ListType
      <4>2. Limit = tail /\ off <= tail
        BY <1>3, <1>6, <2>1, OffInside, Zenon DEF Upto
      <4>3. QED
        BY <1>5, <1>6, <4>1, <4>2, MultiplesOf4, Zenon
    <3>3. len \in Nat
      BY <1>6, <2>1
    <3>4. Align4(l) % 65536 = Align4(l)
      BY <1>1, <3>1, <3>2, <3>3, StepOfTLV
    <3>5. Step(l) = Align4(l) % 65536
      BY <2>1 DEF Step, Whole
    <3>6. QED
      BY <2>1, <3>4, <3>5 DEF Pace, Whole
  <2>2. CASE fam # "TLV"
    BY <1>2, <2>2 DEF Step, Pace, Whole
  <2>3. QED
    BY <2>1, <2>2, Zenon
<1>12. QED
  BY <1>4, <1>8, <1>9, <1>10, <1>11, Zenon

(* And it holds of every record that is whole. *)
LEMMA WholeMeansOk ==
  ASSUME ListInv, Given, Walking, off \in Kids(root), off + length[off] <= Limit,
         ~(fam = "TLV" /\ size > 65535), NEW l \in Fields
  PROVE  Ok(l, len)
<1>1. /\ off \in recs /\ off \in Nat /\ length[off] \in Nat /\ length[off] >= 4
      /\ (root = -1 => Sizeof[fam] <= length[off])
  BY KidFacts
<1>2. /\ len = Limit - off /\ len \in Int /\ Limit \in Int /\ Limit <= size /\ size \in Int
  <2>1. Limit \in Int /\ Limit <= size
    BY RootChain
  <2>2. len = Limit - off /\ len \in Int
    BY OffInside
  <2>3. size \in Int
    BY DEF Given, ListInv, ListType
  <2>4. QED
    BY <2>1, <2>2, <2>3
<1>3. fam \in {"NLMSG", "RTA", "NFA", "RTNH", "FAN", "TLV", "XT", "EBT", "TAG"}
  BY Families DEF ListInv, ListType
<1>4. /\ Sizeof["NLMSG"] = 16 /\ Sizeof["RTA"] = 4 /\ Sizeof["NFA"] = 4
      /\ Sizeof["RTNH"] = 8 /\ Sizeof["FAN"] = 24 /\ Sizeof["TLV"] = 4 /\ Sizeof["TAG"] = 8
  BY ONLY TRUE, Zenon DEF Sizeof
<1>5. fam \notin {"NFA"} \cup Tables => root = -1
  BY DEF Given, ListInv, Stack
<1>6. length[off] <= len /\ len >= 4
  BY <1>1, <1>2
<1>7. l = length[off]
  <2>1. fam \in Tables \/ off + Sizeof[fam] <= size
    <3>1. CASE root = -1
      <4>1. Sizeof[fam] \in Nat
        BY Families DEF ListInv, ListType
      <4>2. QED
        BY <1>1, <1>2, <3>1, <4>1
    <3>2. CASE root # -1
      <4>1. fam \in Tables \/ Sizeof[fam] = 4
        BY <1>3, <1>4, <1>5, <3>2
      <4>2. QED
        BY <1>1, <1>2, <4>1
    <3>3. QED
      BY <3>1, <3>2
  <2>2. QED
    BY <1>1, <2>1 DEF Fields
<1>8. CASE fam = "TLV"
  <2>1. len <= 65535
    BY <1>1, <1>2, <1>8
  <2>2. len % 65536 = len
    BY <1>2, <1>6, <2>1
  <2>3. QED
    BY <1>1, <1>2, <1>6, <1>7, <1>8, <2>2 DEF Ok, TLV_OK
<1>9. CASE fam \in Tables
  BY <1>2, <1>6, <1>9 DEF Ok, ITERATE
<1>10. CASE fam = "TAG"
  BY <1>1, <1>7, <1>10 DEF Ok, for_each_tag
<1>11. CASE fam = "NFA"
  BY <1>1, <1>2, <1>6, <1>7, <1>11 DEF Ok, NFA_OK
<1>12. CASE fam \in {"NLMSG", "RTA", "RTNH", "FAN"}
  <2>1. Sizeof[fam] <= length[off]
    BY <1>1, <1>5, <1>12 DEF Tables
  <2>2. QED
    BY <1>1, <1>2, <1>4, <1>6, <1>7, <1>12, <2>1 DEF Ok, NLMSG_OK, RTA_OK, RTNH_OK, FAN_EVENT_OK
<1>13. QED
  BY <1>3, <1>8, <1>9, <1>10, <1>11, <1>12 DEF Tables

(* Nothing the reader's loops do changes what its invariant is about. *)
LEMMA SameList ==
  ASSUME UNCHANGED listVars
  PROVE  /\ fam' = fam /\ recs' = recs /\ length' = length /\ parent' = parent
         /\ nested' = nested /\ tail' = tail /\ nests' = nests
         /\ next' = next /\ \A p : Kids(p)' = Kids(p) /\ Base(p)' = Base(p)
         /\ root' = root => Upto' = Upto /\ (size' = size => Limit' = Limit)
<1>1. /\ fam' = fam /\ recs' = recs /\ length' = length /\ parent' = parent
      /\ nested' = nested /\ tail' = tail /\ nests' = nests
  BY DEF listVars
<1>2. next' = next /\ \A p : Kids(p)' = Kids(p) /\ Base(p)' = Base(p)
  BY <1>1 DEF next, Pace, Kids, Base
<1>3. root' = root => Upto' = Upto /\ (size' = size => Limit' = Limit)
  BY <1>1 DEF Upto, Limit
<1>4. QED
  BY <1>1, <1>2, <1>3

LEMMA PassedFinite ==
  ASSUME Counted, NEW p, NEW n
  PROVE  /\ Cardinality({o \in Kids(p) : o < n}) \in Nat
         /\ Cardinality({o \in Kids(p) : o < n}) <= MaxRecs
<1>1. PICK S \in SUBSET recs : S = {o \in Kids(p) : o < n}
  BY Zenon DEF Kids
<1>2. Cardinality(S) \in 0..MaxRecs
  BY DEF Counted
<1>3. QED
  BY <1>1, <1>2, SizeAssumption

(* One more record is met. *)
LEMMA OneMore ==
  ASSUME Counted, NEW K \in SUBSET recs, recs \subseteq Nat, NEW a \in K, NEW b \in Nat,
         {q \in K : q < b} = {q \in K : q < a} \cup {a}
  PROVE  Cardinality({q \in K : q < b}) = Cardinality({q \in K : q < a}) + 1
<1>1. PICK S \in SUBSET recs : S = {q \in K : q < a}
  BY Zenon
<1>2. a \in recs \ S
  BY <1>1
<1>3. Cardinality(S \cup {a}) = Cardinality(S) + 1
  BY <1>2 DEF Counted
<1>4. QED
  BY <1>1, <1>3

LEMMA WalkStep ==
  ASSUME ListInv, Counted, Given, Walking, Walk
  PROVE  Given' /\ Walking' /\ reader' = "walks"
<1>1. PICK l \in Fields : Ok(l, len) /\ off' = off + Step(l) /\ len' = len - Step(l)
  BY DEF Walk
<1>2. /\ UNCHANGED listVars /\ size' = size /\ root' = root /\ skip' = skip
      /\ reader' = "walks" /\ ret' = ret /\ nth' = nth + 1
      /\ seen' = IF nth < skip THEN seen ELSE seen \cup {off}
  BY DEF Walk, Visit
<1>3. /\ off \in Kids(root) /\ l = length[off] /\ Step(l) = Pace(l)
      /\ off < Limit /\ (fam = "EBT" \/ off + length[off] <= Limit)
  BY <1>1, OkMeansRecord
<1>4. /\ off \in Nat /\ next[off] \in Nat /\ next[off] = off + Pace(length[off])
      /\ off < next[off]
  BY <1>3, KidFacts
<1>5. off' = next[off] /\ len' = Limit - off'
  <2>1. off' = next[off]
    BY <1>1, <1>3, <1>4
  <2>2. PICK s \in Int : s = Pace(length[off]) /\ off' = off + s /\ len' = len - s
    BY <1>1, <1>3, PaceType, KidFacts
  <2>3. len = Limit - off /\ Limit \in Int
    BY OffInside, RootChain
  <2>4. (Limit - off) - s = Limit - (off + s)
    BY <1>4, <2>3
  <2>5. QED
    BY <2>1, <2>2, <2>3, <2>4
<1>6. /\ Kids(root)' = Kids(root) /\ Base(root)' = Base(root) /\ Upto' = Upto /\ Limit' = Limit
      /\ next' = next /\ fam' = fam /\ length' = length
  BY <1>2, SameList
<1>7. PICK K : K = Kids(root) /\ Kids(root)' = K /\ K \in SUBSET Nat /\ K \in SUBSET recs
  BY <1>6, RootChain DEF Kids
<1>8. /\ next[off] \in K \cup {Upto}
      /\ {q \in K : q < next[off]} = {q \in K : q < off} \cup {off}
  <2>1. Base(root) \in Nat /\ Upto \in Nat /\ Chain(Base(root), K, next, Upto)
    BY <1>7, RootChain
  <2>2. off \in K
    BY <1>3, <1>7
  <2>3. PICK b, u, nx, o : b = Base(root) /\ u = Upto /\ nx = next /\ o = off
    OBVIOUS
  <2>4. /\ b \in Nat /\ u \in Nat /\ Chain(b, K, nx, u) /\ K \in SUBSET Nat
        /\ o \in K /\ nx[o] \in Nat
    BY <1>4, <1>7, <2>1, <2>2, <2>3
  <2>5. nx[o] \in K \cup {u} /\ \A q \in K : q < nx[o] <=> q < o \/ q = o
    BY <2>4, ChainStep DEF Chain
  <2>6. {q \in K : q < nx[o]} = {q \in K : q < o} \cup {o}
    BY ONLY <2>4, <2>5, Zenon
  <2>7. QED
    BY <2>3, <2>5, <2>6
<1>9. Passed = {q \in K : q < off} /\ Passed' = {q \in K : q < next[off]}
  BY <1>5, <1>7 DEF Passed
<1>10. Passed' = Passed \cup {off}
  BY <1>8, <1>9
<1>11. /\ ret = 0
       /\ \A o \in Passed : o < Limit /\ (fam = "EBT" \/ o + length[o] <= Limit)
       /\ seen = {o \in Passed : Cardinality({p \in K : p < o}) >= skip}
       /\ nth = Cardinality(Passed)
  BY <1>7 DEF Walking
<1>12. nth \in Nat /\ nth' = Cardinality(Passed')
  <2>1. Cardinality({q \in K : q < off}) \in Nat /\ recs \subseteq Nat
    BY <1>7, PassedFinite, Zenon DEF ListInv, ListType
  <2>2. Cardinality({q \in K : q < next[off]}) = Cardinality({q \in K : q < off}) + 1
    BY <1>3, <1>4, <1>7, <1>8, <2>1, OneMore
  <2>3. QED
    BY <1>2, <1>9, <1>11, <2>1, <2>2
<1>13. seen' = {o \in Passed' : Cardinality({p \in K : p < o}) >= skip}
  <2>1. skip \in Nat
    BY SizeAssumption DEF Given
  <2>2. nth < skip <=> ~(Cardinality({p \in K : p < off}) >= skip)
    BY <1>9, <1>11, <1>12, <2>1
  <2>3. QED
    BY <1>2, <1>10, <1>11, <2>2
<1>14. Given'
  BY <1>2, SameList DEF Given
<1>15. Walking'
  <2>1. off' \in Kids(root)' \cup {Upto'}
    BY <1>5, <1>6, <1>7, <1>8
  <2>2. \E q \in Kids(root)' : q < off' /\ next'[q] = off'
    BY <1>3, <1>4, <1>5, <1>6
  <2>3. \A o \in Passed' : o < Limit' /\ (fam' = "EBT" \/ o + length'[o] <= Limit')
    BY <1>3, <1>6, <1>10, <1>11
  <2>4. seen' = {o \in Passed' : Cardinality({p \in Kids(root)' : p < o}) >= skip'}
    BY <1>2, <1>7, <1>13
  <2>5. len' = Limit' - off' /\ ret' = 0
    BY <1>2, <1>5, <1>6, <1>11
  <2>6. QED
    BY <1>12, <2>1, <2>2, <2>3, <2>4, <2>5 DEF Walking
<1>16. QED
  BY <1>2, <1>14, <1>15

(* The beginning of a walk. *)
Starting ==
  /\ seen = {} /\ nth = 0 /\ ret = 0
  /\ off = Base(root) /\ len = Limit - off

LEMMA StartWalk == ListInv /\ Counted /\ Given /\ Starting => Walking
<1> SUFFICES ASSUME ListInv, Counted, Given, Starting PROVE Walking
  OBVIOUS
<1>1. /\ Base(root) \in Nat /\ Kids(root) \in SUBSET Nat
      /\ Chain(Base(root), Kids(root), next, Upto)
  BY RootChain
<1>2. off \in Kids(root) \cup {Upto}
  BY <1>1 DEF Starting, Chain
<1>3. ASSUME NEW o \in Kids(root) PROVE ~(o < off)
  <2>1. off \in Nat /\ o \in Nat /\ off <= o
    BY <1>1 DEF Starting, Chain
  <2>2. QED
    BY <2>1
<1>4. Passed = {}
  BY <1>3 DEF Passed
<1>5. Cardinality(Passed) = 0
  BY <1>4 DEF Counted
<1>6. QED
  BY <1>2, <1>4, <1>5 DEF Starting, Walking

(* What has been seen is a record of what is walked, and within it. *)
LEMMA SeenFacts ==
  ASSUME ListInv, Counted, Given, Walking
  PROVE  /\ \A o \in seen : /\ o \in recs /\ parent[o] = root
                            /\ fam = "EBT" \/ o + length[o] <= Limit
         /\ seen \subseteq recs /\ nth \in 0..MaxRecs
<1>1. \A o \in Passed : o \in recs /\ parent[o] = root
  BY DEF Passed, Kids
<1>2. seen \subseteq Passed
  BY DEF Walking
<1>3. \A o \in Passed : fam = "EBT" \/ o + length[o] <= Limit
  BY DEF Walking
<1>4. nth \in 0..MaxRecs
  <2>1. nth = Cardinality(Passed) /\ Passed = {o \in Kids(root) : o < off}
    BY DEF Walking, Passed
  <2>2. nth \in Nat /\ nth <= MaxRecs
    BY <2>1, PassedFinite
  <2>3. QED
    BY <2>2, SizeAssumption
<1>5. QED
  BY <1>1, <1>2, <1>3, <1>4

LEMMA TypesOf ==
  ASSUME ListInv, reader \in {"waits", "walks", "done"}, size \in 0..tail,
         root \in nested \cup {-1}, off \in Nat, len \in Int, fam = "TLV" => len \in Nat,
         skip \in Skips \cup {0}, nth \in 0..MaxRecs, seen \subseteq recs, ret \in {0, 1, -22}
  PROVE  TypeOK
  BY DEF TypeOK, ListInv, ListType

LEMMA OnlyWholeWalking ==
  ASSUME ListInv, Counted, Given, Walking, reader = "walks"
  PROVE  OnlyWhole
<1>1. /\ \A o \in seen : /\ o \in recs /\ parent[o] = root
                         /\ fam = "EBT" \/ o + length[o] <= Limit
      /\ seen \subseteq recs /\ nth \in 0..MaxRecs
  BY SeenFacts
<1>2. off \in Nat /\ len \in Int /\ (fam = "TLV" => len \in Nat)
  BY OffInside
<1>3. /\ size \in 0..tail /\ root \in nested \cup {-1} /\ skip \in Skips \cup {0}
      /\ ret \in {0, 1, -22}
  BY DEF Given, Walking
<1>4. TypeOK
  BY <1>1, <1>2, <1>3, TypesOf
<1>5. QED
  BY <1>1, <1>4 DEF OnlyWhole

(* The end of a list of ebtables: the records end where the walk has got   *)
(* exactly when they end at the limit.                                     *)
LEMMA EndOfTable ==
  ASSUME ListInv, Given, Walking, len <= 0
  PROVE  len = 0 <=> \/ Limit = Base(root)
                     \/ \E o \in Kids(root) : next[o] = Limit
<1>1. /\ off \in Nat /\ Limit \in Int /\ len = Limit - off /\ Base(root) \in Nat
      /\ Limit <= off
  BY OffInside, RootChain
<1>2. len = 0 <=> off = Limit
  BY <1>1
<1>3. off # Base(root) => \E q \in Kids(root) : q < off /\ next[q] = off
  BY DEF Walking
<1>4. ASSUME NEW o \in Kids(root), o < off PROVE o < Limit
  BY <1>4 DEF Walking, Passed
<1>5. ASSUME off = Limit
      PROVE  Limit = Base(root) \/ \E o \in Kids(root) : next[o] = Limit
  BY <1>3, <1>5
<1>6. ASSUME Limit = Base(root) PROVE off = Limit
  <2>1. SUFFICES ASSUME off # Limit PROVE FALSE
    OBVIOUS
  <2>2. PICK q \in Kids(root) : q < off
    BY <1>3, <1>6, <2>1
  <2>3. q < Limit /\ q \in Nat /\ Base(root) <= q
    BY <1>4, <2>2, KidFacts
  <2>4. QED
    BY <1>1, <1>6, <2>3
<1>7. ASSUME NEW o \in Kids(root), next[o] = Limit PROVE off = Limit
  <2>1. SUFFICES ASSUME off # Limit PROVE FALSE
    OBVIOUS
  <2>2. o \in Nat /\ o < Limit /\ Base(root) <= o
    BY <1>7, KidFacts
  <2>3. off # Base(root)
    BY <1>1, <2>2
  <2>4. PICK q \in Kids(root) : q < off /\ next[q] = off
    BY <1>3, <2>3
  <2>5. q \in Nat /\ q < Limit
    BY <1>4, <2>4, KidFacts
  <2>6. q <= o \/ Limit <= q
    BY <1>7, RootChain DEF Chain
  <2>7. o <= q \/ off <= o
    BY <2>4, RootChain DEF Chain
  <2>8. q = o
    BY <1>1, <2>2, <2>5, <2>6, <2>7
  <2>9. QED
    BY <1>7, <2>1, <2>4, <2>8
<1>8. QED
  BY <1>2, <1>5, <1>6, <1>7

(* The records that have been passed end before the place that has been    *)
(* reached.                                                                *)
LEMMA PassedEnd ==
  ASSUME ListInv, Given, Walking, NEW o \in Passed
  PROVE  o \in Kids(root) /\ o + length[o] <= off
<1>1. o \in Kids(root) /\ o < off
  BY DEF Passed
<1>2. /\ o \in Nat /\ length[o] \in Nat /\ next[o] \in Nat /\ o + length[o] <= next[o]
      /\ next[o] <= Upto
  BY <1>1, KidFacts
<1>3. off \in Kids(root) \cup {Upto} /\ off \in Nat
  BY OffInside, Zenon DEF Walking
<1>4. next[o] <= off
  <2>1. CASE off \in Kids(root)
    <3>1. off <= o \/ next[o] <= off
      BY <1>1, <2>1, RootChain DEF Chain
    <3>2. QED
      BY <1>1, <1>2, <1>3, <3>1
  <2>2. CASE off = Upto
    BY <1>2, <2>2
  <2>3. QED
    BY <1>3, <2>1, <2>2
<1>5. QED
  BY <1>1, <1>2, <1>3, <1>4

(* A loop that ends has passed all the records that are whole. *)
LEMMA EndPassesAll ==
  ASSUME ListInv, Given, Walking, NEW l \in Fields, ~Ok(l, len),
         ~(fam = "TLV" /\ size > 65535),
         NEW o \in Kids(root), o + length[o] <= Limit
  PROVE  o \in Passed
<1>1. /\ o \in Nat /\ length[o] \in Nat /\ next[o] \in Nat /\ o < next[o] /\ next[o] <= Upto
  BY KidFacts
<1>2. /\ off \in Kids(root) \cup {Upto} /\ off \in Nat /\ Limit \in Int /\ Upto \in Nat
  <2>1. off \in Kids(root) \cup {Upto}
    BY DEF Walking
  <2>2. QED
    BY <2>1, OffInside, RootChain
<1>3. SUFFICES ASSUME off <= o PROVE FALSE
  BY <1>1, <1>2 DEF Passed
<1>4. off \in Kids(root)
  BY <1>1, <1>2, <1>3
<1>5. off + length[off] <= Limit
  <2>1. CASE off = o
    BY <2>1
  <2>2. CASE off # o
    <3>1. o <= off \/ next[off] <= o
      BY <1>4, RootChain DEF Chain
    <3>2. next[off] <= o
      BY <1>1, <1>2, <1>3, <2>2, <3>1
    <3>3. /\ length[off] \in Nat /\ next[off] \in Nat /\ off + length[off] <= next[off]
      BY <1>4, KidFacts
    <3>4. QED
      BY <1>1, <1>2, <3>2, <3>3
  <2>3. QED
    BY <2>1, <2>2
<1>6. QED
  BY <1>4, <1>5, WholeMeansOk

(* The end of a loop, or of one that the function it calls ends. *)
LEMMA DoneInv ==
  ASSUME ListInv, Counted, Given, Walking, reader = "walks", EndOfList
  PROVE  Given' /\ Done' /\ reader' = "done"
<1>1. PICK l \in Fields : ~Ok(l, len)
  BY DEF EndOfList
<1>2. /\ UNCHANGED listVars /\ size' = size /\ root' = root /\ off' = off /\ len' = len
      /\ skip' = skip /\ nth' = nth /\ seen' = seen /\ reader' = "done"
      /\ ret' = IF fam = "EBT" /\ len # 0 THEN -22 ELSE 0
  BY DEF EndOfList
<1>3. /\ fam' = fam /\ recs' = recs /\ length' = length /\ parent' = parent
      /\ nested' = nested /\ tail' = tail /\ nests' = nests /\ Limit' = Limit
  BY <1>2, SameList
<1>4. Given'
  BY <1>2, <1>3 DEF Given
<1>5. fam = "EBT" => len <= 0
  <2>1. len \in Int
    BY OffInside
  <2>2. QED
    BY <1>1, <2>1 DEF Ok, ITERATE, Tables
<1>6. OnlyWhole'
  <2>1. TypeOK'
    <3>1. TypeOK
      BY OnlyWholeWalking DEF OnlyWhole
    <3>2. reader' \in {"waits", "walks", "done"} /\ ret' \in {0, 1, -22}
      BY <1>2
    <3>3. QED
      BY <1>2, <1>3, <3>1, <3>2 DEF TypeOK
  <2>2. ASSUME NEW o \in seen, fam = "EBT", ret' = 0 PROVE o + length[o] <= Limit
    <3>1. len = 0
      BY <1>2, <2>2
    <3>2. off = Limit
      BY <3>1, OffInside, RootChain
    <3>3. o \in Passed
      BY DEF Walking
    <3>4. QED
      BY <3>2, <3>3, PassedEnd
  <2>3. \A o \in seen : /\ o \in recs /\ parent[o] = root
                        /\ fam = "EBT" \/ o + length[o] <= Limit
    BY SeenFacts
  <2>4. QED
    BY <1>2, <1>3, <2>1, <2>2, <2>3 DEF OnlyWhole
<1>7. AllWhole'
  <2>1. ASSUME NEW o \in recs, parent[o] = root, o + length[o] <= Limit,
               ~(fam = "TLV" /\ size > 65535)
        PROVE  o \in seen \/ Cardinality({p \in recs : parent[p] = root /\ p < o}) < skip
    <3>1. o \in Kids(root)
      BY <2>1 DEF Kids
    <3>2. o \in Passed
      BY <1>1, <2>1, <3>1, EndPassesAll
    <3>3. {p \in Kids(root) : p < o} = {p \in recs : parent[p] = root /\ p < o}
      BY DEF Kids
    <3>4. PICK n : n = Cardinality({p \in Kids(root) : p < o}) /\ n \in Nat
      BY PassedFinite
    <3>5. skip \in Nat
      BY SizeAssumption DEF Given
    <3>6. o \in seen <=> n >= skip
      BY <3>2, <3>4 DEF Walking
    <3>7. n = Cardinality({p \in recs : parent[p] = root /\ p < o})
      BY <3>3, <3>4
    <3>8. n >= skip \/ n < skip
      BY <3>4, <3>5
    <3>9. QED
      BY <3>6, <3>7, <3>8
  <2>2. QED
    BY <1>2, <1>3, <2>1 DEF AllWhole
<1>8. TableVerdict'
  <2>1. SUFFICES ASSUME fam = "EBT"
                 PROVE  ret' = 0 <=>
                          \/ Limit = (IF root = -1 THEN 0 ELSE root + Before[fam])
                          \/ \E o \in recs : parent[o] = root /\ o + length[o] = Limit
    BY <1>2, <1>3 DEF TableVerdict
  <2>2. ret' = 0 <=> len = 0
    BY <1>2, <2>1
  <2>3. Base(root) = IF root = -1 THEN 0 ELSE root + Before[fam]
    BY DEF Base
  <2>4. \A o \in Kids(root) : next[o] = o + length[o]
    BY <2>1, KidFacts DEF Pace, Whole
  <2>5. \A o : o \in Kids(root) <=> o \in recs /\ parent[o] = root
    BY DEF Kids
  <2>6. len = 0 <=> Limit = Base(root) \/ \E o \in Kids(root) : next[o] = Limit
    BY <1>5, <2>1, EndOfTable
  <2>7. QED
    BY <2>2, <2>3, <2>4, <2>5, <2>6
<1>9. QED
  BY <1>2, <1>4, <1>6, <1>7, <1>8 DEF Done

LEMMA BreakInv ==
  ASSUME ListInv, Counted, Given, Walking, reader = "walks", Break
  PROVE  Given' /\ Done' /\ reader' = "done"
<1>1. /\ UNCHANGED listVars /\ size' = size /\ root' = root /\ off' = off /\ len' = len
      /\ skip' = skip /\ nth' = nth /\ reader' = "done" /\ ret' = 1
      /\ fam \in Tables /\ len > 0 /\ seen' \subseteq seen \cup {off}
  BY DEF Break, Visit, ITERATE
<1>2. /\ fam' = fam /\ recs' = recs /\ length' = length /\ parent' = parent
      /\ nested' = nested /\ tail' = tail /\ nests' = nests /\ Limit' = Limit
  BY <1>1, SameList
<1>3. Given'
  BY <1>1, <1>2 DEF Given
<1>4. off \in Kids(root)
  <2>1. len \in Int /\ (off \notin Kids(root) => len <= 0)
    BY OffInside
  <2>2. QED
    BY <1>1, <2>1
<1>5. /\ off \in recs /\ parent[off] = root
      /\ fam = "EBT" \/ off + length[off] <= Limit
  <2>1. off \in recs /\ parent[off] = root
    BY <1>4, KidFacts
  <2>2. /\ off \in Nat /\ length[off] \in Nat /\ next[off] \in Nat /\ Upto \in Nat
        /\ off + length[off] <= next[off] /\ next[off] <= Upto
    BY <1>4, KidFacts, RootChain
  <2>3. off + length[off] <= Upto
    BY <2>2
  <2>4. fam = "XT" => Limit = Upto
    BY RootChain
  <2>5. QED
    BY <1>1, <2>1, <2>3, <2>4 DEF Tables
<1>6. \A o \in seen' : /\ o \in recs /\ parent[o] = root
                       /\ fam = "EBT" \/ o + length[o] <= Limit
  BY <1>1, <1>5, SeenFacts
<1>7. TypeOK'
  <2>1. TypeOK
    BY OnlyWholeWalking DEF OnlyWhole
  <2>2. reader' \in {"waits", "walks", "done"} /\ ret' \in {0, 1, -22} /\ seen' \subseteq recs
    BY <1>1, <1>6
  <2>3. QED
    BY <1>1, <1>2, <2>1, <2>2 DEF TypeOK
<1>8. OnlyWhole'
  BY <1>1, <1>2, <1>6, <1>7 DEF OnlyWhole
<1>9. AllWhole' /\ TableVerdict'
  BY <1>1 DEF AllWhole, TableVerdict
<1>10. QED
  BY <1>1, <1>3, <1>8, <1>9 DEF Done

LEMMA CutsType ==
  ASSUME ListInv, nests = <<>>, NEW n \in Cuts
  PROVE  n \in 0..tail /\ (fam \in {"TLV", "XT", "TAG"} => n = tail)
<1>1. tail \in Nat /\ tail \in 0..tail /\ fam \in Family
  BY DEF ListInv, ListType
<1>2. CASE fam = "EBT"
  <2>1. n = tail \/ \E o \in recs : n = o + length[o] - 8
    BY <1>2 DEF Cuts
  <2>2. ASSUME NEW o \in recs PROVE o + length[o] - 8 \in 0..tail
    <3>1. o \notin Open
      BY DEF Open
    <3>2. /\ o \in Nat /\ length[o] \in Nat /\ next[o] \in Nat
          /\ o + length[o] <= next[o] /\ next[o] <= tail /\ HeaderOf(o) <= length[o]
      <4>1. length[o] \in Nat
        BY Zenon DEF ListInv, ListType
      <4>2. o \in Nat /\ next[o] \in Nat /\ o + length[o] <= next[o]
        BY RecordFacts, Zenon
      <4>3. next[o] <= tail /\ HeaderOf(o) <= length[o]
        BY <3>1, Zenon DEF ListInv, Records
      <4>4. QED
        BY <4>1, <4>2, <4>3, Zenon
    <3>3. HeaderOf(o) \in Nat /\ 40 <= HeaderOf(o)
      <4>1. Sizeof["EBT"] = 48 /\ Inner["EBT"] = 40
        BY DEF Sizeof, Inner
      <4>2. HeaderOf(o) = 48 \/ HeaderOf(o) = 40
        BY <1>2, <4>1, Zenon DEF HeaderOf
      <4>3. QED
        BY <4>2
    <3>4. QED
      BY <1>1, <3>2, <3>3
  <2>3. QED
    BY <1>1, <1>2, <2>1, <2>2
<1>3. CASE fam \in {"TLV", "XT", "TAG"}
  BY <1>1, <1>3 DEF Cuts
<1>4. CASE fam \notin {"TLV", "XT", "TAG", "EBT"}
  BY <1>1, <1>4 DEF Cuts
<1>5. QED
  BY <1>2, <1>3, <1>4

LEMMA DeliverInv ==
  ASSUME ListInv, ListInv', Counted', NEW n \in Cuts, NEW k \in Skips, Deliver(n, k)
  PROVE  Given' /\ Walking' /\ reader' = "walks"
<1>1. /\ nests = <<>> /\ size' = n /\ UNCHANGED listVars
      /\ root' = -1 /\ off' = 0 /\ len' = n /\ seen' = {} /\ skip' = k /\ nth' = 0
      /\ reader' = "walks" /\ ret' = 0
  BY DEF Deliver, Start
<1>2. n \in 0..tail /\ (fam \in {"TLV", "XT", "TAG"} => n = tail)
  BY <1>1, CutsType
<1>3. Given'
  BY <1>1, <1>2 DEF Given, listVars
<1>4. Base(root)' = 0 /\ Limit' = n
  BY <1>1 DEF Base, Limit
<1>5. n = n - 0
  BY <1>2 DEF ListInv, ListType
<1>6. Starting'
  BY <1>1, <1>4, <1>5 DEF Starting
<1>7. Walking'
  BY <1>3, <1>6, StartWalk, PTL
<1>8. QED
  BY <1>1, <1>3, <1>7

LEMMA DescendInv ==
  ASSUME ListInv, ListInv', Counted', Given, NEW o \in seen, Descend(o)
  PROVE  Given' /\ Walking' /\ reader' = "walks"
<1>1. /\ size' = size /\ UNCHANGED listVars /\ o \in nested /\ o + length[o] <= size
      /\ root' = o /\ off' = o + Before[fam] /\ len' = length[o] - Before[fam] - Behind[fam]
      /\ seen' = {} /\ skip' = 0 /\ nth' = 0 /\ reader' = "walks" /\ ret' = 0
  BY DEF Descend, Start
<1>2. /\ fam' = fam /\ length' = length /\ nested' = nested /\ tail' = tail /\ nests' = nests
  BY <1>1 DEF listVars
<1>3. Given'
  BY <1>1, <1>2 DEF Given
<1>4. o \in Nat /\ length[o] \in Nat /\ fam \in Family /\ fam \in {"NFA"} \cup Tables
  BY <1>1 DEF ListInv, ListType, Stack
<1>5. PICK b \in Nat, w \in Nat, l \in Nat : b = Before[fam] /\ w = Behind[fam] /\ l = length[o]
  BY <1>4, Families
<1>6. Base(root)' = o + b /\ Limit' = o + l - w /\ off' = o + b /\ len' = l - b - w
  BY <1>1, <1>2, <1>4, <1>5, o # -1 DEF Base, Limit
<1>7. l - b - w = (o + l - w) - (o + b)
  BY <1>4
<1>8. Starting'
  BY <1>1, <1>6, <1>7 DEF Starting
<1>9. Walking'
  BY <1>3, <1>8, StartWalk, PTL
<1>10. QED
  BY <1>1, <1>3, <1>9

-----------------------------------------------------------------------------
LEMMA BuildInv ==
  ASSUME WalkInv, reader = "waits", UNCHANGED walkVars
  PROVE  WalkInv'
<1>1. /\ size' = size /\ root' = root /\ off' = off /\ len' = len /\ skip' = skip
      /\ nth' = nth /\ seen' = seen /\ reader' = reader /\ ret' = ret
  BY DEF walkVars
<1>2. Waiting'
  BY <1>1 DEF WalkInv, Waiting
<1>3. QED
  BY <1>1, <1>2 DEF WalkInv

LEMMA WalkInvStep ==
  ListInv /\ ListInv' /\ Counted /\ Counted' /\ WalkInv /\ [Next]_vars => WalkInv'
<1> SUFFICES ASSUME ListInv, ListInv', Counted, Counted', WalkInv, [Next]_vars PROVE WalkInv'
  OBVIOUS
<1>1. ASSUME NEW n \in Payload \cup LongData, Put(n) PROVE WalkInv'
  BY <1>1, BuildInv DEF Put, PutRecord
<1>2. CASE NFA_NEST \/ NFA_NEST_END \/ NFA_NEST_CANCEL
  BY <1>2, BuildInv DEF NFA_NEST, NFA_NEST_END, NFA_NEST_CANCEL, PutRecord
<1>3. CASE BeginRule \/ EndRule
  BY <1>3, BuildInv DEF BeginRule, EndRule, PutRecord
<1>4. ASSUME NEW n \in Cuts, NEW k \in Skips, Deliver(n, k) PROVE WalkInv'
  BY <1>4, DeliverInv DEF WalkInv
<1>5. ASSUME NEW o \in seen, Descend(o) PROVE WalkInv'
  <2>1. Given
    BY <1>5 DEF Descend, WalkInv
  <2>2. QED
    BY <1>5, <2>1, DescendInv DEF WalkInv
<1>6. CASE Walk
  <2>1. Given /\ Walking
    BY <1>6 DEF Walk, WalkInv
  <2>2. QED
    BY <1>6, <2>1, WalkStep DEF WalkInv
<1>7. CASE Break
  <2>1. Given /\ Walking /\ reader = "walks"
    BY <1>7 DEF Break, WalkInv
  <2>2. QED
    BY <1>7, <2>1, BreakInv DEF WalkInv
<1>8. CASE EndOfList
  <2>1. Given /\ Walking /\ reader = "walks"
    BY <1>8 DEF EndOfList, WalkInv
  <2>2. QED
    BY <1>8, <2>1, DoneInv DEF WalkInv
<1>9. CASE UNCHANGED vars
  <2>1. /\ fam' = fam /\ recs' = recs /\ length' = length /\ parent' = parent
        /\ nested' = nested /\ tail' = tail /\ nests' = nests /\ overlong' = overlong
        /\ size' = size /\ root' = root /\ off' = off /\ len' = len /\ skip' = skip
        /\ nth' = nth /\ seen' = seen /\ reader' = reader /\ ret' = ret
    BY <1>9 DEF vars, listVars, walkVars
  <2>2. /\ next' = next /\ Limit' = Limit /\ Upto' = Upto /\ Kids(root)' = Kids(root)
        /\ Base(root)' = Base(root)
    BY <2>1 DEF next, Pace, Limit, Upto, Kids, Base
  <2>3. Passed' = Passed
    BY <2>1, <2>2 DEF Passed
  <2>4. Waiting' = Waiting /\ Given' = Given
    BY <2>1 DEF Waiting, Given
  <2>5. Walking' = Walking
    BY <2>1, <2>2, <2>3 DEF Walking
  <2>6. TypeOK' = TypeOK
    BY <2>1 DEF TypeOK
  <2>7. Done' = Done
    <3>1. OnlyWhole' = OnlyWhole
      BY <2>1, <2>2, <2>6, Zenon DEF OnlyWhole
    <3>2. AllWhole' = AllWhole
      BY <2>1, <2>2 DEF AllWhole
    <3>3. TableVerdict' = TableVerdict
      BY <2>1, <2>2, Zenon DEF TableVerdict
    <3>4. QED
      BY <3>1, <3>2, <3>3, Zenon DEF Done
  <2>8. QED
    BY <2>1, <2>4, <2>5, <2>7 DEF WalkInv
<1>10. QED
  BY <1>1, <1>2, <1>3, <1>4, <1>5, <1>6, <1>7, <1>8, <1>9 DEF Next

-----------------------------------------------------------------------------
(* The records are few: from here on with the theorems about finite sets.  *)
INSTANCE FiniteSetTheorems

LEMMA FewAreCounted == Few => Counted
<1> SUFFICES ASSUME Few PROVE Counted
  OBVIOUS
<1>1. Cardinality({}) = 0
  BY FS_EmptySet
<1>2. ASSUME NEW S \in SUBSET recs
      PROVE  IsFiniteSet(S) /\ Cardinality(S) \in 0..MaxRecs
  <2>1. IsFiniteSet(recs) /\ Cardinality(recs) <= MaxRecs /\ S \subseteq recs
    BY DEF Few
  <2>2. /\ IsFiniteSet(S) /\ Cardinality(S) <= Cardinality(recs)
        /\ Cardinality(S) \in Nat /\ Cardinality(recs) \in Nat
    BY ONLY <2>1, FS_Subset, FS_CardinalityType
  <2>3. QED
    BY <2>1, <2>2, SizeAssumption
<1>3. ASSUME NEW S \in SUBSET recs, NEW a \in recs \ S
      PROVE  Cardinality(S \cup {a}) = Cardinality(S) + 1
  <2>1. IsFiniteSet(S) /\ a \notin S
    BY <1>2
  <2>2. QED
    BY ONLY <2>1, FS_AddElement
<1>4. QED
  BY <1>1, <1>2, <1>3 DEF Counted

LEMMA FewerRecords ==
  ASSUME Few, recs' \subseteq recs
  PROVE  Few'
<1>1. IsFiniteSet(recs) /\ Cardinality(recs) <= MaxRecs
  BY DEF Few
<1>2. /\ IsFiniteSet(recs') /\ Cardinality(recs') <= Cardinality(recs)
      /\ Cardinality(recs') \in Nat /\ Cardinality(recs) \in Nat
  BY <1>1, FS_Subset, FS_CardinalityType
<1>3. QED
  BY <1>1, <1>2, SizeAssumption DEF Few

LEMMA AnotherRecord ==
  ASSUME Few, NEW l, NEW s, PutRecord(l, s)
  PROVE  Few'
<1>1. /\ IsFiniteSet(recs) /\ Cardinality(recs) < MaxRecs
      /\ recs' = recs \cup {tail}
  BY Zenon DEF Few, PutRecord
<1>2. /\ IsFiniteSet(recs \cup {tail}) /\ Cardinality(recs) \in Nat
      /\ \/ Cardinality(recs \cup {tail}) = Cardinality(recs)
         \/ Cardinality(recs \cup {tail}) = Cardinality(recs) + 1
  BY <1>1, FS_AddElement, FS_CardinalityType, Zenon
<1>3. QED
  BY <1>1, <1>2, SizeAssumption DEF Few

LEMMA FewStep == Few /\ [Next]_vars => Few'
<1> SUFFICES ASSUME Few, [Next]_vars PROVE Few'
  OBVIOUS
<1>1. ASSUME NEW n \in Payload \cup LongData, Put(n) PROVE Few'
  BY <1>1, AnotherRecord DEF Put
<1>2. CASE NFA_NEST \/ BeginRule
  BY <1>2, AnotherRecord DEF NFA_NEST, BeginRule
<1>3. CASE NFA_NEST_END \/ EndRule
  BY <1>3, FewerRecords DEF NFA_NEST_END, EndRule
<1>4. CASE NFA_NEST_CANCEL
  BY <1>4, FewerRecords DEF NFA_NEST_CANCEL
<1>5. ASSUME NEW n \in Cuts, NEW k \in Skips, Deliver(n, k) PROVE Few'
  BY <1>5, FewerRecords DEF Deliver, listVars
<1>6. ASSUME NEW o \in seen, Descend(o) PROVE Few'
  BY <1>6, FewerRecords DEF Descend, listVars
<1>7. CASE Walk \/ Break \/ EndOfList
  BY <1>7, FewerRecords DEF Walk, Break, EndOfList, listVars
<1>8. CASE UNCHANGED vars
  BY <1>8, FewerRecords DEF vars, listVars
<1>9. QED
  BY <1>1, <1>2, <1>3, <1>4, <1>5, <1>6, <1>7, <1>8 DEF Next

(* An attribute that is too long is never forgotten, and there is none but *)
(* in a list of nfnetlink.                                                 *)
Told == overlong \in BOOLEAN /\ (overlong => fam = "NFA")

LEMMA ToldStep == Told /\ [Next]_vars => Told' /\ (overlong => overlong')
<1> SUFFICES ASSUME Told, [Next]_vars PROVE Told' /\ (overlong => overlong')
  OBVIOUS
<1>1. CASE NFA_NEST_END
  BY <1>1, Zenon DEF Told, NFA_NEST_END
<1>2. ASSUME UNCHANGED <<fam, overlong>> PROVE Told' /\ (overlong => overlong')
  BY <1>2, Zenon DEF Told
<1>3. ASSUME NEW n \in Payload \cup LongData, Put(n) PROVE UNCHANGED <<fam, overlong>>
  BY <1>3, Zenon DEF Put
<1>4. CASE NFA_NEST \/ NFA_NEST_CANCEL \/ BeginRule \/ EndRule
  BY <1>2, <1>4, Zenon DEF NFA_NEST, NFA_NEST_CANCEL, BeginRule, EndRule
<1>5. ASSUME NEW n \in Cuts, NEW k \in Skips, Deliver(n, k) PROVE UNCHANGED <<fam, overlong>>
  BY <1>5, Zenon DEF Deliver, listVars
<1>6. ASSUME NEW o \in seen, Descend(o) PROVE UNCHANGED <<fam, overlong>>
  BY <1>6, Zenon DEF Descend, listVars
<1>7. CASE Walk \/ Break \/ EndOfList
  BY <1>2, <1>7, Zenon DEF Walk, Break, EndOfList, listVars
<1>8. CASE UNCHANGED vars
  BY <1>2, <1>8, Zenon DEF vars, listVars
<1>9. QED
  BY <1>1, <1>2, <1>3, <1>4, <1>5, <1>6, <1>7, <1>8, Zenon DEF Next

LEMMA InvHolds == Spec => [](Told /\ (~overlong => ListInv /\ Counted /\ WalkInv))
<1>1. Init => ListInv /\ Few /\ WalkInv /\ Told
  <2>1. Init => recs = {} /\ WalkInv /\ Told
    BY DEF Init, WalkInv, Waiting, Told
  <2>2. recs = {} => Few
    BY FS_EmptySet, SizeAssumption DEF Few
  <2>3. QED
    BY <2>1, <2>2, ListInit
<1>2. Few /\ [Next]_vars => Few'
  BY FewStep
<1>3. ListInv /\ [Next]_vars /\ ~overlong' => ListInv'
  BY ListStep
<1>4. ListInv /\ ListInv' /\ Counted /\ Counted' /\ WalkInv /\ [Next]_vars => WalkInv'
  BY WalkInvStep
<1>5. Few => Counted
  BY FewAreCounted
<1>6. Told /\ [Next]_vars => Told' /\ (overlong => overlong')
  BY ToldStep
<1>7. QED
  BY <1>1, <1>2, <1>3, <1>4, <1>5, <1>6, PTL DEF Spec

(* NLMSG_OK, RTA_OK, NFA_OK, RTNH_OK, FAN_EVENT_OK, TLV_CHECK and the      *)
(* loops of the tables and tags let a reader visit nothing but whole       *)
(* records of what it walks, wherever the list was cut and whatever is     *)
(* read beyond the cut, for any nesting the builder makes, completes or    *)
(* cancels, as long as no attribute it completes is longer than its __u16  *)
(* nfa_len can say; and the __u16 step of TLV_LIST_STEP never makes the    *)
(* space go below 0.                                                       *)
THEOREM VisitsOnlyWhole == Spec => []OnlyWholeRecords
<1>1. ListInv /\ Counted /\ WalkInv => OnlyWhole
  <2> SUFFICES ASSUME ListInv, Counted, WalkInv PROVE OnlyWhole
    OBVIOUS
  <2>1. CASE reader = "waits"
    <3>1. Waiting
      BY <2>1 DEF WalkInv
    <3>2. size \in 0..tail /\ nth \in 0..MaxRecs
      BY <3>1, SizeAssumption DEF Waiting, ListInv, ListType
    <3>3. TypeOK
      BY <2>1, <3>1, <3>2, TypesOf DEF Waiting
    <3>4. QED
      BY <3>1, <3>3 DEF OnlyWhole, Waiting
  <2>2. CASE reader = "walks"
    BY <2>2, OnlyWholeWalking DEF WalkInv
  <2>3. CASE reader = "done"
    BY <2>3 DEF WalkInv, Done
  <2>4. QED
    BY <2>1, <2>2, <2>3 DEF WalkInv
<1>2. Told => overlong \in BOOLEAN
  BY DEF Told
<1>3. QED
  BY <1>1, <1>2, InvHolds, PTL DEF OnlyWholeRecords

(* A loop that comes to its end has visited every record that was whole:   *)
(* what NFA_NEST_CANCEL leaves and NFA_NEST_END completes is in step with  *)
(* NFA_NEXT while the completed attributes fit their nfa_len, and          *)
(* XT_ENTRY_ITERATE_CONTINUE passes over just the first n.                 *)
THEOREM VisitsAllWhole == Spec => []AllWholeRecords
<1>1. WalkInv => AllWhole
  BY DEF WalkInv, Done, AllWhole
<1>2. QED
  BY <1>1, InvHolds, PTL DEF AllWholeRecords

(* EBT_ENTRY_ITERATE and EBT_MATCH_ITERATE return 0 exactly when the       *)
(* records end where the size they are given does.                         *)
THEOREM TableVerdictTrue == Spec => []TableVerdict
<1>1. WalkInv => TableVerdict
  BY DEF WalkInv, Done, TableVerdict
<1>2. Told /\ overlong => TableVerdict
  BY DEF Told, TableVerdict
<1>3. QED
  BY <1>1, <1>2, InvHolds, PTL

=============================================================================
