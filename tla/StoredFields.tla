---------------------------- MODULE StoredFields ----------------------------
(***************************************************************************)
(* Words whose bits are shared by several fields, and the accessors the    *)
(* headers define for them: one word, of one of the kinds below, is        *)
(* changed by any sequence of calls of its accessors, on any machine.      *)
(*                                                                         *)
(*   bkey, ptr, cache, bdev   bcache.h: BITMASK, KEY_FIELD, PTR_FIELD      *)
(*   tcmu                     target_core_user.h: len_op                   *)
(*   checkpoint, segment      nilfs2_ondisk.h: little-endian flags on disk *)
(*   chunkmap                 xt_sctp.h: the map of SCTP chunk types       *)
(*   sockaddr                 phonet.h: struct sockaddr_pn                 *)
(*   ieee                     alpha fpu.h: the control word in the FPCR    *)
(*   psr                      sparc psrcompat.h: condition codes           *)
(*   raw                      swab.h: a word turned round in place         *)
(***************************************************************************)
EXTENDS ByteOrder, FiniteSets

CONSTANTS
    Kinds,      \* the kinds of word considered
    Machines,   \* records [arch |-> ..., big |-> ...]
    Images,     \* the words found at the start, for the kinds kept on disk
    Values(_),  \* the numbers written to a field of so many bits
    ChunkTypes, \* the chunk types set and cleared one by one
    Controls    \* the software control words of the Alpha

VARIABLES
    kind,   \* which word this is; fixed
    word,   \* its bits, in the order of a little-endian load when on disk
    stored  \* what was last stored in each field

vars == <<kind, word, stored>>

Width ==
    [bkey |-> 64, ptr |-> 64, cache |-> 64, bdev |-> 64, tcmu |-> 32, checkpoint |-> 32,
     segment |-> 32, chunkmap |-> 2048, sockaddr |-> 24, ieee |-> 64, psr |-> 64,
     raw |-> 64]

ASSUME StoredAssumption ==
    /\ Kinds \subseteq DOMAIN Width
    /\ \A m \in Machines : /\ m.arch \in Archs /\ m.big \in BOOLEAN
                           /\ m.arch = "sparc64" => m.big
    /\ \A i \in Images : i \subseteq Bits(64)
    /\ ChunkTypes \subseteq 0..255

-----------------------------------------------------------------------------
\* bcache.h: the fields and their place <<offset, size>>.
Bitmask ==
    [KEY_PTRS |-> <<60, 3>>, HEADER_SIZE |-> <<58, 2>>, KEY_CSUM |-> <<56, 2>>,
     KEY_PINNED |-> <<55, 1>>, KEY_DIRTY |-> <<36, 1>>, KEY_SIZE |-> <<20, 16>>,
     KEY_INODE |-> <<0, 20>>,
     PTR_DEV |-> <<51, 12>>, PTR_OFFSET |-> <<8, 43>>, PTR_GEN |-> <<0, 8>>,
     CACHE_SYNC |-> <<0, 1>>, CACHE_DISCARD |-> <<1, 1>>, CACHE_REPLACEMENT |-> <<2, 3>>,
     BDEV_CACHE_MODE |-> <<0, 4>>, BDEV_STATE |-> <<61, 2>>]

BitmaskKinds ==
    [bkey |-> {"KEY_PTRS", "HEADER_SIZE", "KEY_CSUM", "KEY_PINNED", "KEY_DIRTY",
               "KEY_SIZE", "KEY_INODE"},
     ptr |-> {"PTR_DEV", "PTR_OFFSET", "PTR_GEN"},
     cache |-> {"CACHE_SYNC", "CACHE_DISCARD", "CACHE_REPLACEMENT"},
     bdev |-> {"BDEV_CACHE_MODE", "BDEV_STATE"}]

\* The accessors BITMASK defines; Bits(size) is ~(~0ULL << size).
get_bitmask(w, f) ==
    LET offset == Bitmask[f][1]  size == Bitmask[f][2]
    IN  Shr(64, w, offset) \cap Bits(size)

\* The setter without the mask of the value, as tcmu_hdr_set_len has none.
set_bitmask_wide(w, f, v) ==
    LET offset == Bitmask[f][1]  size == Bitmask[f][2]
    IN  (w \ Shl(64, Bits(size), offset)) \cup Shl(64, v, offset)

set_bitmask(w, f, v) ==
    LET offset == Bitmask[f][1]  size == Bitmask[f][2]
    IN  (w \ Shl(64, Bits(size), offset)) \cup Shl(64, v \cap Bits(size), offset)

KEY(inode, size) == {63} \cup Shl(64, size, 20) \cup inode
MAKE_PTR(gen, offset, dev) == Shl(64, dev, 51) \cup Shl(64, offset, 8) \cup gen

-----------------------------------------------------------------------------
\* target_core_user.h: the opcode in the low bits of an aligned length.
TCMU_OP_MASK == 0..2
tcmu_hdr_get_op(w) == w \cap TCMU_OP_MASK
tcmu_hdr_set_op(w, op) == (w \ TCMU_OP_MASK) \cup (op \cap TCMU_OP_MASK)
tcmu_hdr_get_len(w) == w \ TCMU_OP_MASK
tcmu_hdr_set_len(w, len) == (w \cap TCMU_OP_MASK) \cup len

-----------------------------------------------------------------------------
\* nilfs2_ondisk.h: flags of a checkpoint and of a segment, on a machine m.
NilfsFlag == [checkpoint |-> {0, 1, 3}, segment |-> {0, 1, 2}]

nilfs_flags(m, w) == le_to_cpu(m, 32, Load(m, 32, w))

\* A flag set without the conversion back to the order of the disk.
nilfs_set_native(m, w, flag) == Store(m, 32, nilfs_flags(m, w) \cup {flag})

nilfs_set(m, w, flag) == Store(m, 32, cpu_to_le(m, 32, nilfs_flags(m, w) \cup {flag}))
nilfs_clear(m, w, flag) == Store(m, 32, cpu_to_le(m, 32, nilfs_flags(m, w) \ {flag}))
nilfs_segment_usage_set_clean(m) == Store(m, 32, cpu_to_le(m, 32, {}))
nilfs_segment_usage_clean(m, w) == nilfs_flags(m, w) = {}

-----------------------------------------------------------------------------
\* xt_sctp.h: chunkmap is an array of 256 / sizeof(__u32) = 64 words, of which
\* the 256 chunk types use the first eight; bit j of element i is 32 * i + j.
ChunkWords == 64
ChunkBit(type) == 32 * (type \div 32) + (type % 32)
SCTP_CHUNKMAP_SET(w, type) == w \cup {ChunkBit(type)}
SCTP_CHUNKMAP_CLEAR(w, type) == w \ {ChunkBit(type)}
SCTP_CHUNKMAP_IS_SET(w, type) == ChunkBit(type) \in w
SCTP_CHUNKMAP_RESET == {}
SCTP_CHUNKMAP_SET_ALL == Bits(32 * ChunkWords)
Element(w, i) == Shr(32 * ChunkWords, w, 32 * i) \cap Bits(32)
sctp_chunkmap_is_clear(w) == \A i \in 0..(ChunkWords - 1) : Element(w, i) = {}

\* ARRAY_SIZE taken of a pointer to the map: the loop looks at two words.
sctp_chunkmap_is_all_set_pointer(w) == \A i \in 0..1 : Element(w, i) = Bits(32)

sctp_chunkmap_is_all_set(w) == \A i \in 0..(ChunkWords - 1) : Element(w, i) = Bits(32)

-----------------------------------------------------------------------------
\* phonet.h: a socket address has the object number in spn_obj (bits 0 to 7
\* here), the device in spn_dev (8 to 15) and the resource (16 to 23).  The
\* two low bits of spn_dev belong to the port.
spn_obj(w) == Low(8, w)
spn_dev(w) == Low(8, Shr(24, w, 8))
spn_resource(w) == Shr(24, w, 16)
Spn(obj, dev, res) == obj \cup Shl(24, dev, 8) \cup Shl(24, res, 16)

pn_object(addr, port) == Shl(16, addr, 8) \cup (port \cap Bits(10))
pn_obj(handle) == Low(8, handle)
pn_dev(handle) == Shr(16, handle, 8)
pn_port(handle) == handle \cap Bits(10)
pn_addr(handle) == Shr(16, handle, 8) \ {0, 1}

pn_sockaddr_set_addr(w, addr) ==
    Spn(spn_obj(w), (spn_dev(w) \cap {0, 1}) \cup (addr \ {0, 1}), spn_resource(w))
pn_sockaddr_set_port(w, port) ==
    Spn(Low(8, port), (spn_dev(w) \ {0, 1}) \cup (Shr(16, port, 8) \cap {0, 1}),
        spn_resource(w))
pn_sockaddr_set_object(w, handle) == Spn(pn_obj(handle), pn_dev(handle), spn_resource(w))
pn_sockaddr_set_resource(w, res) == Spn(spn_obj(w), spn_dev(w), res)
pn_sockaddr_get_addr(w) == spn_dev(w) \ {0, 1}
pn_sockaddr_get_port(w) == Shl(16, spn_dev(w) \cap {0, 1}, 8) \cup spn_obj(w)
pn_sockaddr_get_object(w) == pn_object(spn_dev(w), spn_obj(w))

-----------------------------------------------------------------------------
\* arch/alpha fpu.h: the trap enables, mappings and status bits of a thread's
\* software control word, and their places in the hardware's FPCR.
IEEE_STATUS_MASK == 17..22
IEEE_TRAP_ENABLE_MASK == 1..6
IEEE_TRAP_ENABLE_UNF == 4
IEEE_MAP_DMZ == 12
IEEE_MAP_UMZ == 13
IEEE_SW_MASK == IEEE_TRAP_ENABLE_MASK \cup IEEE_STATUS_MASK \cup {IEEE_MAP_DMZ, IEEE_MAP_UMZ}
FPCR_SUM == 63
FPCR_UNDZ == 60
FPCR_UNFD == 61

ieee_swcr_to_fpcr(sw) ==
    LET off == Bits(64) \ sw
    IN  Shl(64, sw \cap IEEE_STATUS_MASK, 35) \cup Shl(64, sw \cap {IEEE_MAP_DMZ}, 36)
          \cup {b \in {FPCR_SUM} : sw \cap IEEE_STATUS_MASK # {}}
          \cup Shl(64, off \cap {1, 2, 3}, 48) \cup Shl(64, off \cap {4, 5}, 57)
          \cup {b \in {FPCR_UNDZ, FPCR_UNFD} : IEEE_MAP_UMZ \in sw}
          \cup Shl(64, off \cap {6}, 41)

\* The enables read from the FPCR's bits themselves, which disable the traps.
ieee_fpcr_to_swcr_same(fp) ==
    (Shr(64, fp, 35) \cap IEEE_STATUS_MASK) \cup (Shr(64, fp, 36) \cap {IEEE_MAP_DMZ})
      \cup (Shr(64, fp, 48) \cap {1, 2, 3}) \cup (Shr(64, fp, 57) \cap {4, 5})
      \cup (Shr(64, fp, 47) \cap {IEEE_MAP_UMZ}) \cup (Shr(64, fp, 41) \cap {6})

ieee_fpcr_to_swcr(fp) ==
    LET off == Bits(64) \ fp
    IN  (Shr(64, fp, 35) \cap IEEE_STATUS_MASK) \cup (Shr(64, fp, 36) \cap {IEEE_MAP_DMZ})
          \cup (Shr(64, off, 48) \cap {1, 2, 3}) \cup (Shr(64, off, 57) \cap {4, 5})
          \cup (Shr(64, fp, 47) \cap {IEEE_MAP_UMZ}) \cup (Shr(64, off, 41) \cap {6})

-----------------------------------------------------------------------------
\* arch/sparc psrcompat.h: the 32-bit PSR a 64-bit kernel shows to old tasks.
TSTATE_CWP == 0..4
TSTATE_SYSCALL == 5
TSTATE_ICC == 32..35
TSTATE_XCC == 36..39
PSR_S == 7
PSR_SYSCALL == 14
PSR_XCC == 16..19
PSR_ICC == 20..23
PSR_V8PLUS == 24..31

tstate_to_psr(t) ==
    (t \cap TSTATE_CWP) \cup {PSR_S}
      \cup Shr(64, t \cap TSTATE_ICC, 12) \cup Shr(64, t \cap TSTATE_XCC, 20)
      \cup {b \in {PSR_SYSCALL} : TSTATE_SYSCALL \in t} \cup PSR_V8PLUS

psr_to_tstate_icc(psr) ==
    Shl(64, psr \cap PSR_ICC, 12)
      \cup (IF psr \cap (24..31) = PSR_V8PLUS THEN Shl(64, psr \cap PSR_XCC, 20) ELSE {})

-----------------------------------------------------------------------------
\* The chunk types ChunkTypes leaves out: in some initial states they have all
\* been set one by one after a reset, or cleared one by one after SET_ALL.
OtherTypes == (0..255) \ ChunkTypes

Init ==
    /\ kind \in Kinds
    /\ \/ /\ kind \in DOMAIN BitmaskKinds
          /\ word = {}
          /\ stored = [f \in BitmaskKinds[kind] |-> {}]
       \/ /\ kind = "tcmu"
          /\ word = {}
          /\ stored = [op |-> {}, len |-> {}]
       \/ /\ kind \in DOMAIN NilfsFlag
          /\ word \in {Low(32, i) : i \in Images}
          /\ stored = [flags |-> word]
       \/ /\ kind = "chunkmap"
          /\ \/ /\ word = SCTP_CHUNKMAP_RESET
                /\ stored = [types |-> {}]
             \/ /\ word = {ChunkBit(t) : t \in OtherTypes}
                /\ stored = [types |-> OtherTypes]
             \/ /\ word = SCTP_CHUNKMAP_SET_ALL \ {ChunkBit(t) : t \in OtherTypes}
                /\ stored = [types |-> ChunkTypes]
       \/ /\ kind = "sockaddr"
          /\ word = {}
          /\ stored = [addr |-> {}, port |-> {}, resource |-> {}]
       \/ /\ kind = "ieee"
          /\ word = ieee_swcr_to_fpcr({})
          /\ stored = [control |-> {}]
       \/ /\ kind = "psr"
          /\ word \in {{}, TSTATE_CWP \cup {TSTATE_SYSCALL}}
          /\ stored = [codes |-> {}]
       \/ /\ kind = "raw"
          /\ word \in Images
          /\ stored = [word |-> word]

\* Every action below is one call of one setter.
Change(k, w, s) ==
    /\ kind = k
    /\ word' = w
    /\ stored' = s
    /\ UNCHANGED kind

SetBitmask(f, v) ==
    /\ kind \in DOMAIN BitmaskKinds /\ f \in BitmaskKinds[kind]
    /\ Change(kind, set_bitmask(word, f, v),
              [g \in BitmaskKinds[kind] |-> IF g = f THEN v \cap Bits(Bitmask[f][2])
                                                   ELSE stored[g]])

\* A new key, or a new pointer: the macros do not mask their arguments.
MakeKey(inode, size) ==
    Change("bkey", KEY(inode, size),
           [f \in BitmaskKinds["bkey"] |-> IF f = "KEY_INODE" THEN inode
                                          ELSE IF f = "KEY_SIZE" THEN size ELSE {}])

MakePtr(gen, offset, dev) ==
    Change("ptr", MAKE_PTR(gen, offset, dev),
           [PTR_GEN |-> gen, PTR_OFFSET |-> offset, PTR_DEV |-> dev])

SetOp(op) ==
    Change("tcmu", tcmu_hdr_set_op(word, op),
           [op |-> op \cap TCMU_OP_MASK, len |-> stored.len])

\* "length is 8-byte aligned".
SetLen(len) ==
    /\ len \cap TCMU_OP_MASK = {}
    /\ Change("tcmu", tcmu_hdr_set_len(word, len), [op |-> stored.op, len |-> len])

SetFlag(m, flag) ==
    /\ kind \in DOMAIN NilfsFlag /\ flag \in NilfsFlag[kind]
    /\ Change(kind, nilfs_set(m, word, flag), [flags |-> stored.flags \cup {flag}])

ClearFlag(m, flag) ==
    /\ kind \in DOMAIN NilfsFlag /\ flag \in NilfsFlag[kind]
    /\ Change(kind, nilfs_clear(m, word, flag), [flags |-> stored.flags \ {flag}])

SetClean(m) == Change("segment", nilfs_segment_usage_set_clean(m), [flags |-> {}])

SetChunk(t) ==
    Change("chunkmap", SCTP_CHUNKMAP_SET(word, t), [types |-> stored.types \cup {t}])

ClearChunk(t) ==
    Change("chunkmap", SCTP_CHUNKMAP_CLEAR(word, t), [types |-> stored.types \ {t}])

ResetChunks == Change("chunkmap", SCTP_CHUNKMAP_RESET, [types |-> {}])

SetAllChunks == Change("chunkmap", SCTP_CHUNKMAP_SET_ALL, [types |-> 0..255])

SetAddr(addr) ==
    Change("sockaddr", pn_sockaddr_set_addr(word, addr),
           [addr |-> addr \ {0, 1}, port |-> stored.port, resource |-> stored.resource])

SetPort(port) ==
    Change("sockaddr", pn_sockaddr_set_port(word, port),
           [addr |-> stored.addr, port |-> Low(10, port), resource |-> stored.resource])

\* An address taken over from the object handle of an address and a port.
SetObject(addr, port) ==
    LET handle == pn_object(addr \ {0, 1}, port)
    IN  Change("sockaddr", pn_sockaddr_set_object(word, handle),
               [addr |-> pn_addr(handle), port |-> pn_port(handle),
                resource |-> stored.resource])

SetResource(res) ==
    Change("sockaddr", pn_sockaddr_set_resource(word, res),
           [addr |-> stored.addr, port |-> stored.port, resource |-> res])

SetControl(sw) == Change("ieee", ieee_swcr_to_fpcr(sw), [control |-> sw])

\* A signal frame: the PSR of a task whose condition codes are codes is saved,
\* and restored; plus says whether the frame still carries the V8PLUS mark.
RestorePsr(codes, plus) ==
    LET CCR == TSTATE_ICC \cup TSTATE_XCC
        psr == tstate_to_psr((word \ CCR) \cup codes)
    IN  Change("psr",
               (word \ CCR) \cup psr_to_tstate_icc(IF plus THEN psr ELSE psr \ PSR_V8PLUS),
               [codes |-> IF plus THEN codes ELSE codes \cap TSTATE_ICC])

SwabInPlace(m, n) ==
    Change("raw", (word \ Bits(n)) \cup swabs(m, n, word),
           [word |-> (word \ Bits(n)) \cup Reversed(n, word)])

\* Half words, and bytes within half words: together they make a swab.
SwapHalves(m) ==
    Change("raw", (word \ Bits(32)) \cup swahb32s(m, swahw32s(m, word)),
           [word |-> (word \ Bits(32)) \cup Reversed(32, word)])

Next ==
    \/ \E f \in DOMAIN Bitmask : \E v \in Values(Bitmask[f][2]) : SetBitmask(f, v)
    \/ \E inode \in Values(20), size \in Values(16) :
          MakeKey(Low(20, inode), Low(16, size))
    \/ \E gen \in Values(8), offset \in Values(43), dev \in Values(12) :
          MakePtr(Low(8, gen), Low(43, offset), Low(12, dev))
    \/ \E op \in Values(3) : SetOp(op)
    \/ \E len \in Values(31) : SetLen(Low(32, len) \ TCMU_OP_MASK)
    \/ \E m \in Machines, flag \in 0..3 : SetFlag(m, flag) \/ ClearFlag(m, flag)
    \/ \E m \in Machines : SetClean(m)
    \/ \E t \in ChunkTypes : SetChunk(t) \/ ClearChunk(t)
    \/ ResetChunks
    \/ SetAllChunks
    \/ \E addr \in Values(7) : SetAddr(Low(8, addr))
    \/ \E port \in Values(10) : SetPort(Low(16, port))
    \/ \E addr \in Values(7), port \in Values(10) : SetObject(Low(8, addr), Low(16, port))
    \/ \E res \in Values(7) : SetResource(Low(8, res))
    \/ \E sw \in Controls : SetControl(sw)
    \/ \E codes \in SUBSET {32, 35, 36, 39}, plus \in BOOLEAN : RestorePsr(codes, plus)
    \/ \E m \in Machines, n \in {16, 32, 64} : SwabInPlace(m, n)
    \/ \E m \in Machines : SwapHalves(m)

Spec == Init /\ [][Next]_vars

-----------------------------------------------------------------------------
\* The word keeps to its width: no accessor reaches past it.
TypeOK ==
    /\ kind \in Kinds
    /\ word \subseteq Bits(Width[kind])

\* After any calls of the setters of a packed word (bcache keys, pointers and
\* superblock flags, TCMU headers, Phonet addresses), in any order and with
\* values too wide for the fields, each getter returns what was last stored in
\* its own field: no setter disturbs the bits of a neighbour.
FieldsRead ==
    /\ kind \in DOMAIN BitmaskKinds =>
         \A f \in BitmaskKinds[kind] : get_bitmask(word, f) = stored[f]
    /\ kind = "tcmu" => /\ tcmu_hdr_get_op(word) = stored.op
                        /\ tcmu_hdr_get_len(word) = stored.len
    /\ kind = "sockaddr" =>
         /\ pn_sockaddr_get_addr(word) = stored.addr
         /\ pn_sockaddr_get_port(word) = stored.port
         /\ spn_resource(word) = stored.resource
         /\ pn_sockaddr_get_object(word) = pn_object(stored.addr, stored.port)

\* The flags of a nilfs2 checkpoint or segment mean the same to every machine
\* that mounts the disk, whichever machines set and cleared them before, and
\* the bits of flags it does not know survive (nilfs2_ondisk.h).
FlagsOnDisk ==
    kind \in DOMAIN NilfsFlag =>
      \A m \in Machines :
        /\ nilfs_flags(m, word) = stored.flags
        /\ nilfs_segment_usage_clean(m, word) <=> stored.flags = {}

\* Every swab of every architecture, in place or on a copy, turns the bytes of
\* the word round, so that the conversions give each machine the same number.
SwabsAgree ==
    kind = "raw" =>
      /\ word = stored.word
      /\ \A m \in Machines, n \in {16, 32, 64} :
           /\ swab(m, n, Low(n, word)) = Reversed(n, word)
           /\ le_to_cpu(m, n, Load(m, n, word)) = Low(n, word)
           /\ be_to_cpu(m, n, Load(m, n, word)) = Reversed(n, word)
           /\ Store(m, n, cpu_to_le(m, n, Low(n, word))) = Low(n, word)
           /\ Store(m, n, cpu_to_be(m, n, Low(n, word))) = Reversed(n, word)

\* The map of chunk types answers for each type what was last done to it, and a
\* map that tests as clear, or as all set, has no type set, or every type: the
\* rules that are left out or matched without a look at the types depend on it.
ChunkMapTrue ==
    kind = "chunkmap" =>
      /\ \A t \in 0..255 : SCTP_CHUNKMAP_IS_SET(word, t) <=> t \in stored.types
      /\ sctp_chunkmap_is_clear(word) => stored.types = {}
      /\ sctp_chunkmap_is_all_set(word) => stored.types = 0..255

\* A control word survives its stay in the other format: the Alpha's software
\* bits come back from the FPCR, but for the underflow trap, which mapping
\* underflows to zero disables, and SPARC's condition codes from the PSR.
ControlSurvives ==
    /\ kind = "ieee" =>
         ieee_fpcr_to_swcr(word)
           = (stored.control \cap IEEE_SW_MASK)
               \ {b \in {IEEE_TRAP_ENABLE_UNF} : IEEE_MAP_UMZ \in stored.control}
    /\ kind = "psr" => word \cap (TSTATE_ICC \cup TSTATE_XCC) = stored.codes

=============================================================================
