---------------------------- MODULE SeqBufProofs ----------------------------
(* Proofs about SeqBuf, for every buffer of at least 8 bytes. *)
EXTENDS SeqBuf, TLAPS

LEMMA Bytes ==
  ASSUME NEW x \in Nat
  PROVE  U8(x) \in Byte /\ U8(x \div 256) \in Byte /\ x \div 256 \in Nat
  BY DEF U8, Byte

LEMMA SmallByte ==
  ASSUME NEW x \in Byte
  PROVE  U8(x) = x
  BY DEF U8, Byte

LEMMA Tuple2 ==
  ASSUME NEW S, NEW a \in S, NEW b \in S
  PROVE  <<a, b>> \in Seq(S) /\ Len(<<a, b>>) = 2 /\ <<a, b>>[1] = a
  OBVIOUS

LEMMA Tuple4 ==
  ASSUME NEW S, NEW a \in S, NEW b \in S, NEW c \in S, NEW d \in S
  PROVE  <<a, b, c, d>> \in Seq(S) /\ Len(<<a, b, c, d>>) = 4 /\ <<a, b, c, d>>[1] = a
  OBVIOUS

LEMMA Tuple6 ==
  ASSUME NEW S, NEW a \in S, NEW b \in S, NEW c \in S, NEW d \in S,
         NEW e \in S, NEW f \in S
  PROVE  /\ <<a, b, c, d, e, f>> \in Seq(S) /\ Len(<<a, b, c, d, e, f>>) = 6
         /\ <<a, b, c, d, e, f>>[1] = a
  OBVIOUS

LEMMA Tuple8 ==
  ASSUME NEW S, NEW a \in S, NEW b \in S, NEW c \in S, NEW d \in S,
         NEW e \in S, NEW f \in S, NEW g \in S, NEW h \in S
  PROVE  /\ <<a, b, c, d, e, f, g, h>> \in Seq(S) /\ Len(<<a, b, c, d, e, f, g, h>>) = 8
         /\ <<a, b, c, d, e, f, g, h>>[1] = a
  OBVIOUS

LEMMA Joined ==
  ASSUME NEW S, NEW s \in Seq(S), NEW t \in Seq(S)
  PROVE  s \o t \in Seq(S) /\ Len(s \o t) = Len(s) + Len(t)
  OBVIOUS

LEMMA FirstOf ==
  ASSUME NEW S, NEW s \in Seq(S), NEW t \in Seq(S), Len(s) > 0
  PROVE  (s \o t)[1] = s[1]
  OBVIOUS

LEMMA SecondOf ==
  ASSUME NEW S, NEW s \in Seq(S), NEW t \in Seq(S), NEW i \in Nat, 0 < i, i <= Len(t)
  PROVE  (s \o t)[Len(s) + i] = t[i]
  OBVIOUS

LEMMA Regrouped ==
  ASSUME NEW S, NEW s \in Seq(S), NEW t \in Seq(S), NEW u \in Seq(S)
  PROVE  (s \o t) \o u = s \o (t \o u)
  OBVIOUS

LEMMA NativeStores ==
  ASSUME NEW x \in Nat
  PROVE  /\ Short(x) \in Seq(Byte) /\ Len(Short(x)) = 2
         /\ Int32(x) \in Seq(Byte) /\ Len(Int32(x)) = 4
<1>1. ASSUME NEW s \in Seq(Byte)
      PROVE  Native(s) \in Seq(Byte) /\ Len(Native(s)) = Len(s)
  BY DEF Native
<1>2. U8(x) \in Byte /\ U8(x \div 256) \in Byte /\ U8(x \div 65536) \in Byte
        /\ U8(x \div 16777216) \in Byte
  BY DEF U8, Byte
<1>3. /\ <<U8(x), U8(x \div 256)>> \in Seq(Byte)
      /\ Len(<<U8(x), U8(x \div 256)>>) = 2
  BY <1>2, Tuple2
<1> DEFINE b == <<U8(x), U8(x \div 256), U8(x \div 65536), U8(x \div 16777216)>>
<1>4. b \in Seq(Byte) /\ Len(b) = 4
  BY <1>2, Tuple4
<1>5. Short(x) \in Seq(Byte) /\ Len(Short(x)) = 2
  BY <1>1, <1>3, Zenon DEF Short
<1>6. Int32(x) \in Seq(Byte) /\ Len(Int32(x)) = 4
  <2>1. Int32(x) = Native(b)
    BY DEF Int32
  <2> HIDE DEF b
  <2>2. QED
    BY <1>1, <1>4, <2>1
<1>7. QED
  BY <1>5, <1>6

(* The first byte of an event of n bytes, as the header describes it. *)
Sized(b, n) == b # SEQ_FULLSIZE /\ n = IF b >= 128 THEN 8 ELSE 4

Shape(e, n) == e \in Seq(Byte) /\ Len(e) = n /\ Sized(e[1], n)

(* An event that is no part of a system exclusive message. *)
Plain(e, n) == Shape(e, n) /\ e[1] # EV_SYSEX

LEMMA Sizes ==
  /\ Sized(SEQ_MIDIPUTC, 4)
  /\ \A b \in {EV_SEQ_LOCAL, EV_TIMING, EV_CHN_COMMON, EV_CHN_VOICE, EV_SYSEX, SEQ_EXTENDED} :
       Sized(b, 8)
  BY DEF Sized, SEQ_MIDIPUTC, EV_SEQ_LOCAL, EV_TIMING, EV_CHN_COMMON, EV_CHN_VOICE,
         EV_SYSEX, SEQ_EXTENDED, SEQ_FULLSIZE

LEMMA Codes ==
  /\ {SEQ_MIDIPUTC, SEQ_CONTROLLER, SEQ_VOLMODE, EV_SEQ_LOCAL, EV_TIMING,
      EV_CHN_COMMON, EV_CHN_VOICE, SEQ_EXTENDED} \subseteq Byte
  /\ {0, 1, 2, 128, 144, 160, 176, 192, 208, 224, 254, 255} \subseteq Byte
  /\ (1..6) \cup {8, 10, 11} \subseteq Byte
  BY DEF SEQ_MIDIPUTC, SEQ_CONTROLLER, SEQ_VOLMODE, EV_SEQ_LOCAL, EV_TIMING,
         EV_CHN_COMMON, EV_CHN_VOICE, SEQ_EXTENDED, Byte

LEMMA OtherCodes ==
  EV_SYSEX \notin {SEQ_MIDIPUTC, EV_SEQ_LOCAL, EV_TIMING, EV_CHN_COMMON, EV_CHN_VOICE, SEQ_EXTENDED}
  BY DEF SEQ_MIDIPUTC, EV_SEQ_LOCAL, EV_TIMING, EV_CHN_COMMON, EV_CHN_VOICE, EV_SYSEX, SEQ_EXTENDED

LEMMA VoiceShape ==
  ASSUME NEW dev \in Nat, NEW event \in Byte, NEW chn \in Nat, NEW note \in Nat,
         NEW parm \in Nat
  PROVE  Plain(CHN_VOICE(dev, event, chn, note, parm), 8)
<1>1. EV_CHN_VOICE \in Byte /\ 0 \in Byte
  BY Codes
<1>2. U8(dev) \in Byte /\ U8(chn) \in Byte /\ U8(note) \in Byte /\ U8(parm) \in Byte
  BY Bytes
<1>3. Sized(EV_CHN_VOICE, 8)
  BY Sizes
<1>4. QED
  BY <1>1, <1>2, <1>3, Tuple8, OtherCodes DEF CHN_VOICE, Plain, Shape

LEMMA CommonShape ==
  ASSUME NEW dev \in Nat, NEW event \in Byte, NEW chn \in Nat, NEW p1 \in Nat,
         NEW w14 \in Nat
  PROVE  Plain(CHN_COMMON(dev, event, chn, p1, 0, w14), 8)
<1> DEFINE h == <<EV_CHN_COMMON, U8(dev), event, U8(chn), U8(p1), U8(0)>>
<1>1. h \in Seq(Byte) /\ Len(h) = 6 /\ h[1] = EV_CHN_COMMON
  BY ZenonT(30), Bytes, Codes, Tuple6
<1>2. CHN_COMMON(dev, event, chn, p1, 0, w14) = h \o Short(w14)
  BY DEF CHN_COMMON
<1>3. Short(w14) \in Seq(Byte) /\ Len(Short(w14)) = 2
  BY NativeStores
<1> HIDE DEF h
<1>4. h \o Short(w14) \in Seq(Byte) /\ Len(h \o Short(w14)) = Len(h) + Len(Short(w14))
  BY <1>1, <1>3, Joined, Zenon
<1>5. Len(h \o Short(w14)) = 8 /\ (h \o Short(w14))[1] = EV_CHN_COMMON
  BY <1>1, <1>3, <1>4, FirstOf
<1>6. QED
  BY <1>2, <1>4, <1>5, Sizes, OtherCodes, Zenon DEF Plain, Shape

LEMMA TimerShape ==
  ASSUME NEW code \in {EV_SEQ_LOCAL, EV_TIMING}, NEW ev \in Byte, NEW parm \in Nat
  PROVE  Plain(<<code, ev, 0, 0>> \o Int32(parm), 8)
<1> DEFINE h == <<code, ev, 0, 0>>
<1>1. h \in Seq(Byte) /\ Len(h) = 4 /\ h[1] = code
  BY Codes, Tuple4
<1>2. Int32(parm) \in Seq(Byte) /\ Len(Int32(parm)) = 4
  BY NativeStores
<1> HIDE DEF h
<1>3. h \o Int32(parm) \in Seq(Byte) /\ Len(h \o Int32(parm)) = Len(h) + Len(Int32(parm))
  BY <1>1, <1>2, Joined, Zenon
<1>4. Plain(h \o Int32(parm), 8)
  <2>0. Len(h) > 0
    BY <1>1
  <2>1. (h \o Int32(parm))[1] = code
    BY Zenon, <1>1, <1>2, <2>0, FirstOf
  <2>2. QED
    BY <1>1, <1>2, <1>3, <2>1, Sizes, OtherCodes DEF Plain, Shape
<1>5. QED
  BY <1>4 DEF h

LEMMA ExtendedShape ==
  ASSUME NEW dev \in Nat, NEW voice \in Nat, NEW ctl \in Byte, NEW value \in Nat
  PROVE  /\ Plain(SEQ_VOLUME_MODE(dev, value), 8)
         /\ Plain(SEQ_V2_X_CONTROL(dev, voice, ctl, value), 8)
         /\ Plain(SEQ_MIDIOUT(dev, value), 4)
<1>1. Plain(SEQ_VOLUME_MODE(dev, value), 8)
  <2>1. SEQ_EXTENDED \in Byte /\ SEQ_VOLMODE \in Byte /\ 0 \in Byte
    BY Codes
  <2>2. U8(dev) \in Byte /\ U8(value) \in Byte
    BY Bytes
  <2>3. QED
    BY <2>1, <2>2, Tuple8, Sizes, OtherCodes DEF SEQ_VOLUME_MODE, Plain, Shape
<1>2. Plain(SEQ_V2_X_CONTROL(dev, voice, ctl, value), 8)
  <2>1. SEQ_EXTENDED \in Byte /\ SEQ_CONTROLLER \in Byte /\ 0 \in Byte
    BY Codes
  <2>2. /\ U8(dev) \in Byte /\ U8(voice) \in Byte
        /\ U8(value) \in Byte /\ U8(value \div 256) \in Byte
    BY Bytes
  <2>3. QED
    BY <2>1, <2>2, Tuple8, Sizes, OtherCodes DEF SEQ_V2_X_CONTROL, Plain, Shape
<1>3. Plain(SEQ_MIDIOUT(dev, value), 4)
  <2>1. SEQ_MIDIPUTC \in Byte /\ 0 \in Byte
    BY Codes
  <2>2. U8(dev) \in Byte /\ U8(value) \in Byte
    BY Bytes
  <2>3. QED
    BY <2>1, <2>2, Tuple4, Sizes, OtherCodes DEF SEQ_MIDIOUT, Plain, Shape
<1>4. QED
  BY <1>1, <1>2, <1>3

(* The macros make events of 4 or 8 bytes. *)
LEMMA EventShape ==
  ASSUME NEW e \in Events
  PROVE  Plain(e, 4) \/ Plain(e, 8)
<1> USE ArgAssumption
<1>1. e \in VoiceEvents => Plain(e, 8)
  <2>1. ASSUME NEW dev \in Dev, NEW event \in {128, 144, 160}, NEW chn \in Chn,
               NEW note \in Note, NEW parm \in Note
        PROVE  Plain(CHN_VOICE(dev, event, chn, note, parm), 8)
    <3>1. dev \in Nat /\ chn \in Nat /\ note \in Nat /\ parm \in Nat
      OBVIOUS
    <3> HIDE ArgAssumption
    <3>2. event \in Byte
      BY Codes
    <3>3. QED
      BY <3>1, <3>2, VoiceShape
  <2>2. QED
    BY <2>1 DEF VoiceEvents
<1>2. e \in ChannelEvents => Plain(e, 8)
  <2>1. ASSUME NEW dev \in Dev, NEW event \in {176, 192, 208, 224}, NEW chn \in Chn,
               NEW p1 \in Nat, NEW w14 \in Nat
        PROVE  Plain(CHN_COMMON(dev, event, chn, p1, 0, w14), 8)
    <3>1. dev \in Nat /\ chn \in Nat
      OBVIOUS
    <3> HIDE ArgAssumption
    <3>2. event \in Byte
      BY Codes
    <3>3. QED
      BY <3>1, <3>2, CommonShape
  <2>2. Note \subseteq Nat /\ Value \subseteq Nat /\ 0 \in Nat
    OBVIOUS
  <2>3. ASSUME NEW c \in Controls
        PROVE  c[1] \in Nat /\ c[2] \in Nat
    BY <2>2 DEF Controls
  <2>4. ASSUME NEW dev \in Dev, NEW event \in {192, 208}, NEW chn \in Chn, NEW parm \in Note,
               e = CHN_COMMON(dev, event, chn, parm, 0, 0)
        PROVE  Plain(e, 8)
    BY <2>1, <2>2, <2>4
  <2>5. ASSUME NEW dev \in Dev, NEW chn \in Chn, NEW c \in Controls,
               e = CHN_COMMON(dev, 176, chn, c[1], 0, c[2])
        PROVE  Plain(e, 8)
    BY <2>1, <2>3, <2>5
  <2>6. ASSUME NEW dev \in Dev, NEW chn \in Chn, NEW value \in Value,
               e = CHN_COMMON(dev, 224, chn, 0, 0, value)
        PROVE  Plain(e, 8)
    BY <2>1, <2>2, <2>6
  <2>7. QED
    BY <2>4, <2>5, <2>6 DEF ChannelEvents
<1>3. ASSUME NEW ev \in (1..6) \cup {8, 10, 11}, NEW parm \in Ticks, e = TIMER_EVENT(ev, parm)
      PROVE  Plain(e, 8)
  <2>1. ev \in Byte /\ parm \in Nat
    BY Codes
  <2>2. QED
    BY <1>3, <2>1, TimerShape, Zenon DEF TIMER_EVENT
<1>4. ASSUME NEW parm \in Ticks, e = LOCAL_EVENT(1, parm)
      PROVE  Plain(e, 8)
  <2>1. 1 \in Byte /\ parm \in Nat
    BY Codes
  <2>2. QED
    BY <1>4, <2>1, TimerShape, Zenon DEF LOCAL_EVENT
<1>5. ASSUME NEW dev \in Dev, NEW mode \in {1, 2}, e = SEQ_VOLUME_MODE(dev, mode)
      PROVE  Plain(e, 8)
  <2>1. dev \in Nat /\ mode \in Nat
    OBVIOUS
  <2> HIDE ArgAssumption
  <2>2. 0 \in Byte
    BY Codes
  <2>3. QED
    BY <1>5, <2>1, <2>2, ExtendedShape
<1>6. ASSUME NEW dev \in Dev, NEW voice \in Chn, NEW ctl \in {254, 255}, NEW value \in Value,
             e = SEQ_V2_X_CONTROL(dev, voice, ctl, value)
      PROVE  Plain(e, 8)
  <2>1. dev \in Nat /\ voice \in Nat /\ value \in Nat
    OBVIOUS
  <2> HIDE ArgAssumption
  <2>2. ctl \in Byte
    BY Codes
  <2>3. QED
    BY <1>6, <2>1, <2>2, ExtendedShape
<1>7. ASSUME NEW dev \in Dev, NEW byte \in Note, e = SEQ_MIDIOUT(dev, byte)
      PROVE  Plain(e, 4)
  BY ZenonT(30), <1>7, ExtendedShape, Codes
<1>8. QED
  BY <1>1, <1>2, <1>3, <1>4, <1>5, <1>6, <1>7 DEF Events

(* The byte that ends a message, and the one after it. *)
EndMark == 247
Padding == 255

LEMMA FragmentShape ==
  ASSUME NEW dev \in Dev, NEW buf \in Seq(Nat)
  PROVE  /\ Shape(SEQ_SYSEX(dev, buf), 8) /\ SEQ_SYSEX(dev, buf)[1] = EV_SYSEX
         /\ \A i \in 1..6 : /\ i <= Len(buf) => SEQ_SYSEX(dev, buf)[2 + i] = U8(buf[i])
                            /\ i > Len(buf) => SEQ_SYSEX(dev, buf)[2 + i] = Padding
<1> DEFINE pad == [i \in 1..6 |-> IF i <= Len(buf) THEN U8(buf[i]) ELSE 255]
<1>0. ASSUME NEW i \in 1..6 PROVE (IF i <= Len(buf) THEN U8(buf[i]) ELSE 255) \in Byte
  <2>1. 255 \in Byte
    BY DEF Byte
  <2>2. i <= Len(buf) => buf[i] \in Nat
    OBVIOUS
  <2>3. QED
    BY <2>1, <2>2, Bytes
<1>1. pad \in Seq(Byte) /\ Len(pad) = 6
  BY <1>0
<1>2. EV_SYSEX \in Byte /\ U8(dev) \in Byte
  BY ArgAssumption, Bytes DEF EV_SYSEX, Byte
<1>3. PICK h : h = <<EV_SYSEX, U8(dev)>>
  BY Zenon
<1>4. h \in Seq(Byte) /\ Len(h) = 2 /\ h[1] = EV_SYSEX
  BY <1>2, <1>3, Tuple2
<1>5. SEQ_SYSEX(dev, buf) = h \o pad
  BY <1>3 DEF SEQ_SYSEX
<1> HIDE DEF pad
<1>6. h \o pad \in Seq(Byte) /\ Len(h \o pad) = 8 /\ (h \o pad)[1] = EV_SYSEX
  <2>1. Len(h) > 0
    BY <1>4
  <2>2. (h \o pad)[1] = EV_SYSEX
    BY Zenon, <1>1, <1>4, <2>1, FirstOf
  <2>3. h \o pad \in Seq(Byte) /\ Len(h \o pad) = Len(h) + Len(pad)
    BY Zenon, <1>1, <1>4, Joined
  <2>4. QED
    BY <1>1, <1>4, <2>2, <2>3
<1>7. \A i \in 1..6 : (h \o pad)[2 + i] = pad[i]
  <2>1. ASSUME NEW i \in 1..6 PROVE (h \o pad)[2 + i] = pad[i]
    <3>1. i \in Nat /\ 0 < i /\ i <= 6
      OBVIOUS
    <3>2. i <= Len(pad)
      BY Zenon, <1>1, <3>1
    <3>3. (h \o pad)[Len(h) + i] = pad[i]
      BY Zenon, <1>1, <1>4, <3>1, <3>2, SecondOf
    <3>. QED
      BY Zenon, <1>4, <3>3
  <2>. QED
    BY <2>1, Zenon
<1>8. \A i \in 1..6 : /\ i <= Len(buf) => pad[i] = U8(buf[i])
                      /\ i > Len(buf) => pad[i] = Padding
  BY DEF pad, Padding
<1>9. Shape(SEQ_SYSEX(dev, buf), 8) /\ SEQ_SYSEX(dev, buf)[1] = EV_SYSEX
  BY <1>5, <1>6, Sizes DEF Shape
<1>10. \A i \in 1..6 : /\ i <= Len(buf) => SEQ_SYSEX(dev, buf)[2 + i] = U8(buf[i])
                       /\ i > Len(buf) => SEQ_SYSEX(dev, buf)[2 + i] = Padding
  <2>1. ASSUME NEW i \in 1..6
        PROVE  /\ i <= Len(buf) => SEQ_SYSEX(dev, buf)[2 + i] = U8(buf[i])
               /\ i > Len(buf) => SEQ_SYSEX(dev, buf)[2 + i] = Padding
    <3>1. SEQ_SYSEX(dev, buf)[2 + i] = pad[i]
      BY Zenon, <1>5, <1>7
    <3>2. (i <= Len(buf) => pad[i] = U8(buf[i])) /\ (i > Len(buf) => pad[i] = Padding)
      BY Zenon, <1>8
    <3>. QED
      BY Zenon, <3>1, <3>2
  <2>. QED
    BY Zenon, <2>1
<1>11. QED
  BY Zenon, <1>9, <1>10

(* In either byte order the first byte of a patch is SEQ_FULLSIZE. *)
LEMMA PatchShape ==
  ASSUME NEW p \in Patches
  PROVE  p \in Seq(Byte) /\ Len(p) > 0 /\ p[1] = SEQ_FULLSIZE
<1>1. PICK id \in PatchId, data \in Patch : p = Short(PATCHKEY(id)) \o data
  BY DEF Patches
<1>2. id \in 1..6 /\ data \in Seq(Byte)
  BY ArgAssumption
<1>3. /\ Short(PATCHKEY(id)) \in Seq(Byte) /\ Len(Short(PATCHKEY(id))) = 2
      /\ Short(PATCHKEY(id))[1] = SEQ_FULLSIZE
  <2>1. PATCHKEY(id) \in Nat
    BY <1>2 DEF PATCHKEY, SEQ_FULLSIZE
  <2>2. CASE LittleEndian
    <3>1. U8(PATCHKEY(id)) = SEQ_FULLSIZE
      BY <1>2, <2>2 DEF PATCHKEY, SEQ_FULLSIZE, U8
    <3>2. Short(PATCHKEY(id))[1] = SEQ_FULLSIZE
      BY <2>2, <3>1 DEF Short, Native
    <3>3. QED
      BY <2>1, <3>2, NativeStores
  <2>3. CASE ~LittleEndian
    <3>1. U8(PATCHKEY(id) \div 256) = SEQ_FULLSIZE
      BY <1>2, <2>3 DEF PATCHKEY, SEQ_FULLSIZE, U8
    <3>2. Short(PATCHKEY(id))[1] = SEQ_FULLSIZE
      BY <2>3, <3>1 DEF Short, Native
    <3>3. QED
      BY <2>1, <3>2, NativeStores
  <2>4. QED
    BY <2>2, <2>3
<1>4. PICK k \in Seq(Byte) : k = Short(PATCHKEY(id))
  BY <1>3
<1>5. p = k \o data /\ Len(k) = 2 /\ k[1] = SEQ_FULLSIZE
  BY <1>1, <1>3, <1>4
<1>6. Len(k) > 0
  BY <1>5
<1>7. p[1] = SEQ_FULLSIZE
  BY Zenon, <1>2, <1>5, <1>6, FirstOf
<1>8. p \in Seq(Byte) /\ Len(p) = Len(k) + Len(data)
  BY Zenon, <1>2, <1>5, Joined
<1>9. Len(data) \in Nat
  BY <1>2
<1>10. QED
  BY <1>5, <1>7, <1>8, <1>9

-----------------------------------------------------------------------------
(* What the buffer, the device and the program agree on. *)
IInv ==
  /\ TypeOK
  /\ InBounds
  /\ InOrder
  /\ Len(sent) \in events
  /\ Len(fd) \in events
  /\ WholeWrites

LEMMA AtMost8 ==
  ASSUME NEW n, n = 4 \/ n = 8
  PROVE  n <= 8
  OBVIOUS

LEMMA BufInit == Init => IInv
  BY BufferAssumption DEF Init, IInv, TypeOK, InBounds, InOrder, WholeWrites, Byte

(* An event of at most 8 bytes finds room and stays in one piece. *)
LEMMA StoreStep ==
  ASSUME IInv, NEW e \in Seq(Byte), Len(e) <= 8, Record(e), Store(e),
         sysex' \in Seq(Nat), program' = program
  PROVE  IInv'
<1> USE DEF IInv, TypeOK
<1>1. Len(sent) + Len(e) = Len(sent)' /\ Len(sent)' \in events' /\ events \subseteq events'
  BY DEF Record
<1>0. Len(sent) + Len(e) \in Nat /\ Len(fd) + Len(seqbuf) \in Nat
  OBVIOUS
<1>2. sent' \in Seq(Byte) /\ events' \subseteq Nat
  <2>1. sent' = sent \o e /\ events' = events \cup {Len(sent) + Len(e)}
    BY DEF Record
  <2>2. events' \subseteq Nat
    BY <1>0, <2>1, Zenon
  <2>3. QED
    BY <2>1, <2>2
<1>3. CASE NeedsDump(Len(e))
  <2>1. fd' = fd \o seqbuf /\ writes' = writes \cup {Len(fd) + Len(seqbuf)} /\ seqbuf' = e
    BY <1>3 DEF Store, Write
  <2>2. fd' = sent
    BY <2>1 DEF InOrder
  <2>3. Len(fd) + Len(seqbuf) = Len(sent)
    BY DEF InOrder
  <2>4. InOrder'
    BY <2>1, <2>2 DEF InOrder, Record
  <2>5. InBounds'
    BY <2>1, BufferAssumption DEF InBounds
  <2>6. WholeWrites'
    BY <1>1, <2>1, <2>3, Zenon DEF WholeWrites
  <2>7. TypeOK'
    <3>1. writes' \subseteq Nat
      BY <1>0, <2>1, Zenon
    <3>2. fd' \in Seq(Byte) /\ seqbuf' \in Seq(Byte)
      BY <2>1
    <3>3. QED
      BY <1>2, <3>1, <3>2
  <2>8. Len(fd)' \in events'
    BY <1>1, <2>2
  <2>9. QED
    BY <1>1, <2>4, <2>5, <2>6, <2>7, <2>8
<1>4. CASE ~NeedsDump(Len(e))
  <2>1. fd' = fd /\ writes' = writes /\ seqbuf' = seqbuf \o e
    BY <1>4 DEF Store
  <2>2. InOrder'
    <3>0. fd \in Seq(Byte) /\ seqbuf \in Seq(Byte)
      OBVIOUS
    <3>1. (fd \o seqbuf) \o e = fd \o (seqbuf \o e)
      <4> HIDE DEF IInv, TypeOK
      <4>1. QED
        BY ONLY <3>0, e \in Seq(Byte)
    <3>2. QED
      BY <2>1, <3>1 DEF InOrder, Record
  <2>3. InBounds'
    BY <1>4, <2>1, BufferAssumption DEF InBounds, NeedsDump
  <2>4. WholeWrites' /\ Len(fd)' \in events'
    BY <1>1, <2>1 DEF WholeWrites
  <2>5. TypeOK'
    BY <1>2, <2>1
  <2>6. QED
    BY <1>1, <2>2, <2>3, <2>4, <2>5
<1>5. QED
  BY <1>3, <1>4

LEMMA BufStep == IInv /\ [Next]_vars => IInv'
<1> SUFFICES ASSUME IInv, [Next]_vars PROVE IInv'
  OBVIOUS
<1>1. ASSUME NEW e \in Events, Event(e) PROVE IInv'
  <2>1. e \in Seq(Byte) /\ Len(e) <= 8
    <3>1. Shape(e, 4) \/ Shape(e, 8)
      BY EventShape DEF Plain
    <3>2. e \in Seq(Byte) /\ (Len(e) = 4 \/ Len(e) = 8)
      BY <3>1 DEF Shape
    <3>3. QED
      BY <3>2, AtMost8, Zenon
  <2>2. Record(e) /\ Store(e) /\ sysex' = sysex /\ program' = program
    BY <1>1 DEF Event
  <2>3. sysex' \in Seq(Nat)
    BY <2>2 DEF IInv, TypeOK
  <2>4. QED
    BY <2>1, <2>2, <2>3, StoreStep
<1>2. ASSUME NEW m \in Sysex, StartSysex(m) PROVE IInv'
  BY <1>2, ArgAssumption DEF StartSysex, IInv, TypeOK, InBounds, InOrder, WholeWrites
<1>3. ASSUME NEW dev \in Dev, SysexFragment(dev) PROVE IInv'
  <2>1. sysex \in Seq(Nat)
    BY DEF IInv, TypeOK
  <2>2. SEQ_SYSEX(dev, sysex) \in Seq(Byte) /\ Len(SEQ_SYSEX(dev, sysex)) = 8
    BY <2>1, FragmentShape DEF Shape
  <2>3. Record(SEQ_SYSEX(dev, sysex)) /\ Store(SEQ_SYSEX(dev, sysex)) /\ program' = program
    BY <1>3 DEF SysexFragment
  <2>4. sysex' \in Seq(Nat)
    <3>1. sysex' = IF Len(sysex) > 6 THEN SubSeq(sysex, 7, Len(sysex)) ELSE <<>>
      BY <1>3 DEF SysexFragment
    <3>2. Len(sysex) > 6 => SubSeq(sysex, 7, Len(sysex)) \in Seq(Nat)
      BY <2>1
    <3>3. <<>> \in Seq(Nat)
      OBVIOUS
    <3>4. QED
      BY <3>1, <3>2, <3>3
  <2>5. Len(SEQ_SYSEX(dev, sysex)) <= 8
    BY <2>2
  <2>6. QED
    BY <2>2, <2>3, <2>4, <2>5, StoreStep, Zenon
<1>4. CASE SEQ_DUMPBUF
  <2> USE DEF IInv, TypeOK
  <2>1. fd' = fd \o seqbuf /\ writes' = writes \cup {Len(fd) + Len(seqbuf)} /\ seqbuf' = <<>>
          /\ UNCHANGED <<sent, events, sysex, program>>
    BY <1>4 DEF SEQ_DUMPBUF, Write
  <2>2. fd' = sent /\ Len(fd) + Len(seqbuf) = Len(sent)
    BY <2>1 DEF InOrder
  <2>3. InOrder' /\ InBounds'
    BY <2>1, <2>2, BufferAssumption DEF InOrder, InBounds
  <2>4. WholeWrites'
    BY <2>1, <2>2, Zenon DEF WholeWrites
  <2>5. TypeOK'
    <3>1. Len(sent) \in Nat /\ <<>> \in Seq(Byte)
      OBVIOUS
    <3>2. writes' \subseteq Nat
      BY <2>1, <2>2, <3>1, Zenon
    <3>3. QED
      BY <2>1, <2>2, <3>1, <3>2
  <2>6. QED
    BY <2>1, <2>2, <2>3, <2>4, <2>5
<1>5. CASE DumpFails
  BY <1>5 DEF DumpFails, IInv, TypeOK, InBounds, InOrder, WholeWrites
<1>6. ASSUME NEW p \in Patches, WritePatch(p) PROVE IInv'
  <2> USE DEF IInv, TypeOK
  <2>1. /\ fd' = fd \o seqbuf \o p /\ seqbuf' = <<>>
        /\ writes' = writes \cup {Len(fd) + Len(seqbuf), Len(fd) + Len(seqbuf) + Len(p)}
        /\ sent' = sent \o p /\ events' = events \cup {Len(sent) + Len(p)}
        /\ sysex' = sysex /\ program' = program
    BY <1>6 DEF WritePatch, Record
  <2>2. p \in Seq(Byte)
    BY PatchShape
  <2>3. Len(fd) + Len(seqbuf) = Len(sent)
    BY DEF InOrder
  <2>4. fd' = sent' /\ Len(sent)' = Len(sent) + Len(p)
    BY <2>1, <2>2 DEF InOrder
  <2>5. InOrder' /\ InBounds'
    BY <2>1, <2>2, <2>4, BufferAssumption DEF InOrder, InBounds
  <2>6. WholeWrites'
    BY <2>1, <2>3, Zenon DEF WholeWrites
  <2>7. sent' \in Seq(Byte) /\ Len(sent) + Len(p) \in Nat
    BY <2>1, <2>2
  <2>8. TypeOK'
    <3>1. Len(sent) \in Nat /\ <<>> \in Seq(Byte)
      OBVIOUS
    <3>2. writes' \subseteq Nat /\ events' \subseteq Nat
      BY <2>1, <2>3, <2>7, <3>1, Zenon
    <3>3. QED
      BY <2>1, <2>4, <2>7, <3>1, <3>2
  <2>9. QED
    BY <2>1, <2>4, <2>5, <2>6, <2>8
<1>7. CASE UNCHANGED vars
  BY <1>7 DEF vars, IInv, TypeOK, InBounds, InOrder, WholeWrites
<1>8. QED
  BY <1>1, <1>2, <1>3, <1>4, <1>5, <1>6, <1>7 DEF Next

LEMMA BufInvariant == Spec => []IInv
  BY BufInit, BufStep, PTL DEF Spec

(* The macros never store beyond the end of the buffer, for every buffer   *)
(* SEQ_DEFINEBUF declares with room for the longest event.                 *)
THEOREM BufferInBounds == Spec => []InBounds
<1>1. IInv => InBounds
  BY DEF IInv
<1>2. QED
  BY <1>1, BufInvariant, PTL

(* Events and patches reach the device complete and in program order. *)
THEOREM EventsInOrder == Spec => []InOrder
<1>1. IInv => InOrder
  BY DEF IInv
<1>2. QED
  BY <1>1, BufInvariant, PTL

(* No event is split between two writes. *)
THEOREM EventsNotSplit == Spec => []WholeWrites
<1>1. IInv => WholeWrites
  BY DEF IInv
<1>2. QED
  BY <1>1, BufInvariant, PTL

(* The buffer and what reaches the device are bytes, whatever the arguments *)
(* of the macros.                                                          *)
THEOREM BufferTypes == Spec => []TypeOK
<1>1. IInv => TypeOK
  BY DEF IInv
<1>2. QED
  BY <1>1, BufInvariant, PTL

-----------------------------------------------------------------------------
(* Where the event that starts at offset m ends: n, and what the first     *)
(* byte of the event says about it.                                        *)
Follows(m, n) == n > m /\ \A k \in events : k > m => k >= n

EndsAt(m, n) ==
  /\ Follows(m, n)
  /\ sent[m + 1] # SEQ_FULLSIZE => Sized(sent[m + 1], n - m)
  /\ sent[m + 1] = SEQ_FULLSIZE => m \in writes /\ n \in writes

Cut ==
  /\ \A m \in events : m <= Len(sent)
  /\ \A m \in events : m < Len(sent) => \E n \in events : EndsAt(m, n)

LEMMA CutInit == Init => Cut
  BY DEF Init, Cut

LEMMA Extended ==
  ASSUME NEW s \in Seq(Byte), NEW e \in Seq(Byte), Len(e) > 0
  PROVE  /\ \A m \in Nat : m < Len(s) => (s \o e)[m + 1] = s[m + 1]
         /\ (s \o e)[Len(s) + 1] = e[1]
         /\ Len(s \o e) = Len(s) + Len(e)
  OBVIOUS

(* An event or a patch at the end of what was sent ends where its first    *)
(* byte says; the earlier ones end where they did.                         *)
LEMMA CutGrows ==
  ASSUME TypeOK, Cut, Len(sent) \in events, NEW e \in Seq(Byte), Len(e) > 0, Record(e),
         writes \subseteq writes',
         e[1] # SEQ_FULLSIZE => Sized(e[1], Len(e)),
         e[1] = SEQ_FULLSIZE => {Len(sent), Len(sent) + Len(e)} \subseteq writes'
  PROVE  Cut'
<1>1. PICK L \in Nat : L = Len(sent)
  BY DEF TypeOK
<1>2. PICK E \in Nat : E = L + Len(e)
  BY <1>1
<1>3. /\ events' = events \cup {E} /\ Len(sent') = E /\ L < E /\ L \in events
      /\ \A m \in Nat : m < L => sent'[m + 1] = sent[m + 1]
      /\ sent'[L + 1] = e[1]
      /\ events \subseteq Nat
  <2>1. sent' = sent \o e /\ events' = events \cup {E}
    BY <1>1, <1>2 DEF Record
  <2>2. sent \in Seq(Byte) /\ events \subseteq Nat
    BY DEF TypeOK
  <2>3. L < E
    BY <1>1, <1>2
  <2>4. QED
    BY <1>1, <1>2, <2>1, <2>2, <2>3, Extended
<1>4. \A m \in events : m <= L
  BY <1>1 DEF Cut
<1>5. \A m \in events' : m <= Len(sent')
  BY <1>3, <1>4
<1>6. ASSUME NEW m \in events, m < L
      PROVE  \E n \in events' : EndsAt(m, n)'
  <2>1. PICK n \in events : EndsAt(m, n)
    BY <1>1, <1>6 DEF Cut
  <2>2. sent'[m + 1] = sent[m + 1] /\ n \in Nat /\ m \in Nat /\ n <= L
    BY <1>3, <1>4, <1>6
  <2>3. Follows(m, n)'
    <3>1. n > m /\ \A k \in events : k > m => k >= n
      BY <2>1 DEF EndsAt, Follows
    <3>2. E >= n
      BY <1>3, <2>2
    <3>3. QED
      BY <1>3, <3>1, <3>2 DEF Follows
  <2>4. EndsAt(m, n)'
    BY <2>1, <2>2, <2>3 DEF EndsAt, Sized
  <2>5. QED
    BY <1>3, <2>4
<1>7. EndsAt(L, E)'
  <2>1. Follows(L, E)'
    BY <1>3, <1>4 DEF Follows
  <2>2. E - L = Len(e)
    BY <1>1, <1>2
  <2>3. QED
    BY <1>1, <1>2, <1>3, <2>1, <2>2 DEF EndsAt, Sized
<1>8. ASSUME NEW m \in events', m < Len(sent')
      PROVE  \E n \in events' : EndsAt(m, n)'
  <2>0. m < E /\ ~(E < E)
    BY <1>2, <1>3, <1>8
  <2>1. m \in events /\ m <= L
    BY Zenon, <1>3, <1>4, <1>8, <2>0
  <2>2. m < L \/ m = L
    <3>1. m \in Nat /\ L \in Nat
      BY Zenon, <1>3, <2>1
    <3>2. QED
      BY ONLY <2>1, <3>1
  <2>3. QED
    BY <1>3, <1>6, <1>7, <2>1, <2>2
<1>9. QED
  BY <1>5, <1>8 DEF Cut

LEMMA CutStays ==
  ASSUME TypeOK, Cut, UNCHANGED <<sent, events>>, writes \subseteq writes'
  PROVE  Cut'
  BY DEF Cut, EndsAt, Follows, Sized

LEMMA CutStep == IInv /\ Cut /\ [Next]_vars => Cut'
<1> SUFFICES ASSUME IInv, Cut, [Next]_vars PROVE Cut'
  OBVIOUS
<1>0. TypeOK /\ Len(sent) \in events
  BY DEF IInv
<1>1. ASSUME NEW e, Shape(e, 4) \/ Shape(e, 8), Record(e), Store(e) PROVE Cut'
  <2>1. e \in Seq(Byte) /\ Len(e) > 0 /\ Sized(e[1], Len(e)) /\ e[1] # SEQ_FULLSIZE
    BY <1>1 DEF Shape, Sized
  <2>2. writes \subseteq writes'
    BY <1>1 DEF Store, Write
  <2>3. QED
    BY <1>0, <1>1, <2>1, <2>2, CutGrows
<1>2. ASSUME NEW e \in Events, Event(e) PROVE Cut'
  BY <1>1, <1>2, EventShape DEF Event, Plain
<1>3. ASSUME NEW dev \in Dev, SysexFragment(dev) PROVE Cut'
  <2>1. Shape(SEQ_SYSEX(dev, sysex), 8)
    BY <1>0, FragmentShape DEF TypeOK
  <2>2. QED
    BY <1>1, <1>3, <2>1 DEF SysexFragment
<1>4. ASSUME NEW p \in Patches, WritePatch(p) PROVE Cut'
  <2>1. p \in Seq(Byte) /\ Len(p) > 0 /\ p[1] = SEQ_FULLSIZE
    BY PatchShape
  <2>2. Len(fd) + Len(seqbuf) = Len(sent)
    BY DEF IInv, InOrder, TypeOK
  <2>3. writes' = writes \cup {Len(sent), Len(sent) + Len(p)} /\ Record(p)
    BY <1>4, <2>2, Zenon DEF WritePatch
  <2>4. QED
    BY <1>0, <2>1, <2>3, CutGrows
<1>5. CASE SEQ_DUMPBUF
  BY <1>0, <1>5, CutStays DEF SEQ_DUMPBUF, Write
<1>6. CASE DumpFails \/ UNCHANGED vars \/ \E m \in Sysex : StartSysex(m)
  BY <1>0, <1>6, CutStays DEF DumpFails, StartSysex, vars
<1>7. QED
  BY <1>2, <1>3, <1>4, <1>5, <1>6 DEF Next

LEMMA CutInvariant == Spec => [](IInv /\ Cut)
<1>1. Init => IInv /\ Cut
  BY BufInit, CutInit
<1>2. (IInv /\ Cut) /\ [Next]_vars => (IInv /\ Cut)'
  BY BufStep, CutStep
<1>3. QED
  BY <1>1, <1>2, PTL DEF Spec

LEMMA EndFound ==
  ASSUME TypeOK, Cut, NEW m \in Starts
  PROVE  EndsAt(m, EndOf(m)) /\ EndOf(m) \in Nat /\ m \in Nat
<1>1. m \in events /\ m < Len(sent) /\ events \subseteq Nat
  BY DEF Starts, TypeOK
<1>2. PICK n \in events : EndsAt(m, n)
  BY <1>1 DEF Cut
<1>3. n > m /\ \A k \in events : k > m => k >= n
  BY <1>2 DEF EndsAt, Follows
<1>4. \A x \in events : x > m /\ (\A k \in events : k > m => k >= x) => x = n
  BY <1>1, <1>3
<1>5. EndOf(m) = n
  BY <1>3, <1>4 DEF EndOf
<1>6. QED
  BY <1>1, <1>2, <1>5

(* A patch has a write of its own, whatever events were in the buffer      *)
(* before it, in either byte order.                                        *)
THEOREM PatchesAlone == Spec => []PatchAlone
<1>1. IInv /\ Cut => PatchAlone
  BY EndFound DEF IInv, PatchAlone, EndsAt
<1>2. QED
  BY <1>1, CutInvariant, PTL

(* The device finds the end of every event from its first byte, for all    *)
(* arguments of the macros.                                                *)
THEOREM EventsDelimited == Spec => []SelfDelimiting
<1>1. ASSUME TypeOK, Cut, NEW m \in Starts, sent[m + 1] # SEQ_FULLSIZE
      PROVE  EndOf(m) = m + (IF sent[m + 1] >= 128 THEN 8 ELSE 4)
  <2>1. /\ EndOf(m) \in Nat /\ m \in Nat
        /\ EndOf(m) - m = IF sent[m + 1] >= 128 THEN 8 ELSE 4
    BY <1>1, EndFound DEF EndsAt, Sized
  <2>2. QED
    BY <2>1
<1>2. IInv /\ Cut => SelfDelimiting
  BY <1>1 DEF IInv, SelfDelimiting
<1>3. QED
  BY <1>2, CutInvariant, PTL

-----------------------------------------------------------------------------
(* The 6 bytes of the fragment at offset m of s: all data, or with the end *)
(* of the message and nothing but padding after it.                        *)
Goes(s, m) == \A i \in 1..6 : s[m + 2 + i] \notin {EndMark, Padding}
Ends(s, m) ==
  \E i \in 1..6 : /\ s[m + 2 + i] = EndMark
                  /\ \A j \in 1..6 : /\ j < i => s[m + 2 + j] # Padding
                                     /\ j > i => s[m + 2 + j] = Padding

(* What is left of a message is data up to its last byte, the end marker. *)
Rest(s) ==
  Len(s) > 0 =>
              /\ s[Len(s)] = EndMark
              /\ \A i \in 1..(Len(s) - 1) : s[i] \in Byte /\ s[i] \notin {EndMark, Padding}

(* After a fragment that does not end its message comes another; if it is  *)
(* the last event so far, there is something left to be sent.              *)
Continues(m) ==
  /\ m + 8 <= Len(sent)
  /\ Goes(sent, m) \/ Ends(sent, m)
  /\ Goes(sent, m) => IF m + 8 = Len(sent) THEN sysex # <<>> ELSE sent[m + 9] = EV_SYSEX

Fragments ==
  /\ Rest(sysex)
  /\ \A m \in events : m < Len(sent) /\ sent[m + 1] = EV_SYSEX => Continues(m)

LEMMA FragmentsInit == Init => Fragments
  BY DEF Init, Fragments, Rest

(* A fragment is data, or holds the end of the message. *)
LEMMA FragmentBytes ==
  ASSUME NEW dev \in Dev, NEW buf \in Seq(Nat), Len(buf) > 0, Rest(buf)
  PROVE  IF Len(buf) > 6 THEN Goes(SEQ_SYSEX(dev, buf), 0) ELSE Ends(SEQ_SYSEX(dev, buf), 0)
<1>1. PICK e : e = SEQ_SYSEX(dev, buf)
  OBVIOUS
<1>2. PICK n \in Nat \ {0} : n = Len(buf)
  OBVIOUS
<1>3. \A i \in 1..6 : (i <= n => e[2 + i] = U8(buf[i])) /\ (i > n => e[2 + i] = Padding)
  BY Zenon, <1>1, <1>2, FragmentShape
<1>4. U8(buf[n]) = EndMark
  <2>1. buf[n] = EndMark
    BY <1>2 DEF Rest
  <2>. QED
    BY <2>1 DEF U8, EndMark
<1>5. ASSUME NEW i \in 1..(n - 1) PROVE U8(buf[i]) \notin {EndMark, Padding}
  <2>1. buf[i] \in Byte /\ buf[i] \notin {EndMark, Padding}
    BY <1>2 DEF Rest
  <2>2. U8(buf[i]) = buf[i]
    BY Zenon, <2>1, SmallByte
  <2>. QED
    BY Zenon, <2>1, <2>2
<1>6. \A i \in 1..6 : 0 + 2 + i = 2 + i
  OBVIOUS
<1>7. CASE n > 6
  <2>1. ASSUME NEW i \in 1..6 PROVE e[2 + i] \notin {EndMark, Padding}
    <3>1. i \in 1..(n - 1) /\ i <= n
      BY <1>7
    <3>2. e[2 + i] = U8(buf[i])
      BY Zenon, <1>3, <3>1
    <3>. QED
      BY Zenon, <1>5, <3>1, <3>2
  <2>. QED
    BY <1>1, <1>2, <1>6, <1>7, <2>1 DEF Goes
<1>8. CASE n <= 6
  <2>0. n \in 1..6 /\ n <= n
    BY <1>8
  <2>1. e[2 + n] = EndMark /\ n \in 1..6
    BY Zenon, <1>3, <1>4, <2>0
  <2>2. ASSUME NEW j \in 1..6
        PROVE  (j < n => e[2 + j] # Padding) /\ (j > n => e[2 + j] = Padding)
    <3>1. CASE j < n
      <4>1. j \in 1..(n - 1) /\ j <= n /\ ~(j > n)
        BY <3>1
      <4>2. e[2 + j] = U8(buf[j])
        BY Zenon, <1>3, <4>1
      <4>3. U8(buf[j]) # Padding
        BY <1>5, <4>1
      <4>. QED
        BY Zenon, <4>1, <4>2, <4>3
    <3>2. CASE j >= n
      BY <1>3, <3>2
    <3>. QED
      BY <3>1, <3>2
  <2>3. Ends(e, 0)
    BY <1>6, <2>1, <2>2 DEF Ends
  <2>. QED
    BY <1>1, <1>2, <1>8, <2>3
<1>. QED
  BY <1>7, <1>8

(* What is left after a fragment. *)
LEMMA RestGoesOn ==
  ASSUME NEW s \in Seq(Nat), Rest(s), Len(s) > 6
  PROVE  Rest(SubSeq(s, 7, Len(s))) /\ SubSeq(s, 7, Len(s)) # <<>>
<1>1. PICK l \in Nat : l = Len(s) /\ l > 6
  OBVIOUS
<1>2. PICK t : t = SubSeq(s, 7, l)
  BY Zenon
<1>3. Len(t) = l - 6 /\ \A i \in 1..(l - 6) : t[i] = s[i + 6]
  BY <1>1, <1>2
<1>4. s # <<>>
  BY <1>1
<1>5. t[l - 6] = EndMark
  BY <1>1, <1>3, <1>4 DEF Rest
<1>6. ASSUME NEW i \in 1..(l - 6 - 1) PROVE t[i] \in Byte /\ t[i] \notin {EndMark, Padding}
  <2>1. i + 6 \in 1..(l - 1) /\ t[i] = s[i + 6]
    BY <1>1, <1>3
  <2>2. \A k \in 1..(l - 1) : s[k] \in Byte /\ s[k] \notin {EndMark, Padding}
    BY <1>1, <1>4 DEF Rest
  <2>. QED
    BY <2>1, <2>2
<1>7. Rest(t)
  BY <1>1, <1>3, <1>5, <1>6 DEF Rest
<1>8. t # <<>>
  BY <1>1, <1>3
<1>. QED
  BY <1>1, <1>2, <1>7, <1>8

LEMMA RestBegins ==
  ASSUME NEW m \in Sysex
  PROVE  Rest(m) /\ m # <<>>
<1>1. PICK n \in Nat : n = Len(m) /\ n >= 2 /\ m[1] = 240 /\ m[n] = EndMark
  BY ArgAssumption, SysexAssumption DEF EndMark
<1>2. ASSUME NEW i \in 1..(n - 1) PROVE m[i] \in Byte /\ m[i] \notin {EndMark, Padding}
  <2>1. m[i] \in Nat
    BY <1>1, ArgAssumption
  <2>2. i # 1 => m[i] <= 127
    BY <1>1, SysexAssumption
  <2>3. m[i] <= 127 \/ m[i] = 240
    BY <1>1, <2>2
  <2>. QED
    BY <2>1, <2>3 DEF Byte, EndMark, Padding
<1>3. m # <<>>
  BY <1>1
<1>. QED
  BY <1>1, <1>2, <1>3 DEF Rest

(* The two kinds of fragments, where the bytes are the same. *)
LEMMA SameFragment ==
  ASSUME NEW s, NEW t, NEW m, NEW n, \A i \in 1..6 : t[n + 2 + i] = s[m + 2 + i]
  PROVE  /\ Goes(t, n) <=> Goes(s, m)
         /\ Ends(t, n) <=> Ends(s, m)
         /\ ~(Goes(s, m) /\ Ends(s, m))
<1>1. Goes(t, n) <=> Goes(s, m)
  BY Zenon DEF Goes
<1>2. Ends(t, n) <=> Ends(s, m)
  <2>1. ASSUME Ends(t, n) PROVE Ends(s, m)
    BY <2>1 DEF Ends
  <2>2. ASSUME Ends(s, m) PROVE Ends(t, n)
    BY <2>2 DEF Ends
  <2>. QED
    BY <2>1, <2>2
<1>3. ~(Goes(s, m) /\ Ends(s, m))
  BY Zenon DEF Goes, Ends
<1>. QED
  BY <1>1, <1>2, <1>3

LEMMA Appended ==
  ASSUME NEW s \in Seq(Byte), NEW e \in Seq(Byte)
  PROVE  /\ Len(s \o e) = Len(s) + Len(e)
         /\ \A k \in 1..Len(s) : (s \o e)[k] = s[k]
         /\ \A i \in 1..Len(e) : (s \o e)[Len(s) + i] = e[i]
  OBVIOUS

(* After another event the fragments are continued as they should. *)
LEMMA FragmentsGrow ==
  ASSUME TypeOK, Cut, Fragments, Len(sent) \in events, NEW e \in Seq(Byte), Len(e) > 0, Record(e),
         Rest(sysex'),
         sysex # <<>> => e[1] = EV_SYSEX,
         e[1] = EV_SYSEX => Len(e) = 8 /\ IF sysex' # <<>> THEN Goes(e, 0) ELSE Ends(e, 0)
  PROVE  Fragments'
<1>1. PICK L \in Nat : L = Len(sent)
  BY DEF TypeOK
<1>2. PICK n \in Nat : n = Len(e) /\ n > 0
  OBVIOUS
<1>3. sent' = sent \o e /\ events' = events \cup {L + n} /\ sent \in Seq(Byte)
  BY <1>1, <1>2 DEF Record, TypeOK
<1>4. /\ Len(sent') = L + n
      /\ \A k \in 1..L : sent'[k] = sent[k]
      /\ \A i \in 1..n : sent'[L + i] = e[i]
  <2>1. /\ Len(sent \o e) = Len(sent) + Len(e)
        /\ \A k \in 1..Len(sent) : (sent \o e)[k] = sent[k]
        /\ \A i \in 1..Len(e) : (sent \o e)[Len(sent) + i] = e[i]
    BY Zenon, <1>3, Appended
  <2>. QED
    BY Zenon, <1>1, <1>2, <1>3, <2>1
<1>5. events \subseteq Nat /\ \A m \in events : m <= L
  BY <1>1 DEF TypeOK, Cut
<1>6. \A m \in events : m < L /\ sent[m + 1] = EV_SYSEX =>
        /\ m + 8 <= L
        /\ Goes(sent, m) \/ Ends(sent, m)
        /\ Goes(sent, m) => IF m + 8 = L THEN sysex # <<>> ELSE sent[m + 9] = EV_SYSEX
  BY <1>1 DEF Fragments, Continues
<1>7. e[1] = EV_SYSEX => n = 8 /\ IF sysex' # <<>> THEN Goes(e, 0) ELSE Ends(e, 0)
  BY <1>2
<1>8. PICK s : s = sent
  OBVIOUS
<1>9. PICK t : t = sent'
  OBVIOUS
<1>10. ASSUME NEW m \in events, m < L, t[m + 1] = EV_SYSEX
       PROVE  /\ m + 8 <= L + n
              /\ Goes(t, m) \/ Ends(t, m)
              /\ Goes(t, m) => IF m + 8 = L + n THEN sysex' # <<>> ELSE t[m + 9] = EV_SYSEX
  <2>1. m \in Nat /\ m + 1 \in 1..L
    BY <1>5, <1>10
  <2>2. s[m + 1] = EV_SYSEX
    BY <1>4, <1>8, <1>9, <1>10, <2>1
  <2>3. /\ m + 8 <= L
        /\ Goes(s, m) \/ Ends(s, m)
        /\ Goes(s, m) => IF m + 8 = L THEN sysex # <<>> ELSE s[m + 9] = EV_SYSEX
    BY <1>6, <1>8, <1>10, <2>2
  <2>4. \A i \in 1..6 : t[m + 2 + i] = s[m + 2 + i]
    <3>1. \A i \in 1..6 : m + 2 + i \in 1..L
      BY <2>1, <2>3
    <3>. QED
      BY <1>4, <1>8, <1>9, <3>1, Zenon
  <2>5. (Goes(t, m) <=> Goes(s, m)) /\ (Ends(t, m) <=> Ends(s, m))
    BY <2>4, SameFragment, Zenon
  <2>6. CASE m + 8 = L
    <3>1. Goes(s, m) => t[L + 1] = EV_SYSEX
      <4>1. t[L + 1] = e[1]
        BY <1>2, <1>4, <1>9
      <4>. QED
        BY <2>3, <2>6, <4>1
    <3>2. m + 9 = L + 1 /\ m + 8 # L + n /\ m + 8 <= L + n
      BY <1>2, <2>1, <2>6
    <3>. QED
      BY Zenon, <2>3, <2>5, <3>1, <3>2
  <2>7. CASE m + 8 # L
    <3>1. m + 9 \in 1..L /\ m + 8 # L + n /\ m + 8 <= L + n
      BY <1>2, <2>1, <2>3, <2>7
    <3>2. t[m + 9] = s[m + 9]
      BY <1>4, <1>8, <1>9, <3>1
    <3>. QED
      BY Zenon, <2>3, <2>5, <2>7, <3>1, <3>2
  <2>. QED
    BY <2>6, <2>7
<1>11. ASSUME t[L + 1] = EV_SYSEX
       PROVE  /\ L + 8 <= L + n
              /\ Goes(t, L) \/ Ends(t, L)
              /\ Goes(t, L) => IF L + 8 = L + n THEN sysex' # <<>> ELSE t[L + 9] = EV_SYSEX
  <2>1. e[1] = EV_SYSEX
    BY <1>2, <1>4, <1>9, <1>11
  <2>2. n = 8 /\ IF sysex' # <<>> THEN Goes(e, 0) ELSE Ends(e, 0)
    BY <1>7, <2>1
  <2>3. \A i \in 1..6 : t[L + 2 + i] = e[0 + 2 + i]
    <3>1. \A i \in 1..6 : 2 + i \in 1..n /\ L + 2 + i = L + (2 + i) /\ 0 + 2 + i = 2 + i
      BY <2>2
    <3>. QED
      BY <1>4, <1>9, <3>1
  <2>4. (Goes(t, L) <=> Goes(e, 0)) /\ (Ends(t, L) <=> Ends(e, 0)) /\ ~(Goes(e, 0) /\ Ends(e, 0))
    BY <2>3, SameFragment, Zenon
  <2>5. L + 8 <= L + n /\ L + 8 = L + n
    BY <2>2
  <2>. QED
    BY Zenon, <2>2, <2>4, <2>5
<1>12. ASSUME NEW m \in events', m < L + n, t[m + 1] = EV_SYSEX
       PROVE  /\ m + 8 <= L + n
              /\ Goes(t, m) \/ Ends(t, m)
              /\ Goes(t, m) => IF m + 8 = L + n THEN sysex' # <<>> ELSE t[m + 9] = EV_SYSEX
  <2>1. m \in events /\ (m < L \/ m = L)
    BY <1>3, <1>5, <1>12
  <2>. QED
    BY Zenon, <1>10, <1>11, <1>12, <2>1
<1>. QED
  BY Zenon, <1>4, <1>9, <1>12 DEF Fragments, Continues

LEMMA FragmentsStep == IInv /\ Cut /\ Fragments /\ [Next]_vars => Fragments'
<1> SUFFICES ASSUME IInv, Cut, Fragments, [Next]_vars PROVE Fragments'
  OBVIOUS
<1>0. TypeOK /\ Len(sent) \in events
  BY DEF IInv
<1>1. ASSUME UNCHANGED <<sent, events, sysex>> PROVE Fragments'
  BY <1>1 DEF Fragments, Continues
<1>2. ASSUME NEW e \in Seq(Byte), Len(e) > 0, e[1] # EV_SYSEX, Record(e), sysex = <<>>, sysex' = sysex
      PROVE  Fragments'
  <2>1. Rest(sysex')
    BY <1>2 DEF Fragments
  <2>. QED
    BY <1>0, <1>2, <2>1, FragmentsGrow
<1>3. ASSUME NEW e \in Events, Event(e) PROVE Fragments'
  <2>1. e \in Seq(Byte) /\ Len(e) > 0 /\ e[1] # EV_SYSEX
    BY EventShape DEF Plain, Shape
  <2>. QED
    BY <1>2, <1>3, <2>1 DEF Event
<1>4. ASSUME NEW p \in Patches, WritePatch(p) PROVE Fragments'
  <2>1. p \in Seq(Byte) /\ Len(p) > 0 /\ p[1] # EV_SYSEX
    BY PatchShape DEF SEQ_FULLSIZE, EV_SYSEX
  <2>. QED
    BY <1>2, <1>4, <2>1 DEF WritePatch
<1>5. ASSUME NEW m \in Sysex, StartSysex(m) PROVE Fragments'
  <2>1. Rest(sysex') /\ sysex' # <<>>
    BY <1>5, RestBegins DEF StartSysex
  <2>2. sent' = sent /\ events' = events
    BY <1>5 DEF StartSysex
  <2>. QED
    BY <2>1, <2>2 DEF Fragments, Continues
<1>6. ASSUME NEW dev \in Dev, SysexFragment(dev) PROVE Fragments'
  <2>1. PICK e : e = SEQ_SYSEX(dev, sysex)
    OBVIOUS
  <2>2. sysex \in Seq(Nat) /\ sysex # <<>> /\ Record(e)
    BY <1>0, <1>6, <2>1 DEF TypeOK, SysexFragment
  <2>3. Len(sysex) > 0 /\ Rest(sysex)
    BY <2>2 DEF Fragments
  <2>4. Shape(e, 8) /\ e[1] = EV_SYSEX
    BY Zenon, <2>1, <2>2, FragmentShape
  <2>5. IF Len(sysex) > 6 THEN Goes(e, 0) ELSE Ends(e, 0)
    BY Zenon, <2>1, <2>2, <2>3, FragmentBytes
  <2>6. sysex' = IF Len(sysex) > 6 THEN SubSeq(sysex, 7, Len(sysex)) ELSE <<>>
    BY <1>6 DEF SysexFragment
  <2>7. Rest(sysex') /\ (sysex' # <<>> <=> Len(sysex) > 6)
    <3>1. CASE Len(sysex) > 6
      BY Zenon, <2>2, <2>3, <2>6, <3>1, RestGoesOn
    <3>2. CASE ~(Len(sysex) > 6)
      BY <2>6, <3>2 DEF Rest
    <3>. QED
      BY <3>1, <3>2
  <2>8. e \in Seq(Byte) /\ Len(e) = 8
    BY <2>4 DEF Shape
  <2>9. Len(e) > 0
    BY <2>8
  <2>10. IF sysex' # <<>> THEN Goes(e, 0) ELSE Ends(e, 0)
    BY Zenon, <2>5, <2>7
  <2>. QED
    BY Zenon, <1>0, <2>2, <2>4, <2>7, <2>8, <2>9, <2>10, FragmentsGrow
<1>7. CASE SEQ_DUMPBUF \/ DumpFails \/ UNCHANGED vars
  BY <1>1, <1>7 DEF SEQ_DUMPBUF, DumpFails, vars
<1>. QED
  BY <1>3, <1>4, <1>5, <1>6, <1>7 DEF Next

(* What SysexRules says of the 6 bytes d of the fragment at m. *)
RuleOf(d, m) ==
  \/ /\ \A i \in 1..6 : d[i] \notin {247, 255}
     /\ m + 8 \in Starts => sent[m + 9] = EV_SYSEX
  \/ \E i \in 1..6 :
       /\ d[i] = 247
       /\ \A j \in 1..6 : (j < i => d[j] # 255) /\ (j > i => d[j] = 255)

LEMMA RuleKept ==
  ASSUME NEW d, NEW m \in Nat, Continues(m), \A i \in 1..6 : d[i] = sent[m + 2 + i]
  PROVE  RuleOf(d, m)
<1>1. m + 8 \in Starts => m + 8 # Len(sent)
  BY DEF Starts
<1>2. CASE Goes(sent, m)
  <2>1. \A i \in 1..6 : d[i] \notin {247, 255}
    BY <1>2 DEF Goes, EndMark, Padding
  <2>2. m + 8 \in Starts => sent[m + 9] = EV_SYSEX
    BY <1>1, <1>2 DEF Continues
  <2>. QED
    BY <2>1, <2>2 DEF RuleOf
<1>3. CASE Ends(sent, m)
  BY <1>3 DEF Ends, EndMark, Padding, RuleOf
<1>. QED
  BY <1>2, <1>3 DEF Continues

LEMMA EventElements ==
  ASSUME NEW s \in Seq(Byte), NEW a \in Nat, a >= 1, a + 5 <= Len(s), NEW i \in 1..6
  PROVE  SubSeq(s, a, a + 5)[i] = s[a + i - 1]
  OBVIOUS

(* A message of the form the comment on SEQ_SYSEX asks for reaches the     *)
(* device in fragments that keep the rules there, however long it is and   *)
(* wherever in the buffer its fragments fall.                              *)
THEOREM SysexInFragments == Spec => []SysexRules
<1>1. ASSUME TypeOK, Cut, Fragments PROVE SysexRules
  <2>1. ASSUME NEW m \in Starts, sent[m + 1] = EV_SYSEX
        PROVE  RuleOf(SubSeq(sent, m + 3, m + 8), m)
    <3>1. PICK L \in Nat : L = Len(sent)
      BY <1>1 DEF TypeOK
    <3>2. m \in Nat /\ m < L /\ Continues(m)
      BY <1>1, <2>1, <3>1 DEF Starts, TypeOK, Fragments
    <3>3. PICK d : d = SubSeq(sent, m + 3, m + 8)
      BY Zenon
    <3>4. \A i \in 1..6 : d[i] = sent[m + 2 + i]
      <4>1. m + 8 <= L /\ sent \in Seq(Byte)
        BY <1>1, <3>1, <3>2 DEF Continues, TypeOK
      <4>2. PICK a \in Nat : a = m + 3
        BY <3>2
      <4>3. d = SubSeq(sent, a, a + 5) /\ a >= 1 /\ a + 5 <= Len(sent)
        BY <3>1, <3>2, <3>3, <4>1, <4>2
      <4>4. \A i \in 1..6 : d[i] = sent[a + i - 1]
        BY <4>1, <4>2, <4>3, EventElements
      <4>. QED
        BY <3>2, <4>2, <4>4
    <3>. QED
      BY Zenon, <3>2, <3>3, <3>4, RuleKept
  <2>. QED
    BY <2>1, Zenon DEF SysexRules, RuleOf
<1>2. IInv /\ Cut /\ Fragments => SysexRules
  BY <1>1 DEF IInv
<1>3. Init => Fragments
  BY FragmentsInit
<1>4. Spec => []Fragments
  BY <1>3, FragmentsStep, CutInvariant, PTL DEF Spec
<1>. QED
  BY <1>2, <1>4, CutInvariant, PTL

=============================================================================
