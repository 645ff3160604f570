------------------------------- MODULE SeqBuf -------------------------------
(***************************************************************************)
(* The event macros at the end of include/linux/soundcard.h.  A program    *)
(* writes music to /dev/sequencer through a buffer of its own: a macro     *)
(* makes room with _SEQ_NEEDBUF, which may dump the buffer, stores the 4   *)
(* or 8 bytes of an event and advances _seqbufptr.  Patches go to the      *)
(* device directly.                                                        *)
(*                                                                         *)
(* Only the first _seqbufptr bytes of _seqbuf are ever read, so seqbuf is  *)
(* the sequence of those.  seqbuf_dump "must be provided by programs": it  *)
(* is the sample implementation of the header's comment.                   *)
(***************************************************************************)
EXTENDS Integers, Sequences

CONSTANTS
  seqbuflen,     \* SEQ_DEFINEBUF(seqbuflen)
  LittleEndian,
  Dev, Chn, Note, Value, Ticks,    \* arguments of the macros
  Sysex,         \* the system exclusive messages the program sends
  PatchId,       \* the kinds of the patches it loads: WAVE_PATCH, FM_PATCH ...
  Patch,         \* ... and what follows their keys
  MaxSent        \* bound on the bytes of all of them

Byte == 0..255

ASSUME BufferAssumption == seqbuflen \in Nat /\ seqbuflen >= 8
ASSUME ArgAssumption ==
  /\ Dev \subseteq Nat /\ Chn \subseteq Nat /\ Note \subseteq Nat
  /\ Value \subseteq Nat /\ Ticks \subseteq Nat
  /\ PatchId \subseteq 1..6 /\ Patch \subseteq Seq(Byte) /\ Sysex \subseteq Seq(Nat)
  /\ LittleEndian \in BOOLEAN

(* The messages are what the comment on SEQ_SYSEX asks of the program:     *)
(* 0xf0, bytes that are not larger than 0x7f, and 0xf7.                    *)
ASSUME SysexAssumption ==
  \A m \in Sysex :
    /\ Len(m) >= 2 /\ m[1] = 240 /\ m[Len(m)] = 247
    /\ \A i \in 2..(Len(m) - 1) : m[i] <= 127

VARIABLES
  seqbuf,    \* the first _seqbufptr bytes of _seqbuf
  fd,        \* the bytes written to the device ...
  writes,    \* ... and how many there were after each write
  sent,      \* the bytes of all events and patches, in program order ...
  events,    \* ... and how many there were after each of them
  sysex,     \* what is left of the message that is being sent
  program    \* "runs", or "exited"

vars == <<seqbuf, fd, writes, sent, events, sysex, program>>

U8(x) == x % 256

(* The bytes of *(short * )p = x and *(unsigned int * )p = x. *)
Native(bytes) ==
  IF LittleEndian THEN bytes ELSE [i \in 1..Len(bytes) |-> bytes[Len(bytes) + 1 - i]]
Short(x) == Native(<<U8(x), U8(x \div 256)>>)
Int32(x) == Native(<<U8(x), U8(x \div 256), U8(x \div 65536), U8(x \div 16777216)>>)

SEQ_MIDIPUTC   == 5
SEQ_CONTROLLER == 10
SEQ_VOLMODE    == 12
EV_SEQ_LOCAL   == 128
EV_TIMING      == 129
EV_CHN_COMMON  == 146
EV_CHN_VOICE   == 147
EV_SYSEX       == 148
SEQ_FULLSIZE   == 253
SEQ_EXTENDED   == 255

SEQ_VOLUME_MODE(dev, mode) ==
  <<SEQ_EXTENDED, SEQ_VOLMODE, U8(dev), U8(mode), 0, 0, 0, 0>>

CHN_VOICE(dev, event, chn, note, parm) ==
  <<EV_CHN_VOICE, U8(dev), event, U8(chn), U8(note), U8(parm), 0, 0>>

(* SEQ_STOP_NOTE, SEQ_START_NOTE, SEQ_KEY_PRESSURE *)
VoiceEvents ==
  {CHN_VOICE(dev, event, chn, note, parm) :
     dev \in Dev, event \in {128, 144, 160}, chn \in Chn, note \in Note, parm \in Note}

CHN_COMMON(dev, event, chn, p1, p2, w14) ==
  <<EV_CHN_COMMON, U8(dev), event, U8(chn), U8(p1), U8(p2)>> \o Short(w14)

(* The controllers and values of SEQ_CONTROL: SEQ_EXPRESSION,              *)
(* SEQ_MAIN_VOLUME and SEQ_PANNING                                         *)
Controls ==
  {<<11, value * 128>> : value \in Value}
  \cup {<<7, (value * 16383) \div 100>> : value \in Value}
  \cup {<<10, (pos + 128) \div 2>> : pos \in Value}

(* SEQ_CHN_PRESSURE and SEQ_PGM_CHANGE, SEQ_CONTROL, SEQ_BENDER *)
ChannelEvents ==
  {CHN_COMMON(dev, event, chn, parm, 0, 0) :
     dev \in Dev, event \in {192, 208}, chn \in Chn, parm \in Note}
  \cup {CHN_COMMON(dev, 176, chn, c[1], 0, c[2]) : dev \in Dev, chn \in Chn, c \in Controls}
  \cup {CHN_COMMON(dev, 224, chn, 0, 0, value) : dev \in Dev, chn \in Chn, value \in Value}

SEQ_V2_X_CONTROL(dev, voice, controller, value) ==
  <<SEQ_EXTENDED, SEQ_CONTROLLER, U8(dev), U8(voice), controller,
    U8(value), U8(value \div 256), 0>>

(* SEQ_START_TIMER ... SEQ_TIME_SIGNATURE *)
TIMER_EVENT(ev, parm) == <<EV_TIMING, ev, 0, 0>> \o Int32(parm)

(* SEQ_PLAYAUDIO *)
LOCAL_EVENT(ev, parm) == <<EV_SEQ_LOCAL, ev, 0, 0>> \o Int32(parm)

(* Mutant: only the 3 bytes in use are stored. *)
MIDIOUT_short(device, byte) == <<SEQ_MIDIPUTC, U8(byte), U8(device)>>

SEQ_MIDIOUT(device, byte) == <<SEQ_MIDIPUTC, U8(byte), U8(device), 0>>

(* Mutant: a fragment of at most 5 bytes. *)
SYSEX_five(dev, buf) ==
  <<EV_SYSEX, U8(dev)>>
    \o [i \in 1..6 |-> IF i <= Len(buf) /\ i <= 5 THEN U8(buf[i]) ELSE 255]

(* A fragment of at most 6 bytes, padded with 0xff. *)
SEQ_SYSEX(dev, buf) ==
  <<EV_SYSEX, U8(dev)>>
    \o [i \in 1..6 |-> IF i <= Len(buf) THEN U8(buf[i]) ELSE 255]

Events ==
  {SEQ_VOLUME_MODE(dev, mode) : dev \in Dev, mode \in {1, 2}}
  \cup VoiceEvents
  \cup ChannelEvents
  \cup {SEQ_V2_X_CONTROL(dev, voice, ctl, value) :
          dev \in Dev, voice \in Chn, ctl \in {254, 255}, value \in Value}
  \cup {TIMER_EVENT(ev, parm) : ev \in (1..6) \cup {8, 10, 11}, parm \in Ticks}
  \cup {LOCAL_EVENT(1, parm) : parm \in Ticks}
  \cup {SEQ_MIDIOUT(dev, byte) : dev \in Dev, byte \in Note}

PATCHKEY(id) == IF LittleEndian THEN id * 256 + SEQ_FULLSIZE ELSE SEQ_FULLSIZE * 256 + id

(* A patch begins with its key, stored as a short. *)
Patches == {Short(PATCHKEY(id)) \o data : id \in PatchId, data \in Patch}

Init ==
  /\ seqbuf = <<>> /\ fd = <<>> /\ writes = {0}
  /\ sent = <<>> /\ events = {0} /\ sysex = <<>>
  /\ program = "runs"

-----------------------------------------------------------------------------
(* write(seqfd, data): fd and writes afterwards.  Nothing is written when  *)
(* there is nothing to write.                                              *)
Write(data) ==
  /\ fd' = fd \o data
  /\ writes' = writes \cup {Len(fd) + Len(data)}

(* The bytes and the events sent so far, and one more. *)
Record(data) ==
  /\ Len(sent) + Len(data) <= MaxSent
  /\ sent' = sent \o data
  /\ events' = events \cup {Len(sent) + Len(data)}

NeedsDump(len) == Len(seqbuf) + len > seqbuflen

(* Mutant: the buffer is filled to the last byte before it is dumped. *)
StoreFilling(e) ==
  LET all == seqbuf \o e
  IN  IF Len(all) > seqbuflen
        THEN /\ Write(SubSeq(all, 1, seqbuflen))
             /\ seqbuf' = SubSeq(all, seqbuflen + 1, Len(all))
        ELSE /\ seqbuf' = all
             /\ UNCHANGED <<fd, writes>>

(* _SEQ_NEEDBUF, the stores and _SEQ_ADVBUF.  The write may fail: then the *)
(* program ends.                                                           *)
Store(e) ==
  IF NeedsDump(Len(e))
    THEN /\ Write(seqbuf)
         /\ seqbuf' = e
    ELSE /\ seqbuf' = seqbuf \o e
         /\ UNCHANGED <<fd, writes>>

Event(e) ==
  /\ program = "runs" /\ sysex = <<>>
  /\ Record(e)
  /\ Store(e)
  /\ UNCHANGED <<sysex, program>>

(* A message of any length is sent "by calling SEQ_SYSEX() several times   *)
(* (there must be no other events between them)", with fragments of 6.     *)
StartSysex(m) ==
  /\ program = "runs" /\ sysex = <<>>
  /\ sysex' = m
  /\ UNCHANGED <<seqbuf, fd, writes, sent, events, program>>

SysexFragment(dev) ==
  /\ program = "runs" /\ sysex # <<>>
  /\ LET e == SEQ_SYSEX(dev, sysex)
     IN  Record(e) /\ Store(e)
  /\ sysex' = IF Len(sysex) > 6 THEN SubSeq(sysex, 7, Len(sysex)) ELSE <<>>
  /\ UNCHANGED program

SEQ_DUMPBUF ==
  /\ program = "runs" /\ seqbuf # <<>>
  /\ Write(seqbuf)
  /\ seqbuf' = <<>>
  /\ UNCHANGED <<sent, events, sysex, program>>

(* seqbuf_dump in any of the macros: the write returns -1. *)
DumpFails ==
  /\ program = "runs" /\ seqbuf # <<>>
  /\ program' = "exited"
  /\ UNCHANGED <<seqbuf, fd, writes, sent, events, sysex>>

(* Mutant: the patch overtakes the events in the buffer. *)
WritePatchFirst(p) ==
  /\ program = "runs" /\ sysex = <<>>
  /\ Record(p)
  /\ Write(p)
  /\ UNCHANGED <<seqbuf, sysex, program>>

(* Mutant: the events in the buffer and the patch in one write. *)
WritePatchJoined(p) ==
  /\ program = "runs" /\ sysex = <<>>
  /\ Record(p)
  /\ Write(seqbuf \o p)
  /\ seqbuf' = <<>>
  /\ UNCHANGED <<sysex, program>>

(* SEQ_WRPATCH and SEQ_WRPATCH2: dump, then write the patch.  When the     *)
(* second write fails the program goes on, without the patch: then it has  *)
(* done what SEQ_DUMPBUF does.                                             *)
WritePatch(p) ==
  /\ program = "runs" /\ sysex = <<>>
  /\ Record(p)
  /\ fd' = fd \o seqbuf \o p
  /\ writes' = writes \cup {Len(fd) + Len(seqbuf), Len(fd) + Len(seqbuf) + Len(p)}
  /\ seqbuf' = <<>>
  /\ UNCHANGED <<sysex, program>>

Next ==
  \/ \E e \in Events : Event(e)
  \/ \E m \in Sysex : StartSysex(m)
  \/ \E dev \in Dev : SysexFragment(dev)
  \/ SEQ_DUMPBUF \/ DumpFails
  \/ \E p \in Patches : WritePatch(p)

Spec == Init /\ [][Next]_vars

-----------------------------------------------------------------------------
TypeOK ==
  /\ seqbuf \in Seq(Byte) /\ fd \in Seq(Byte) /\ sent \in Seq(Byte)
  /\ writes \subseteq Nat /\ events \subseteq Nat
  /\ sysex \in Seq(Nat)
  /\ program \in {"runs", "exited"}

(* No macro stores beyond the end of _seqbuf, in whatever order events of  *)
(* 4 and of 8 bytes, dumps and patches come.                               *)
InBounds == Len(seqbuf) <= seqbuflen

(* The device gets every byte once and in program order, patches included: *)
(* what it has not got yet is in the buffer.                               *)
InOrder == fd \o seqbuf = sent

(* No event is split between two writes. *)
WholeWrites == writes \subseteq events

(* The event that starts at offset m of sent. *)
Starts == {m \in events : m < Len(sent)}
EndOf(m) == CHOOSE n \in events : n > m /\ \A k \in events : k > m => k >= n

(* "When a SEQ_FULLSIZE message is written to the device, it must be       *)
(* written using exactly one write() call.  Other events cannot be mixed   *)
(* to the same write." (soundcard.h:446)                                   *)
PatchAlone ==
  \A m \in Starts :
    sent[m + 1] = SEQ_FULLSIZE /\ m < Len(fd) =>
      m \in writes /\ EndOf(m) \in writes

(* "Events are records of 4 or 8 bytes.  The first byte defines the size." *)
(* (soundcard.h:310): the device finds the ends of the events the macros   *)
(* have made.                                                              *)
SelfDelimiting ==
  \A m \in Starts :
    sent[m + 1] # SEQ_FULLSIZE =>
      EndOf(m) = m + (IF sent[m + 1] >= 128 THEN 8 ELSE 4)

(* The rules for system exclusive messages (soundcard.h:1163): a fragment  *)
(* without the end marker has 6 bytes and the next event continues it; the *)
(* padding comes after the end marker.                                     *)
SysexRules ==
  \A m \in Starts :
    sent[m + 1] = EV_SYSEX =>
      LET data == SubSeq(sent, m + 3, m + 8)
      IN  \/ /\ \A i \in 1..6 : data[i] \notin {247, 255}
             /\ m + 8 \in Starts => sent[m + 9] = EV_SYSEX
          \/ \E i \in 1..6 :
               /\ data[i] = 247
               /\ \A j \in 1..6 : (j < i => data[j] # 255) /\ (j > i => data[j] = 255)
=============================================================================
