------------------------------ MODULE VirtRing ------------------------------
(***************************************************************************)
(* The split ring of include/linux/virtio_ring.h with VIRTIO_RING_F_EVENT_IDX *)
(* in use.  The Guest makes buffers available, the Host uses them; each    *)
(* side tells the other with a free-running index, and publishes the index *)
(* at which it wants to be woken.  The header gives the layout of the ring *)
(* and vring_need_event, by which each side decides whether to wake the    *)
(* other; what the two sides do with them is external: a driver that       *)
(* submits buffers in one thread and takes them back in a callback, and a  *)
(* device that sleeps when there is nothing to do.  Memory accesses take   *)
(* effect in program order.                                                *)
(***************************************************************************)
EXTENDS Integers

CONSTANTS
  Mod,        \* number of values of an index: 65536 for __u16
  Num,        \* ring sizes
  Align       \* alignments of the used ring

(* "We assume num is a power of 2": it divides Mod. *)
ASSUME ModAssumption == Mod \in Nat /\ Mod > 1
ASSUME NumAssumption == \A n \in Num : n \in Nat /\ 0 < n /\ n < Mod
ASSUME AlignAssumption == \A a \in Align : a \in Nat /\ a > 0

Index == 0..(Mod - 1)

VARIABLES
  vr,                            \* the struct vring
  availIdx, usedEvent,           \* written by the Guest
  usedIdx, availEvent,           \* written by the Host
  pending,                       \* the notifications on their way
  submit, oldAvail, lastUsed,    \* of the Guest: the submitting thread, ...
  callback,                      \* ... the callback
  device, lastAvail, signalled   \* of the Host

guestVars == <<availIdx, usedEvent, submit, oldAvail, lastUsed, callback>>
hostVars  == <<usedIdx, availEvent, device, lastAvail, signalled>>
vars      == <<vr, guestVars, hostVars, pending>>

(* (__u16)(a + b) and (__u16)(a - b) *)
Add16(a, b) == IF a + b < Mod THEN a + b ELSE a + b - Mod
Sub16(a, b) == IF a >= b THEN a - b ELSE a - b + Mod

vring_need_event(event_idx, new_idx, old) ==
  Sub16(Sub16(new_idx, event_idx), 1) < Sub16(new_idx, old)

SizeofDesc == 16      \* struct vring_desc
SizeofUsed == 8       \* struct vring_used_elem
SizeofIdx  == 2       \* __virtio16

(* (x + align - 1) & ~(align - 1), align being a power of two *)
AlignUp(x, align) == ((x + align - 1) \div align) * align

(* Offsets from p, which is aligned.  &avail->ring[i] and &used->ring[i]   *)
(* follow a flags and an idx field.                                        *)
AvailRing(avail, i) == avail + 2 * SizeofIdx + i * SizeofIdx
UsedRing(used, i) == used + 2 * SizeofIdx + i * SizeofUsed

vring_init(num, align) ==
  LET avail == num * SizeofDesc
  IN  [num |-> num, align |-> align, desc |-> 0, avail |-> avail,
       used |-> AlignUp(AvailRing(avail, num) + SizeofIdx, align)]

vring_used_event(r) == AvailRing(r.avail, r.num)
vring_avail_event(r) == UsedRing(r.used, r.num)

(* Mutant: the room for the two event indexes is forgotten. *)
vring_size_old(num, align) ==
  AlignUp(SizeofDesc * num + SizeofIdx * (2 + num), align)
    + SizeofIdx * 2 + SizeofUsed * num

vring_size(num, align) ==
  AlignUp(SizeofDesc * num + SizeofIdx * (3 + num), align)
    + SizeofIdx * 3 + SizeofUsed * num

TypeOK ==
  /\ vr \in {vring_init(n, a) : n \in Num, a \in Align}
  /\ availIdx \in Index /\ usedEvent \in Index
  /\ usedIdx \in Index /\ availEvent \in Index
  /\ pending \subseteq {"kick", "intr"}
  /\ submit \in {"idle", "kick"} /\ oldAvail \in Index
  /\ lastUsed \in Index
  /\ callback \in {"run", "enable", "recheck", "sleep"}
  /\ device \in {"run", "enable", "recheck", "sleep"}
  /\ lastAvail \in Index /\ signalled \in Index

Init ==
  /\ vr \in {vring_init(n, a) : n \in Num, a \in Align}
  /\ availIdx = 0 /\ usedEvent = 0 /\ usedIdx = 0 /\ availEvent = 0
  /\ pending = {}
  /\ submit = "idle" /\ oldAvail = 0 /\ lastUsed = 0 /\ callback = "run"
  /\ device = "run" /\ lastAvail = 0 /\ signalled = 0

InFlight == Sub16(availIdx, lastUsed)

-----------------------------------------------------------------------------
(* The Guest adds n buffers and advances the available index ... *)
AddBuffers(n) ==
  /\ submit = "idle"
  /\ InFlight + n <= vr.num
  /\ availIdx' = Add16(availIdx, n)
  /\ oldAvail' = availIdx
  /\ submit' = "kick"
  /\ UNCHANGED <<vr, usedEvent, lastUsed, callback, hostVars, pending>>

(* ... and then kicks the Host, if the index it asked for is among them. *)
Kick ==
  /\ submit = "kick"
  /\ submit' = "idle"
  /\ IF vring_need_event(availEvent, availIdx, oldAvail)
       THEN pending' = pending \cup {"kick"}
       ELSE UNCHANGED pending
  /\ oldAvail' = 0
  /\ UNCHANGED <<vr, availIdx, usedEvent, lastUsed, callback, hostVars>>

(* Mutant: the callback looks at the used buffer without taking it. *)
PeekBuffer ==
  /\ callback = "run"
  /\ lastUsed # usedIdx
  /\ UNCHANGED vars

(* The callback takes back a used buffer. *)
GetBuffer ==
  /\ callback = "run"
  /\ lastUsed # usedIdx
  /\ lastUsed' = Add16(lastUsed, 1)
  /\ UNCHANGED <<vr, availIdx, usedEvent, submit, oldAvail, callback, hostVars, pending>>

(* None is left: it asks for an interrupt at the next one, looks again and *)
(* sleeps.                                                                 *)
NoneUsed ==
  /\ callback = "run"
  /\ lastUsed = usedIdx
  /\ callback' = "enable"
  /\ UNCHANGED <<vr, availIdx, usedEvent, submit, oldAvail, lastUsed, hostVars, pending>>

(* Mutant: the callback asks for an interrupt one buffer too late. *)
EnableInterruptLate ==
  /\ callback = "enable"
  /\ usedEvent' = Add16(lastUsed, 1)
  /\ callback' = "recheck"
  /\ UNCHANGED <<vr, availIdx, submit, oldAvail, lastUsed, hostVars, pending>>

EnableInterrupt ==
  /\ callback = "enable"
  /\ usedEvent' = lastUsed
  /\ callback' = "recheck"
  /\ UNCHANGED <<vr, availIdx, submit, oldAvail, lastUsed, hostVars, pending>>

GuestRecheck ==
  /\ callback = "recheck"
  /\ callback' = IF lastUsed = usedIdx THEN "sleep" ELSE "run"
  /\ UNCHANGED <<vr, availIdx, usedEvent, submit, oldAvail, lastUsed, hostVars, pending>>

Interrupted ==
  /\ "intr" \in pending
  /\ callback = "sleep"
  /\ pending' = pending \ {"intr"}
  /\ callback' = "run"
  /\ UNCHANGED <<vr, availIdx, usedEvent, submit, oldAvail, lastUsed, hostVars>>

(* The Host uses a buffer.  "we have just incremented index from old to    *)
(* new_idx": it signals before it has gone once around the ring, or the    *)
(* wrapped index would look as if nothing had been used.                   *)
UseBuffer ==
  /\ device = "run"
  /\ lastAvail # availIdx
  /\ Sub16(usedIdx, signalled) < vr.num
  /\ lastAvail' = Add16(lastAvail, 1)
  /\ usedIdx' = Add16(usedIdx, 1)
  /\ UNCHANGED <<vr, guestVars, availEvent, device, signalled, pending>>

(* It interrupts the Guest after one or more of them. *)
Signal ==
  /\ device = "run"
  /\ signalled # usedIdx
  /\ signalled' = usedIdx
  /\ IF vring_need_event(usedEvent, usedIdx, signalled)
       THEN pending' = pending \cup {"intr"}
       ELSE UNCHANGED pending
  /\ UNCHANGED <<vr, guestVars, usedIdx, availEvent, device, lastAvail>>

NoneAvailable ==
  /\ device = "run"
  /\ lastAvail = availIdx
  /\ signalled = usedIdx
  /\ device' = "enable"
  /\ UNCHANGED <<vr, guestVars, usedIdx, availEvent, lastAvail, signalled, pending>>

EnableKick ==
  /\ device = "enable"
  /\ availEvent' = lastAvail
  /\ device' = "recheck"
  /\ UNCHANGED <<vr, guestVars, usedIdx, lastAvail, signalled, pending>>

(* Mutant: the Host sleeps without looking again. *)
HostSleeps ==
  /\ device = "recheck"
  /\ device' = "sleep"
  /\ UNCHANGED <<vr, guestVars, usedIdx, availEvent, lastAvail, signalled, pending>>

HostRecheck ==
  /\ device = "recheck"
  /\ device' = IF lastAvail = availIdx THEN "sleep" ELSE "run"
  /\ UNCHANGED <<vr, guestVars, usedIdx, availEvent, lastAvail, signalled, pending>>

Kicked ==
  /\ "kick" \in pending
  /\ device = "sleep"
  /\ pending' = pending \ {"kick"}
  /\ device' = "run"
  /\ UNCHANGED <<vr, guestVars, usedIdx, availEvent, lastAvail, signalled>>

CallbackStep ==
  GetBuffer \/ NoneUsed \/ EnableInterrupt \/ GuestRecheck \/ Interrupted
HostSleep == NoneAvailable \/ EnableKick \/ HostRecheck \/ Kicked
HostStep == UseBuffer \/ Signal \/ HostSleep

Next ==
  \/ \E n \in 1..vr.num : AddBuffers(n)
  \/ Kick \/ CallbackStep \/ HostStep

Spec == Init /\ [][Next]_vars

(* Both sides run whenever they can; nobody has to submit buffers. *)
FairSpec ==
  Spec /\ WF_vars(Kick) /\ WF_vars(CallbackStep) /\ WF_vars(UseBuffer)
       /\ WF_vars(Signal) /\ WF_vars(HostSleep)

-----------------------------------------------------------------------------
(* The Host never sleeps through a kick it needed: while it is asleep with *)
(* buffers it has not seen, a kick is on its way, or the Guest is about to *)
(* decide on one and vring_need_event will say yes, wherever the indexes   *)
(* have wrapped.                                                           *)
NoLostKick ==
  device = "sleep" /\ lastAvail # availIdx =>
    \/ "kick" \in pending
    \/ submit = "kick" /\ vring_need_event(availEvent, availIdx, oldAvail)

(* Nor does the Guest sleep through an interrupt it needed. *)
NoLostInterrupt ==
  callback = "sleep" /\ lastUsed # usedIdx =>
    \/ "intr" \in pending
    \/ signalled # usedIdx /\ vring_need_event(usedEvent, usedIdx, signalled)

(* Every buffer comes back: a full ring gets room again, and a Guest that  *)
(* waits for buffers in flight is woken.                                   *)
BuffersComeBack == (InFlight = vr.num) ~> (InFlight < vr.num)

(* The parts vring_init lays out fit, without overlap, into the number of  *)
(* bytes vring_size asks for, both event indexes included.                 *)
LayoutFits ==
  /\ vring_used_event(vr) + SizeofIdx <= vr.used
  /\ vr.used % vr.align = 0
  /\ vring_avail_event(vr) + SizeofIdx = vring_size(vr.num, vr.align)
=============================================================================
