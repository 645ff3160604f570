--------------------------- MODULE VirtRingProofs ---------------------------
(* Proofs about VirtRing, for every width of the indexes and ring size. *)
EXTENDS VirtRing, TLAPS

USE DEF guestVars, hostVars, vars

LEMMA Modular ==
  ASSUME NEW a \in Index, NEW b \in Index
  PROVE  /\ Add16(a, b) \in Index
         /\ Sub16(a, b) \in Index
         /\ Sub16(a, b) = 0 <=> a = b
  BY ModAssumption DEF Index, Add16, Sub16

(* vring_need_event says yes exactly when the index the other side asked   *)
(* for is one of those passed in going from old to new_idx, counted around *)
(* the wrap: "if we have just incremented index from old to new_idx,       *)
(* should we trigger an event?"                                            *)
THEOREM NeedEventMeaning ==
  ASSUME NEW event_idx \in Index, NEW new_idx \in Index, NEW old \in Index
  PROVE  vring_need_event(event_idx, new_idx, old) <=>
           \E k \in Index : k < Sub16(new_idx, old) /\ event_idx = Add16(old, k)
<1> USE ModAssumption DEF Index, Add16, Sub16
<1>1. ASSUME vring_need_event(event_idx, new_idx, old)
      PROVE  \E k \in Index : k < Sub16(new_idx, old) /\ event_idx = Add16(old, k)
  <2>1. /\ Sub16(event_idx, old) \in Index
        /\ Sub16(event_idx, old) < Sub16(new_idx, old)
        /\ event_idx = Add16(old, Sub16(event_idx, old))
    BY <1>1 DEF vring_need_event
  <2>2. QED
    BY <2>1, Zenon
<1>2. ASSUME NEW k \in Index, k < Sub16(new_idx, old), event_idx = Add16(old, k)
      PROVE  vring_need_event(event_idx, new_idx, old)
  BY <1>2 DEF vring_need_event
<1>3. QED
  BY <1>1, <1>2, Zenon

(* Going on by one keeps the answer yes, and makes it yes when the index   *)
(* asked for is the one just passed.                                       *)
LEMMA NeedEventGrows ==
  ASSUME NEW event_idx \in Index, NEW new_idx \in Index, NEW old \in Index,
         Sub16(new_idx, old) + 1 < Mod,
         event_idx = new_idx \/ vring_need_event(event_idx, new_idx, old)
  PROVE  vring_need_event(event_idx, Add16(new_idx, 1), old)
  BY ModAssumption DEF Index, Add16, Sub16, vring_need_event

LEMMA NeedEventAtOld ==
  ASSUME NEW new_idx \in Index, NEW old \in Index, new_idx # old
  PROVE  vring_need_event(old, new_idx, old)
  BY ModAssumption DEF Index, Sub16, vring_need_event

-----------------------------------------------------------------------------
(* A side that is about to sleep, or asleep, has asked for the index it is *)
(* at; if it is asleep and behind, the other side has yet to decide.       *)
KickInv ==
  /\ submit = "kick" => availIdx # oldAvail
  /\ device \in {"recheck", "sleep"} => availEvent = lastAvail
  /\ device = "sleep" => \/ lastAvail = availIdx
                         \/ "kick" \in pending
                         \/ submit = "kick" /\ oldAvail = lastAvail

IntrInv ==
  /\ Sub16(usedIdx, signalled) <= vr.num
  /\ callback \in {"recheck", "sleep"} => usedEvent = lastUsed
  /\ callback = "sleep" => \/ lastUsed = usedIdx
                           \/ "intr" \in pending
                           \/ vring_need_event(usedEvent, usedIdx, signalled)

IInv == TypeOK /\ KickInv /\ IntrInv

LEMMA RingSize ==
  ASSUME TypeOK
  PROVE  vr.num \in Nat /\ 0 < vr.num /\ vr.num < Mod
  BY NumAssumption DEF TypeOK, vring_init

LEMMA IndexFacts == 0 \in Index /\ 1 \in Index /\ Index \subseteq Nat
  BY ModAssumption DEF Index

LEMMA OneNotified ==
  ASSUME NEW p, NEW q, p \subseteq {"kick", "intr"},
         q = p \/ q = p \cup {"kick"} \/ q = p \cup {"intr"}
  PROVE  q \subseteq {"kick", "intr"}
  BY Zenon

LEMMA RingInit == Init => IInv
<1> SUFFICES ASSUME Init PROVE IInv
  BY Zenon
<1>1. TypeOK
  BY IndexFacts DEF Init, TypeOK
<1>2. Sub16(usedIdx, signalled) = 0
  BY IndexFacts, Modular, Zenon DEF Init
<1>3. vr.num \in Nat
  BY <1>1, RingSize, Zenon
<1>4. KickInv
  BY Zenon DEF Init, KickInv
<1>5. IntrInv
  BY <1>2, <1>3 DEF Init, IntrInv
<1>6. QED
  BY <1>1, <1>4, <1>5, Zenon DEF IInv

LEMMA RingStep == IInv /\ [Next]_vars => IInv'
<1> SUFFICES ASSUME IInv, [Next]_vars PROVE IInv'
  BY Zenon
<1> USE IndexFacts, Modular, RingSize DEF IInv, TypeOK
<1>1. ASSUME NEW n \in 1..vr.num, AddBuffers(n) PROVE IInv'
  <2>1. n \in Index /\ n # 0
    BY <1>1, ModAssumption DEF AddBuffers, InFlight, Index
  <2>2. Add16(availIdx, n) # availIdx
    BY <2>1, ModAssumption DEF Add16, Index
  <2>3. TypeOK'
    BY <1>1, <2>1 DEF AddBuffers
  <2>4. KickInv'
    BY <1>1, <2>2 DEF AddBuffers, KickInv
  <2>5. IntrInv'
    BY <1>1 DEF AddBuffers, IntrInv
  <2>6. QED
    BY <2>3, <2>4, <2>5
<1>2. CASE Kick
  <2>1. TypeOK'
    <3>1. pending' = pending \/ pending' = pending \cup {"kick"}
      BY <1>2, Zenon DEF Kick
    <3>2. pending' \subseteq {"kick", "intr"}
      <4>1. pending \subseteq {"kick", "intr"}
        OBVIOUS
      <4> HIDE IndexFacts, Modular, RingSize DEF IInv, TypeOK
      <4>2. QED
        BY <3>1, <4>1, OneNotified, Zenon
    <3>3. QED
      BY <1>2, <3>2 DEF Kick
  <2>2. KickInv'
    <3>1. ASSUME device = "sleep", oldAvail = lastAvail PROVE "kick" \in pending'
      BY <1>2, <3>1, NeedEventAtOld DEF Kick, KickInv
    <3>2. "kick" \in pending => "kick" \in pending'
      BY <1>2, Zenon DEF Kick
    <3>3. UNCHANGED <<device, availEvent, lastAvail, availIdx>> /\ submit' = "idle"
      BY <1>2, Zenon DEF Kick
    <3>4. QED
      BY <3>1, <3>2, <3>3 DEF KickInv
  <2>3. IntrInv'
    BY <1>2 DEF Kick, IntrInv
  <2>4. QED
    BY <2>1, <2>2, <2>3
<1>3. CASE GetBuffer
  BY <1>3 DEF GetBuffer, KickInv, IntrInv
<1>4. CASE NoneUsed
  BY <1>4 DEF NoneUsed, KickInv, IntrInv
<1>5. CASE EnableInterrupt
  BY <1>5 DEF EnableInterrupt, KickInv, IntrInv
<1>6. CASE GuestRecheck
  BY <1>6 DEF GuestRecheck, KickInv, IntrInv
<1>7. CASE Interrupted
  <2>1. TypeOK' /\ KickInv'
    BY <1>7 DEF Interrupted, KickInv
  <2>2. IntrInv'
    BY <1>7 DEF Interrupted, IntrInv
  <2>3. QED
    BY <2>1, <2>2
<1>8. CASE UseBuffer
  <2>1. TypeOK'
    BY <1>8 DEF UseBuffer
  <2>2. KickInv'
    BY <1>8 DEF UseBuffer, KickInv
  <2>3. Sub16(usedIdx, signalled) + 1 < Mod /\ Sub16(usedIdx, signalled) + 1 <= vr.num
    <3>1. Sub16(usedIdx, signalled) \in Nat
      <4>1. usedIdx \in Index /\ signalled \in Index
        OBVIOUS
      <4> HIDE IndexFacts, Modular, RingSize DEF IInv, TypeOK
      <4>2. Sub16(usedIdx, signalled) \in Index
        BY <4>1, Modular, Zenon
      <4>3. QED
        BY <4>2, IndexFacts, Zenon
    <3>4. vr.num \in Nat /\ vr.num < Mod
      BY RingSize
    <3>2. Sub16(usedIdx, signalled) < vr.num
      BY <1>8, Zenon DEF UseBuffer
    <3> HIDE DEF IInv, TypeOK
    <3>3. QED
      BY <3>1, <3>2, <3>4, ModAssumption
  <2>4. Sub16(Add16(usedIdx, 1), signalled) = Sub16(usedIdx, signalled) + 1
    BY <2>3, ModAssumption DEF Sub16, Add16, Index
  <2>5. ASSUME callback = "sleep"
        PROVE  "intr" \in pending \/ vring_need_event(usedEvent, Add16(usedIdx, 1), signalled)
    BY <2>3, <2>5, NeedEventGrows DEF IntrInv
  <2>6. IntrInv'
    BY <1>8, <2>3, <2>4, <2>5 DEF UseBuffer, IntrInv
  <2>7. QED
    BY <2>1, <2>2, <2>6
<1>9. CASE Signal
  <2>1. TypeOK'
    <3>1. pending' = pending \/ pending' = pending \cup {"intr"}
      BY <1>9, Zenon DEF Signal
    <3>2. pending' \subseteq {"kick", "intr"}
      <4>1. pending \subseteq {"kick", "intr"}
        OBVIOUS
      <4> HIDE IndexFacts, Modular, RingSize DEF IInv, TypeOK
      <4>2. QED
        BY <3>1, <4>1, OneNotified, Zenon
    <3>3. QED
      BY <1>9, <3>2 DEF Signal
  <2>2. KickInv'
    BY <1>9 DEF Signal, KickInv
  <2>3. Sub16(usedIdx, signalled)' = 0
    BY <1>9 DEF Signal
  <2>4. IntrInv'
    BY <1>9, <2>3 DEF Signal, IntrInv
  <2>5. QED
    BY <2>1, <2>2, <2>4
<1>10. CASE NoneAvailable
  BY <1>10 DEF NoneAvailable, KickInv, IntrInv
<1>11. CASE EnableKick
  BY <1>11 DEF EnableKick, KickInv, IntrInv
<1>12. CASE HostRecheck
  BY <1>12 DEF HostRecheck, KickInv, IntrInv
<1>13. CASE Kicked
  <2>1. TypeOK' /\ IntrInv'
    BY <1>13 DEF Kicked, IntrInv
  <2>2. KickInv'
    BY <1>13 DEF Kicked, KickInv
  <2>3. QED
    BY <2>1, <2>2
<1>14. CASE UNCHANGED vars
  BY <1>14 DEF KickInv, IntrInv
<1>15. QED
  <2> HIDE IndexFacts, Modular, RingSize DEF IInv, TypeOK
  <2>1. CASE CallbackStep
    BY <1>3, <1>4, <1>5, <1>6, <1>7, <2>1, Zenon DEF CallbackStep
  <2>2. CASE HostStep
    BY <1>8, <1>9, <1>10, <1>11, <1>12, <1>13, <2>2, Zenon DEF HostStep, HostSleep
  <2>3. QED
    BY <1>1, <1>2, <1>14, <2>1, <2>2, Zenon DEF Next

LEMMA RingInvariant == Spec => []IInv
  BY RingInit, RingStep, PTL DEF Spec

(* No kick the Host needs is ever left out. *)
THEOREM KicksNotLost == Spec => []NoLostKick
<1>1. IInv => NoLostKick
  BY NeedEventAtOld DEF IInv, TypeOK, KickInv, NoLostKick
<1>2. QED
  BY <1>1, RingInvariant, PTL

(* No interrupt the Guest needs is ever left out. *)
THEOREM InterruptsNotLost == Spec => []NoLostInterrupt
<1>1. IInv => NoLostInterrupt
  <2> SUFFICES ASSUME IInv, callback = "sleep", lastUsed # usedIdx, "intr" \notin pending
               PROVE  signalled # usedIdx /\ vring_need_event(usedEvent, usedIdx, signalled)
    BY Zenon DEF NoLostInterrupt
  <2>1. vring_need_event(usedEvent, usedIdx, signalled)
    BY Zenon DEF IInv, IntrInv
  <2>2. ASSUME signalled = usedIdx PROVE FALSE
    <3>1. usedIdx \in Index /\ usedEvent \in Index /\ 1 \in Index
      BY IndexFacts DEF IInv, TypeOK
    <3>2. Sub16(Sub16(usedIdx, usedEvent), 1) \in Nat /\ Sub16(usedIdx, signalled) = 0
      BY <2>2, <3>1, Modular, IndexFacts, Zenon
    <3>3. QED
      BY <2>1, <3>2 DEF vring_need_event
  <2>3. QED
    BY <2>1, <2>2, Zenon
<1>2. QED
  BY <1>1, RingInvariant, PTL
(* Rounding up to a multiple. *)
LEMMA AlignUpFacts ==
  ASSUME NEW x \in Nat, NEW a \in Nat, a > 0
  PROVE  /\ AlignUp(x, a) \in Nat
         /\ AlignUp(x, a) >= x
         /\ AlignUp(x, a) % a = 0
<1> DEFINE q == (x + a - 1) \div a
           r == (x + a - 1) % a
<1>1. q \in Nat /\ r \in 0..(a - 1) /\ x + a - 1 = a * q + r
  OBVIOUS
<1>2. AlignUp(x, a) = q * a
  BY Zenon DEF AlignUp
<1>3. q * a = a * q /\ q * a \in Nat
  BY <1>1
<1>4. q * a >= x
  BY <1>1, <1>3
<1>5. (q * a) % a = 0
  BY <1>1
<1>6. QED
  BY <1>2, <1>3, <1>4, <1>5, Zenon

(* What vring_init lays out fits into vring_size bytes without overlap,    *)
(* for every ring size and alignment.                                      *)
THEOREM LayoutAlwaysFits == Spec => []LayoutFits
<1>1. ASSUME NEW n \in Num, NEW a \in Align, vr = vring_init(n, a)
      PROVE  LayoutFits
  <2> DEFINE x == 18 * n + 6
  <2>1. n \in Nat /\ a \in Nat /\ a > 0 /\ x \in Nat
    BY NumAssumption, AlignAssumption
  <2>2. /\ AvailRing(n * SizeofDesc, n) + SizeofIdx = x
        /\ SizeofDesc * n + SizeofIdx * (3 + n) = x
    BY <2>1 DEF AvailRing, SizeofDesc, SizeofIdx
  <2>3. /\ vr.num = n /\ vr.align = a /\ vr.avail = n * SizeofDesc
        /\ vr.used = AlignUp(x, a)
    BY <1>1, <2>2, Zenon DEF vring_init
  <2>4. AlignUp(x, a) \in Nat /\ AlignUp(x, a) >= x /\ AlignUp(x, a) % a = 0
    BY <2>1, AlignUpFacts, Zenon
  <2>5. vring_used_event(vr) + SizeofIdx = x
    BY <2>2, <2>3, Zenon DEF vring_used_event
  <2>6. vring_avail_event(vr) + SizeofIdx = AlignUp(x, a) + 6 + 8 * n
    BY <2>1, <2>3, <2>4 DEF vring_avail_event, UsedRing, SizeofIdx, SizeofUsed
  <2>7. vring_size(n, a) = AlignUp(x, a) + 6 + 8 * n
    BY <2>1, <2>2, <2>4 DEF vring_size, SizeofIdx, SizeofUsed
  <2>8. QED
    BY <2>3, <2>4, <2>5, <2>6, <2>7, Zenon DEF LayoutFits
<1>2. IInv => LayoutFits
  BY <1>1 DEF IInv, TypeOK
<1>3. QED
  BY <1>2, RingInvariant, PTL

(* The indexes stay 16 bit numbers and the ring the one vring_init made.   *)
THEOREM RingTypes == Spec => []TypeOK
<1>1. IInv => TypeOK
  BY Zenon DEF IInv
<1>2. QED
  BY <1>1, RingInvariant, PTL
=============================================================================
