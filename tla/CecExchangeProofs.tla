------------------------- MODULE CecExchangeProofs --------------------------
(***************************************************************************)
(* A struct cec_msg that is used again and again: for every set of calls,  *)
(* with whatever operands, every pair of addresses and anything the struct *)
(* held before.                                                            *)
(***************************************************************************)
EXTENDS CecExchange, TLAPS

(* The struct keeps its members, and msg[0] its two addresses. *)
Shape ==
  /\ DOMAIN msg = {"b", "len", "reply", "timeout"}
  /\ DOMAIN msg.b = 0..15
  /\ msg.b[0] \in 0..255

(* A struct that has just been initialised is not an answer. *)
Answers == phase = "ready" => orig = <<>>

ExchangeInv ==
  /\ Shape /\ Answers
  /\ AnswerGoesBack

-----------------------------------------------------------------------------
(* The addresses of a byte, and the byte of two addresses. *)
LEMMA Halves ==
  ASSUME NEW x \in 0..15, NEW y \in 0..15
  PROVE  x * 16 + y \in 0..255 /\ (x * 16 + y) \div 16 = x /\ (x * 16 + y) % 16 = y
OBVIOUS

LEMMA Split ==
  ASSUME NEW b \in 0..255
  PROVE  b \div 16 \in 0..15 /\ b % 16 \in 0..15
OBVIOUS

(* A packing function sets reply only when it is asked to, or leaves it,   *)
(* and the operands it stores are behind the opcode.                       *)
LEMMA PackedFrame ==
  ASSUME NEW op \in Ops, NEW reply \in BOOLEAN, NEW fields
  PROVE  /\ Packed(op, reply, fields).reply \in {Left, 0} \/ reply
         /\ Packed(op, reply, fields).at \in {2, 4}
<1>1. CASE op \in DOMAIN Table
  BY <1>1 DEF Packed, TableFrame, Frame, IfReply
<1>2. CASE op \notin DOMAIN Table
  <2>1. op \in {"record_on", "timer_status", "set_timer_program_title", "set_osd_name",
                "set_osd_string", "vendor_command", "vendor_remote_button_down",
                "vendor_command_with_id", "report_features", "tuner_device_status",
                "user_control_pressed", "system_audio_mode_request",
                "report_short_audio_descriptor", "request_short_audio_descriptor",
                "report_current_latency", "cdc_hec_report_state", "cdc_hec_set_state"}
    BY <1>2 DEF Ops, Others, OtherCDC
  <2>. QED
    BY <1>2, <2>1
    DEF Packed, Frame, IfReply, TextFrame, cec_msg_record_on, cec_msg_timer_status,
        cec_msg_report_features, cec_msg_tuner_device_status,
        cec_msg_user_control_pressed, cec_msg_system_audio_mode_request,
        cec_msg_report_short_audio_descriptor, cec_msg_request_short_audio_descriptor,
        cec_msg_report_current_latency, cec_msg_cdc_hec_report_state,
        cec_msg_cdc_hec_set_state
<1>. QED BY <1>1, <1>2

-----------------------------------------------------------------------------
(* The steps on the struct. *)
LEMMA InitStep ==
  ASSUME NEW a \in Addresses, cec_msg_init(a[1], a[2])
  PROVE  ExchangeInv'
<1>1. a[1] \in 0..15 /\ a[2] \in 0..15
  BY AddressAssumption
<1>2. a[1] * 16 + a[2] \in 0..255
  BY <1>1, Halves
<1>3. /\ msg' = [NoMsg EXCEPT !.b[0] = a[1] * 16 + a[2], !.len = 1]
      /\ phase' = "ready" /\ orig' = <<>>
  BY Zenon DEF cec_msg_init
<1>4. Shape'
  <2>1. PICK k \in 0..255 : k = a[1] * 16 + a[2]
    BY <1>2, Zenon
  <2>2. msg' = [b |-> [[i \in 0..15 |-> 0] EXCEPT ![0] = k], len |-> 1, reply |-> 0, timeout |-> 0]
    BY <1>3, <2>1 DEF NoMsg
  <2>. QED
    BY <2>2 DEF Shape
<1>5. Answers' /\ AnswerGoesBack'
  BY <1>3, Zenon DEF Answers, AnswerGoesBack
<1>. QED
  BY <1>4, <1>5, Zenon DEF ExchangeInv

LEMMA BuildStep ==
  ASSUME ExchangeInv, NEW c \in Calls, Build(c)
  PROVE  ExchangeInv'
<1>. DEFINE f == Packed(c.op, c.reply, c.fields)
           hi == msg.b[0] \div 16
           lo == msg.b[0] % 16
<1>1. (f.reply \in {Left, 0} \/ c.reply) /\ f.at \in {2, 4}
  BY CallAssumption, PackedFrame
<1>2. hi \in 0..15 /\ lo \in 0..15 /\ msg.b[0] \in 0..255
  BY Split DEF ExchangeInv, Shape
<1>3. /\ msg' = Store(msg, f) /\ call' = c /\ phase' = "built" /\ orig' = orig
      /\ phase \in {"ready", "answering"}
  BY DEF Build
<1>. HIDE DEF f
<1>4. msg'.b[0] = IF f.bcast THEN hi * 16 + 15 ELSE msg.b[0]
  <2>1. 0 - f.at \notin 0..(Len(f.bytes) - 1)
    BY <1>1
  <2>2. msg'.b[0] = IF f.bcast THEN cec_msg_initiator(msg) * 16 + 15 ELSE msg.b[0]
    BY <1>3, <2>1 DEF Store, ExchangeInv, Shape
  <2>. QED BY <2>2 DEF cec_msg_initiator
<1>5. hi * 16 + 15 \in 0..255 /\ (hi * 16 + 15) \div 16 = hi /\ (hi * 16 + 15) % 16 = 15
  BY <1>2, 15 \in 0..15, Halves
<1>6. msg'.b[0] \in 0..255 /\ msg'.b[0] \div 16 = hi /\ (f.bcast => msg'.b[0] % 16 = 15)
  BY <1>2, <1>4, <1>5
<1>7. msg'.reply = (IF f.reply = Left THEN msg.reply ELSE f.reply) /\ msg'.timeout = msg.timeout
  BY <1>3 DEF Store, ExchangeInv, Shape
<1>8. Shape'
  BY <1>3, <1>6, Zenon DEF Store, ExchangeInv, Shape
<1>9. AnswerGoesBack'
  <2>. SUFFICES ASSUME orig' # <<>> PROVE AnswerGoesBack'
    BY DEF AnswerGoesBack
  <2>1. phase = "answering" /\ orig # <<>>
    BY <1>3 DEF ExchangeInv, Answers
  <2>2. /\ hi = orig[1] % 16 /\ lo \in {orig[1] \div 16, 15}
        /\ lo = orig[1] \div 16 /\ msg.reply = 0 /\ msg.timeout = 0
    BY <2>1 DEF ExchangeInv, AnswerGoesBack, cec_msg_initiator, cec_msg_destination
  <2>3. msg'.b[0] % 16 # orig[1] \div 16 => f.bcast
    BY <1>4, <2>2
  <2>4. msg'.b[0] % 16 \in {orig[1] \div 16, 15}
    BY <1>4, <1>6, <2>2, Zenon
  <2>5. msg'.reply # 0 => c.reply
    BY <1>1, <1>7, <2>2
  <2>. QED
    BY <1>3, <1>6, <1>7, <2>2, <2>3, <2>4, <2>5, Zenon
    DEF AnswerGoesBack, cec_msg_initiator, cec_msg_destination, f
<1>. QED
  BY <1>3, <1>8, <1>9 DEF ExchangeInv, Answers

LEMMA DeliverStep ==
  ASSUME ExchangeInv, NEW n \in 1..msg.len, NEW stale \in Stale, Deliver(n, stale)
  PROVE  ExchangeInv'
<1>1. n >= 1 /\ n \in Int
  OBVIOUS
<1>2. msg'.b[0] = msg.b[0]
  BY <1>1 DEF Deliver, ExchangeInv, Shape
<1>. QED
  BY <1>2, Zenon DEF Deliver, ExchangeInv, Shape, Answers, AnswerGoesBack

LEMMA SwapStep ==
  ASSUME ExchangeInv
  PROVE  LET m == cec_msg_set_reply_to(msg)
         IN  /\ DOMAIN m = {"b", "len", "reply", "timeout"} /\ m.reply = 0 /\ m.timeout = 0
             /\ DOMAIN m.b = 0..15
             /\ m.b[0] \in 0..255
             /\ m.b[0] \div 16 = msg.b[0] % 16
             /\ m.b[0] % 16 = msg.b[0] \div 16
<1>. DEFINE m == cec_msg_set_reply_to(msg)
           hi == msg.b[0] \div 16
           lo == msg.b[0] % 16
<1>1. hi \in 0..15 /\ lo \in 0..15
  BY Split DEF ExchangeInv, Shape
<1>2. m.b[0] = lo * 16 + hi
  BY DEF cec_msg_set_reply_to, ExchangeInv, Shape, cec_msg_initiator, cec_msg_destination
<1>3. /\ DOMAIN m = {"b", "len", "reply", "timeout"} /\ m.reply = 0 /\ m.timeout = 0
      /\ DOMAIN m.b = 0..15
  BY DEF cec_msg_set_reply_to, ExchangeInv, Shape
<1>. HIDE DEF m
<1>. HIDE DEF hi, lo
<1>4. m.b[0] \in 0..255 /\ m.b[0] \div 16 = lo /\ m.b[0] % 16 = hi
  BY <1>1, <1>2, Halves
<1>. QED
  BY <1>3, <1>4 DEF m, hi, lo

LEMMA AnswerStep ==
  ASSUME ExchangeInv, Answer
  PROVE  ExchangeInv'
<1>. DEFINE m == cec_msg_set_reply_to(msg)
<1>1. /\ DOMAIN m = {"b", "len", "reply", "timeout"} /\ m.reply = 0 /\ m.timeout = 0
      /\ DOMAIN m.b = 0..15
      /\ m.b[0] \in 0..255
      /\ m.b[0] \div 16 = msg.b[0] % 16
      /\ m.b[0] % 16 = msg.b[0] \div 16
  BY SwapStep
<1>2. msg' = m /\ orig' = <<msg.b[0], msg.b[1]>> /\ phase' = "answering"
  BY DEF Answer
<1>. HIDE DEF m
<1>. QED
  BY <1>1, <1>2 DEF ExchangeInv, Shape, Answers, AnswerGoesBack, cec_msg_initiator,
                    cec_msg_destination

LEMMA AbortStep ==
  ASSUME ExchangeInv, NEW reason, Abort(reason)
  PROVE  ExchangeInv' /\ AbortNamesMessage'
<1>. DEFINE m == cec_msg_set_reply_to(msg)
<1>1. /\ DOMAIN m = {"b", "len", "reply", "timeout"} /\ m.reply = 0 /\ m.timeout = 0
      /\ DOMAIN m.b = 0..15
      /\ m.b[0] \in 0..255
      /\ m.b[0] \div 16 = msg.b[0] % 16
      /\ m.b[0] % 16 = msg.b[0] \div 16
  BY SwapStep
<1>2. /\ msg' = [m EXCEPT !.len = 4, !.b[2] = msg.b[1], !.b[3] = reason, !.b[1] = \h00]
      /\ orig' = <<msg.b[0], msg.b[1]>> /\ phase' = "aborted"
  BY DEF Abort, cec_msg_reply_feature_abort
<1>. HIDE DEF m
<1>3. /\ DOMAIN msg' = {"b", "len", "reply", "timeout"} /\ DOMAIN msg'.b = 0..15
      /\ msg'.len = 4 /\ msg'.reply = 0 /\ msg'.timeout = 0
      /\ msg'.b[0] = m.b[0] /\ msg'.b[1] = \h00 /\ msg'.b[2] = msg.b[1]
  BY <1>1, <1>2
<1>4. AbortNamesMessage'
  BY <1>2, <1>3 DEF AbortNamesMessage, cec_msg_opcode, At
<1>. QED
  BY <1>1, <1>2, <1>3, <1>4
  DEF ExchangeInv, Shape, Answers, AnswerGoesBack, cec_msg_initiator, cec_msg_destination

-----------------------------------------------------------------------------
(* A status with OK among the bits of the transmit is that of a message    *)
(* that was acknowledged; a reply is served when it is received and is no  *)
(* Feature Abort.                                                          *)
LEMMA SentTruth ==
  ASSUME NEW s \in Sent
  PROVE  s.acked \in BOOLEAN /\ s.bits # {} /\ ("OK" \in s.bits <=> s.acked)
<1>1. CASE s \in {[bits |-> {"OK"}, acked |-> TRUE],
                 [bits |-> {"NACK", "OK"}, acked |-> TRUE],
                 [bits |-> {"ARB_LOST", "OK"}, acked |-> TRUE]}
  <2>1. s.acked = TRUE BY <1>1
  <2>2. "OK" \in s.bits BY <1>1
  <2>. QED BY <2>1, <2>2, Zenon
<1>2. CASE s \in {[bits |-> {"NACK", "MAX_RETRIES"}, acked |-> FALSE],
                 [bits |-> {"ARB_LOST", "LOW_DRIVE", "MAX_RETRIES"}, acked |-> FALSE],
                 [bits |-> {"ERROR"}, acked |-> FALSE],
                 [bits |-> {"ABORTED"}, acked |-> FALSE],
                 [bits |-> {"TIMEOUT"}, acked |-> FALSE]}
  <2>1. s.acked = FALSE BY <1>2
  <2>2. "OK" \notin s.bits BY <1>2
  <2>3. s.bits # {} BY <1>2
  <2>. QED BY <2>1, <2>2, <2>3, Zenon
<1>. QED BY <1>1, <1>2 DEF Sent

LEMMA RepliesTruth ==
  ASSUME NEW r \in Replies
  PROVE  /\ r.served \in BOOLEAN /\ r.bits # {}
         /\ "OK" \in r.bits /\ "FEATURE_ABORT" \notin r.bits <=> r.served
<1>1. CASE r = [bits |-> {"OK"}, served |-> TRUE]
  BY <1>1
<1>2. CASE r \in {[bits |-> {"OK", "FEATURE_ABORT"}, served |-> FALSE],
                 [bits |-> {"TIMEOUT"}, served |-> FALSE],
                 [bits |-> {"ABORTED"}, served |-> FALSE]}
  <2>1. r.served = FALSE BY <1>2
  <2>2. "OK" \notin r.bits \/ "FEATURE_ABORT" \in r.bits BY <1>2
  <2>3. r.bits # {} BY <1>2
  <2>. QED BY <2>1, <2>2, <2>3, Zenon
<1>. QED BY <1>1, <1>2 DEF Replies

LEMMA TransmitStep ==
  ASSUME Transmit
  PROVE  StatusTruth'
<1>1. PICK s \in Sent :
        IF s.acked /\ msg.reply # 0
          THEN \E r \in Replies :
                 status' = [tx |-> s.bits, rx |-> r.bits, success |-> r.served]
          ELSE status' = [tx |-> s.bits, rx |-> {}, success |-> s.acked]
  BY DEF Transmit
<1>2. s.acked \in BOOLEAN /\ s.bits # {} /\ ("OK" \in s.bits <=> s.acked)
  BY SentTruth
<1>3. CASE s.acked /\ msg.reply # 0
  <2>1. PICK r \in Replies : status' = [tx |-> s.bits, rx |-> r.bits, success |-> r.served]
    BY <1>1, <1>3
  <2>2. /\ r.served \in BOOLEAN /\ r.bits # {}
        /\ "OK" \in r.bits /\ "FEATURE_ABORT" \notin r.bits <=> r.served
    BY RepliesTruth
  <2>3. cec_msg_status_is_ok(status') <=> r.served
    BY <1>2, <1>3, <2>1, <2>2 DEF cec_msg_status_is_ok
  <2>4. cec_msg_status_is_ok(status') \in BOOLEAN
    BY DEF cec_msg_status_is_ok
  <2>. QED
    BY <2>1, <2>2, <2>3, <2>4 DEF StatusTruth
<1>4. CASE ~(s.acked /\ msg.reply # 0)
  <2>1. status' = [tx |-> s.bits, rx |-> {}, success |-> s.acked]
    BY <1>1, <1>4
  <2>2. cec_msg_status_is_ok(status') <=> s.acked
    BY <1>2, <2>1 DEF cec_msg_status_is_ok
  <2>3. cec_msg_status_is_ok(status') \in BOOLEAN
    BY DEF cec_msg_status_is_ok
  <2>. QED
    BY <1>2, <2>1, <2>2, <2>3 DEF StatusTruth
<1>. QED BY <1>3, <1>4

LEMMA ReceiveStep ==
  ASSUME Receive
  PROVE  StatusTruth'
<1>1. CASE status' = [tx |-> {}, rx |-> {"OK"}, success |-> TRUE]
  BY <1>1 DEF StatusTruth, cec_msg_status_is_ok
<1>2. CASE status' = [tx |-> {}, rx |-> {"TIMEOUT"}, success |-> FALSE]
  BY <1>2 DEF StatusTruth, cec_msg_status_is_ok
<1>. QED BY <1>1, <1>2 DEF Receive

-----------------------------------------------------------------------------
LEMMA InitInv == Init => ExchangeInv /\ AbortNamesMessage /\ StatusTruth
<1>. SUFFICES ASSUME Init PROVE ExchangeInv /\ AbortNamesMessage /\ StatusTruth
  OBVIOUS
<1>1. ExchangeInv
  BY DEF Init, NoMsg, ExchangeInv, Shape, Answers, AnswerGoesBack
<1>2. AbortNamesMessage /\ StatusTruth
  BY DEF Init, AbortNamesMessage, StatusTruth
<1>. QED BY <1>1, <1>2

LEMMA StepInv ==
  ExchangeInv /\ AbortNamesMessage /\ StatusTruth /\ [Next]_vars
    => ExchangeInv' /\ AbortNamesMessage' /\ StatusTruth'
<1>. SUFFICES ASSUME ExchangeInv, AbortNamesMessage, StatusTruth, [Next]_vars
              PROVE  ExchangeInv' /\ AbortNamesMessage' /\ StatusTruth'
  OBVIOUS
<1>1. ASSUME NEW a \in Addresses, cec_msg_init(a[1], a[2])
      PROVE  ExchangeInv' /\ AbortNamesMessage' /\ StatusTruth'
  <2>1. phase' = "ready" BY <1>1 DEF cec_msg_init
  <2>. QED BY <1>1, <2>1, InitStep DEF AbortNamesMessage, StatusTruth
<1>2. ASSUME NEW c \in Calls, Build(c)
      PROVE  ExchangeInv' /\ AbortNamesMessage' /\ StatusTruth'
  <2>1. phase' = "built" BY <1>2 DEF Build
  <2>. QED BY <1>2, <2>1, BuildStep DEF AbortNamesMessage, StatusTruth
<1>3. ASSUME NEW n \in 1..msg.len, NEW stale \in Stale, Deliver(n, stale)
      PROVE  ExchangeInv' /\ AbortNamesMessage' /\ StatusTruth'
  <2>1. phase' = "received" BY <1>3 DEF Deliver
  <2>. QED BY <1>3, <2>1, DeliverStep DEF AbortNamesMessage, StatusTruth
<1>4. CASE Decode
  <2>1. phase' = "decoded" /\ msg' = msg /\ orig' = orig BY <1>4 DEF Decode
  <2>. QED
    BY <2>1 DEF AbortNamesMessage, StatusTruth, ExchangeInv, Shape, Answers, AnswerGoesBack
<1>5. CASE Answer
  <2>1. phase' = "answering" BY <1>5 DEF Answer
  <2>. QED BY <1>5, <2>1, AnswerStep DEF AbortNamesMessage, StatusTruth
<1>6. ASSUME NEW reason \in {0, 4}, Abort(reason)
      PROVE  ExchangeInv' /\ AbortNamesMessage' /\ StatusTruth'
  <2>1. phase' = "aborted" BY <1>6 DEF Abort
  <2>. QED BY <1>6, <2>1, AbortStep DEF StatusTruth
<1>7. CASE Transmit \/ Receive
  <2>1. phase' = "done" /\ msg' = msg /\ orig' = orig BY <1>7 DEF Transmit, Receive
  <2>2. StatusTruth' BY <1>7, TransmitStep, ReceiveStep
  <2>. QED
    BY <2>1, <2>2 DEF AbortNamesMessage, ExchangeInv, Shape, Answers, AnswerGoesBack
<1>8. CASE UNCHANGED vars
  <2>1. UNCHANGED <<msg, call, orig, phase, got, status>>
    BY <1>8, Zenon DEF vars
  <2>2. Shape' /\ Answers'
    BY <2>1, Zenon DEF ExchangeInv, Shape, Answers
  <2>3. AnswerGoesBack'
    BY <2>1, Zenon DEF ExchangeInv, AnswerGoesBack, cec_msg_initiator, cec_msg_destination
  <2>4. AbortNamesMessage'
    BY <2>1, Zenon DEF AbortNamesMessage, cec_msg_opcode, At
  <2>5. StatusTruth'
    BY <2>1, Zenon DEF StatusTruth, cec_msg_status_is_ok
  <2>. QED
    BY <2>2, <2>3, <2>4, <2>5, Zenon DEF ExchangeInv
<1>. QED
  BY <1>1, <1>2, <1>3, <1>4, <1>5, <1>6, <1>7, <1>8 DEF Next

LEMMA InvHolds == Spec => [](ExchangeInv /\ AbortNamesMessage /\ StatusTruth)
BY InitInv, StepInv, PTL DEF Spec

(* A message answered or aborted in place goes back to where it came from, *)
(* from the address it was sent to, and waits for a reply only when the    *)
(* function that built it was told to (cec_msg_set_reply_to).              *)
THEOREM AnswersGoBack == Spec => []AnswerGoesBack
<1>1. ExchangeInv => AnswerGoesBack
  BY DEF ExchangeInv
<1>. QED BY <1>1, InvHolds, PTL

(* A Feature Abort that is built over the message it answers names that    *)
(* message's opcode (cec_msg_reply_feature_abort).                         *)
THEOREM AbortsNameMessage == Spec => []AbortNamesMessage
BY InvHolds, PTL

(* cec_msg_status_is_ok is true exactly of the messages that were          *)
(* acknowledged and whose reply, if one was asked for, was served.         *)
THEOREM StatusIsTrue == Spec => []StatusTruth
BY InvHolds, PTL
=============================================================================
