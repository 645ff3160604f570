---------------------------- MODULE CecExchange -----------------------------
(***************************************************************************)
(* An exchange of CEC messages by programs that use include/linux/cec.h    *)
(* and include/linux/cec-funcs.h: a struct cec_msg is initialised, one of  *)
(* the packing functions fills it in, the CEC framework transmits it, and  *)
(* either reports a result to the sender or delivers the message to a      *)
(* follower.  The follower unpacks it by its opcode and may answer in      *)
(* place, in the struct that still holds what was received, with another   *)
(* message or a Feature Abort.                                             *)
(***************************************************************************)
EXTENDS CecMsg

CONSTANTS
  Calls,        \* the calls of packing functions: [op, reply, fields]
  Answered,     \* the calls that are answered with a message
  Addresses,    \* initiator and destination
  Stale,        \* what the follower's struct holds where nothing is received
  PhysAddr      \* the sender's physical address, which the framework knows

ASSUME CallAssumption == \A c \in Calls : c.op \in Ops /\ c.reply \in BOOLEAN
ASSUME AddressAssumption == Addresses \subseteq (0..15) \X (0..15)

VARIABLES
  msg,          \* the struct cec_msg in use: msg[], len, reply, timeout
  call,         \* the call that packed it
  orig,         \* msg[0] and msg[1] of what the follower answers, or <<>>
  phase,        \* what has been done with the message
  got,          \* the unpacking function that was called and its results
  status        \* the status of a transmit: the bits, and what happened

vars == <<msg, call, orig, phase, got, status>>

NoMsg == [b |-> [i \in 0..15 |-> 0], len |-> 0, reply |-> 0, timeout |-> 0]
NoCall == [op |-> "none", reply |-> FALSE, fields |-> <<>>]
NoResult == [op |-> "none", operands |-> <<>>]
NoStatus == [tx |-> {}, rx |-> {}, success |-> FALSE]

Init ==
  /\ msg = NoMsg /\ call = NoCall /\ orig = <<>>
  /\ phase = "idle" /\ got = NoResult /\ status = NoStatus

-----------------------------------------------------------------------------
cec_msg_initiator(m) == m.b[0] \div 16
cec_msg_destination(m) == m.b[0] % 16
cec_msg_opcode(m) == IF m.len > 1 THEN m.b[1] ELSE -1

(* "The whole structure is zeroed, the len field is set to 1 (i.e. a poll  *)
(* message) and the initiator and destination are filled in."              *)
cec_msg_init(initiator, destination) ==
  /\ phase \in {"idle", "received", "decoded", "aborted", "done"}
  /\ msg' = [NoMsg EXCEPT !.b[0] = initiator * 16 + destination, !.len = 1]
  /\ phase' = "ready"
  /\ call' = NoCall /\ orig' = <<>> /\ got' = NoResult /\ status' = NoStatus

(* What the packing functions do with a struct: bytes they do not store    *)
(* keep their values.                                                      *)
Store(m, f) ==
  [m EXCEPT
     !.b = [i \in 0..15 |->
              CASE i = 0 -> IF f.bcast THEN cec_msg_initiator(m) * 16 + 15 ELSE m.b[0]
                [] i = 1 -> f.opcode
                [] i - f.at \in 0..(Len(f.bytes) - 1) -> f.bytes[i - f.at + 1]
                [] OTHER -> m.b[i]],
     !.len = f.len,
     !.reply = IF f.reply = Left THEN @ ELSE f.reply]

Build(c) ==
  /\ phase \in {"ready", "answering"}
  /\ msg' = Store(msg, Packed(c.op, c.reply, c.fields))
  /\ call' = c
  /\ phase' = "built"
  /\ got' = NoResult
  /\ UNCHANGED <<orig, status>>

(* The framework fills in the physical address of a CDC message and the    *)
(* follower receives its first n bytes; an answer arrives whole.           *)
Deliver(n, stale) ==
  LET Byte(i) == CASE i >= n -> stale
                   [] msg.b[1] = \hf8 /\ i = 2 -> PhysAddr \div 256
                   [] msg.b[1] = \hf8 /\ i = 3 -> PhysAddr % 256
                   [] OTHER -> msg.b[i]
  IN  /\ phase = "built"
      /\ orig # <<>> => n = msg.len
      /\ msg' = [b |-> [i \in 0..15 |-> Byte(i)], len |-> n,
                 reply |-> stale, timeout |-> stale]
      /\ phase' = "received"
      /\ UNCHANGED <<call, orig, got, status>>

(* The unpacking function to call, by the opcode. *)
Dispatch(m) ==
  IF m.b[1] = \hf8
    THEN {op \in DOMAIN Table : Table[op].cdc = m.b[4]}
         \cup {op \in DOMAIN OtherCDC : OtherCDC[op] = m.b[4]}
    ELSE {op \in DOMAIN Table : Table[op].opcode = m.b[1]}
         \cup {op \in DOMAIN Others : Others[op] = m.b[1]}

Decode ==
  /\ phase = "received"
  /\ cec_msg_opcode(msg) >= 0
  /\ \E op \in Dispatch(msg) : got' = [op |-> op, operands |-> Unpacked(op, msg)]
  /\ phase' = "decoded"
  /\ UNCHANGED <<msg, call, orig, status>>

(* Mutant: the answer waits for the reply the request asked for. *)
SetReplyKeepsReply(m) ==
  [m EXCEPT !.b[0] = cec_msg_destination(m) * 16 + cec_msg_initiator(m), !.timeout = 0]

Whole == msg.len = Packed(call.op, call.reply, call.fields).len

(* In place: msg and orig are the same struct. *)
cec_msg_set_reply_to(m) ==
  [m EXCEPT !.b[0] = cec_msg_destination(m) * 16 + cec_msg_initiator(m),
            !.reply = 0, !.timeout = 0]

(* A message that was cut short is not answered, but it may be aborted. *)
Answer ==
  /\ phase = "decoded"
  /\ orig = <<>>
  /\ call \in Answered /\ Whole
  /\ orig' = <<msg.b[0], msg.b[1]>>
  /\ msg' = cec_msg_set_reply_to(msg)
  /\ phase' = "answering"
  /\ UNCHANGED <<call, got, status>>

(* Mutant: the opcode is stored before the old one is copied. *)
reply_feature_abort_early(m, reason) ==
  [cec_msg_set_reply_to(m) EXCEPT !.len = 4, !.b[2] = \h00, !.b[3] = reason, !.b[1] = \h00]

(* "This changes the current message into a feature abort message" *)
cec_msg_reply_feature_abort(m, reason) ==
  [cec_msg_set_reply_to(m) EXCEPT !.len = 4, !.b[2] = m.b[1], !.b[3] = reason, !.b[1] = \h00]

Abort(reason) ==
  /\ phase \in {"received", "decoded"}
  /\ orig = <<>>
  /\ cec_msg_opcode(msg) >= 0
  /\ orig' = <<msg.b[0], msg.b[1]>>
  /\ msg' = cec_msg_reply_feature_abort(msg, reason)
  /\ phase' = "aborted"
  /\ UNCHANGED <<call, got, status>>

-----------------------------------------------------------------------------
(* The transmit status bits and whether the message was acknowledged: a    *)
(* retry adds to the bits of the attempts before it.                       *)
Sent ==
  {[bits |-> {"OK"}, acked |-> TRUE],
   [bits |-> {"NACK", "OK"}, acked |-> TRUE],
   [bits |-> {"ARB_LOST", "OK"}, acked |-> TRUE],
   [bits |-> {"NACK", "MAX_RETRIES"}, acked |-> FALSE],
   [bits |-> {"ARB_LOST", "LOW_DRIVE", "MAX_RETRIES"}, acked |-> FALSE],
   [bits |-> {"ERROR"}, acked |-> FALSE],
   [bits |-> {"ABORTED"}, acked |-> FALSE],
   [bits |-> {"TIMEOUT"}, acked |-> FALSE]}

(* The receive status bits of the reply that was asked for. *)
Replies ==
  {[bits |-> {"OK"}, served |-> TRUE],
   [bits |-> {"OK", "FEATURE_ABORT"}, served |-> FALSE],
   [bits |-> {"TIMEOUT"}, served |-> FALSE],
   [bits |-> {"ABORTED"}, served |-> FALSE]}

Transmit ==
  /\ phase = "built"
  /\ \E s \in Sent :
       IF s.acked /\ msg.reply # 0
         THEN \E r \in Replies :
                status' = [tx |-> s.bits, rx |-> r.bits, success |-> r.served]
         ELSE status' = [tx |-> s.bits, rx |-> {}, success |-> s.acked]
  /\ phase' = "done"
  /\ UNCHANGED <<msg, call, orig, got>>

(* CEC_RECEIVE: the status of a received message, or of none in time. *)
Receive ==
  /\ phase = "idle"
  /\ status' \in {[tx |-> {}, rx |-> {"OK"}, success |-> TRUE],
                  [tx |-> {}, rx |-> {"TIMEOUT"}, success |-> FALSE]}
  /\ phase' = "done"
  /\ UNCHANGED <<msg, call, orig, got>>

(* Mutant: a Feature Abort, which is received all right, is a success. *)
status_is_ok_received(s) ==
  /\ s.tx # {} => "OK" \in s.tx
  /\ s.rx # {} => "OK" \in s.rx
  /\ s.tx # {} \/ s.rx # {}

cec_msg_status_is_ok(s) ==
  /\ s.tx # {} => "OK" \in s.tx
  /\ s.rx # {} => "OK" \in s.rx
  /\ s.tx # {} \/ s.rx # {}
  /\ "FEATURE_ABORT" \notin s.rx

-----------------------------------------------------------------------------
Next ==
  \/ \E a \in Addresses : cec_msg_init(a[1], a[2])
  \/ \E c \in Calls : Build(c)
  \/ \E n \in 1..msg.len, stale \in Stale : Deliver(n, stale)
  \/ Decode
  \/ Answer
  \/ \E reason \in {0, 4} : Abort(reason)
  \/ Transmit
  \/ Receive

Spec == Init /\ [][Next]_vars

-----------------------------------------------------------------------------
(* The packing functions build messages of an opcode and at most 16 bytes  *)
(* in all, whatever length of text, vendor command or list of descriptors  *)
(* they are given.                                                         *)
TypeOK ==
  /\ msg.b \in [0..15 -> 0..255]
  /\ msg.len \in 0..16
  /\ phase \in {"idle", "ready", "built", "received", "decoded", "answering",
                "aborted", "done"}
  /\ phase = "built" => msg.len \in 2..16
  /\ call \in Calls \cup {NoCall}

(* What an unpacking function is to return: the operands of the call,      *)
(* those of them that fit in a message, after the physical address of a    *)
(* CDC message.                                                            *)
Operands(c) ==
  LET all == FlattenSeq(c.fields)
      Fit(first, n, size) == SubSeq(all, 1, first + size * (IF Len(all) > first + size * n
                                     THEN n ELSE (Len(all) - first) \div size))
      Counted(first, n, size) ==
        [i \in 1..Len(Fit(first, n, size)) |->
           IF i = first /\ all[first] > n THEN n ELSE all[i]]
  IN  CASE c.op \in {"set_timer_program_title", "set_osd_name"} -> Fit(0, 14, 1)
        [] c.op = "set_osd_string" -> Fit(1, 13, 1)
        [] c.op \in {"vendor_command", "vendor_remote_button_down"} -> Counted(1, 14, 1)
        [] c.op = "vendor_command_with_id" -> Counted(2, 11, 1)
        [] c.op = "report_short_audio_descriptor" -> Counted(1, 4, 1)
        [] c.op = "request_short_audio_descriptor" -> Counted(1, 4, 2)
        [] c.op \in DOMAIN OtherCDC -> <<PhysAddr>> \o all
        [] c.op \in DOMAIN Table -> IF Table[c.op].cdc < 0 THEN all ELSE <<PhysAddr>> \o all
        [] OTHER -> all

Arrived == phase = "decoded" /\ Whole

(* The enc_func_state of a Report State, which cec_ops_cdc_hec_report_state *)
(* takes from the bits of host_func_state. *)
SansEnc(op, s) ==
  IF op = "cdc_hec_report_state" /\ Len(s) > 4 THEN [s EXCEPT ![5] = 0] ELSE s

(* A channel whose major number needs the two bits beside the format. *)
WideChannel(c) ==
  c.op = "user_control_pressed" /\ Len(c.fields[1]) = 5 /\ c.fields[1][4] > 255

(* A message that arrives whole is unpacked by the function of its own     *)
(* name into the operands that were packed: operands that were not sent    *)
(* are reported as absent and not taken from what the struct held before,  *)
(* be it the rest of the request that is answered in place.  Left out is   *)
(* what the property after this one is about.                              *)
OperandsArrive ==
  Arrived /\ call.op # "cdc_hec_set_state" /\ ~WideChannel(call) =>
    /\ got.op = call.op
    /\ SansEnc(got.op, got.operands) = SansEnc(call.op, Operands(call))

(* The same of every message, without exception: also the enc_func_state   *)
(* of a Report State, a Set State, and the channel of a Tune Function with *)
(* a major number of 10 bits as cec_msg_user_control_pressed stores it.    *)
AllOperandsArrive ==
  Arrived => got.op = call.op /\ got.operands = Operands(call)

(* No unpacking function loads a byte from beyond msg[15], whatever length *)
(* the message it is given has: sizes computed from a length that is too   *)
(* short wrap around and are cut.                                          *)
ReadsInFrame == \A i \in DOMAIN got.operands : got.operands[i] >= 0

(* A message that has been answered or aborted in place goes back: from    *)
(* the address it was sent to, to the one it came from unless the answer   *)
(* is a broadcast, and it waits for a reply only when the function that    *)
(* built it was told to, not because the struct was used before.           *)
AnswerGoesBack ==
  orig # <<>> /\ phase \in {"answering", "built", "aborted"} =>
    /\ cec_msg_initiator(msg) = orig[1] % 16
    /\ cec_msg_destination(msg) \in {orig[1] \div 16, 15}
    /\ cec_msg_destination(msg) # orig[1] \div 16 =>
         phase = "built" /\ Packed(call.op, call.reply, call.fields).bcast
    /\ msg.reply # 0 => phase = "built" /\ call.reply
    /\ msg.timeout = 0

(* A Feature Abort names the opcode of the message it answers, although it *)
(* is built in the struct that holds the message.                          *)
AbortNamesMessage ==
  phase = "aborted" =>
    /\ cec_msg_opcode(msg) = \h00
    /\ At(msg, 2) = orig[2]

(* The status is ok exactly when the message was acknowledged, perhaps     *)
(* after retries, and the reply, if one was asked for, came and was not a  *)
(* Feature Abort (cec_msg_status_is_ok).                                   *)
StatusTruth == phase = "done" => cec_msg_status_is_ok(status) = status.success
=============================================================================
