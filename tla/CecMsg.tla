------------------------------- MODULE CecMsg -------------------------------
(***************************************************************************)
(* The messages of HDMI Consumer Electronics Control as                    *)
(* include/linux/cec-funcs.h packs them into a struct cec_msg (the         *)
(* functions cec_msg_...) and unpacks them (cec_ops_...).                  *)
(*                                                                         *)
(* Most messages are a fixed sequence of operands.  A table has for each   *)
(* of them what the packing function stores, and the offsets the unpacking *)
(* function loads the operands from; the kind of an operand says how it is *)
(* packed and unpacked.  The others have operators of their own.  Operands *)
(* are in their ranges, so that the | of the packing functions is +.  A    *)
(* message m has the bytes m.b[0..15] and the length m.len.                *)
(***************************************************************************)
EXTENDS Integers, Sequences, SequencesExt

U8(x) == x % 256
U16(x) == <<U8(x \div 256), U8(x)>>
U24(x) == <<U8(x \div 65536), U8(x \div 256), U8(x)>>

(* Hours and minutes are in BCD format. *)
BCD(x) == U8((x \div 10) * 16 + (x % 10))

(* A byte of the message; what is loaded from beyond the array shows as a  *)
(* negative number.                                                        *)
At(m, i) == IF i \in 0..15 THEN m.b[i] ELSE -(2^26)
Get16(m, i) == At(m, i) * 256 + At(m, i + 1)
Get24(m, i) == At(m, i) * 65536 + Get16(m, i + 1)
GetBCD(m, i) == (At(m, i) \div 16) * 10 + (At(m, i) % 16)
GetAll(m, i, n) == [k \in 1..n |-> At(m, i + k - 1)]

(* d: service_id_method, dig_bcast_system and, by channel, the format and  *)
(* the two numbers; else the ids.                                          *)
ATSC == {1, 16, 17, 18}

cec_set_digital_service_id(d) ==
  <<d[1] * 128 + d[2]>> \o
  (IF d[1] = 1 THEN <<U8(d[3] * 4 + d[4] \div 256), U8(d[4])>> \o U16(d[5]) \o <<0, 0>>
   ELSE U16(d[3]) \o U16(d[4]) \o (IF d[2] \in ATSC THEN <<0, 0>> ELSE U16(d[5])))

(* (x << 6) | y for a number x of two bits, which meets those above the   *)
(* lowest six of y.                                                        *)
OrAbove6(x, y) ==
  LET high == y \div 64
      Bit(n) == IF (x \div n) % 2 = 1 \/ (high \div n) % 2 = 1 THEN n ELSE 0
  IN  64 * (Bit(2) + Bit(1)) + (y % 64)

(* channel_number_fmt and major *)
GetChannel(m, i) ==
  <<At(m, i) \div 4, OrAbove6(At(m, i) % 4, At(m, i + 1)), Get16(m, i + 2)>>

cec_get_digital_service_id(m, i) ==
  <<At(m, i) \div 128, At(m, i) % 128>> \o
  (IF At(m, i) >= 128 THEN GetChannel(m, i + 1)
   ELSE <<Get16(m, i + 1), Get16(m, i + 3), Get16(m, i + 5)>>)

Pack(kind, v) ==
  CASE kind = "u8"      -> <<U8(v[1])>>
    [] kind = "u16"     -> U16(v[1])
    [] kind = "u24"     -> U24(v[1])
    [] kind = "bcd"     -> <<BCD(v[1])>>
    [] kind = "flag"    -> <<U8(v[1] * 128 + (v[2] % 128))>>
    [] kind = "nibbles" -> <<U8(v[1] * 16 + v[2])>>
    [] kind = "string"  -> v
    [] kind = "digital" -> cec_set_digital_service_id(v)

Unpack(kind, m, i) ==
  CASE kind = "u8"      -> <<At(m, i)>>
    [] kind = "u16"     -> <<Get16(m, i)>>
    [] kind = "u24"     -> <<Get24(m, i)>>
    [] kind = "bcd"     -> <<GetBCD(m, i)>>
    [] kind = "flag"    -> <<At(m, i) \div 128, At(m, i) % 128>>
    [] kind = "nibbles" -> <<At(m, i) \div 16, At(m, i) % 16>>
    [] kind = "string"  -> GetAll(m, i, 3)
    [] kind = "digital" -> cec_get_digital_service_id(m, i)

-----------------------------------------------------------------------------
(* An entry: opcode, len, broadcast or not, the opcode of the reply, the   *)
(* kinds of the operands in the order they are stored, the offsets they    *)
(* are loaded from.  Left: the function leaves msg->reply alone.           *)
Left == -1
Directed == FALSE
Broadcast == TRUE

Entry(opcode, len, bcast, reply, kinds, offsets) ==
  [opcode |-> opcode, len |-> len, bcast |-> bcast, reply |-> reply,
   kinds |-> kinds, offsets |-> offsets, cdc |-> -1]

Routing ==
  [active_source         |-> Entry(\h82, 4, Broadcast, Left, <<"u16">>, <<2>>),
   image_view_on         |-> Entry(\h04, 2, Directed, Left, <<>>, <<>>),
   text_view_on          |-> Entry(\h0d, 2, Directed, Left, <<>>, <<>>),
   inactive_source       |-> Entry(\h9d, 4, Directed, Left, <<"u16">>, <<2>>),
   request_active_source |-> Entry(\h85, 2, Broadcast, \h82, <<>>, <<>>),
   routing_information   |-> Entry(\h81, 4, Broadcast, Left, <<"u16">>, <<2>>),
   routing_change        |-> Entry(\h80, 6, Broadcast, \h81, <<"u16", "u16">>, <<2, 4>>),
   set_stream_path       |-> Entry(\h86, 4, Broadcast, Left, <<"u16">>, <<2>>),
   standby               |-> Entry(\h36, 2, Directed, Left, <<>>, <<>>),
   record_off            |-> Entry(\h0b, 2, Directed, \h0a, <<>>, <<>>)]

Recording ==
  [record_status        |-> Entry(\h0a, 3, Directed, Left, <<"u8">>, <<2>>),
   record_tv_screen     |-> Entry(\h0f, 2, Directed, \h09, <<>>, <<>>)]

(* day, month, start, duration, recording_seq; then the source *)
When == <<"u8", "u8", "bcd", "bcd", "bcd", "bcd", "u8">>
WhenAt == <<2, 3, 4, 5, 6, 7, 8>>

ClearTimers ==
  [timer_cleared_status |-> Entry(\h43, 3, Directed, Left, <<"u8">>, <<2>>),
   clear_analogue_timer |-> Entry(\h33, 13, Directed, \h43,
                                  When \o <<"u8", "u16", "u8">>, WhenAt \o <<9, 10, 12>>),
   clear_digital_timer  |-> Entry(\h99, 16, Directed, \h43,
                                  When \o <<"digital">>, WhenAt \o <<9>>),
   clear_ext_timer      |-> Entry(\ha1, 13, Directed, \h43,
                                  When \o <<"u8", "u8", "u16">>, WhenAt \o <<9, 10, 11>>)]

SetTimers ==
  [set_analogue_timer   |-> Entry(\h34, 13, Directed, \h35,
                                  When \o <<"u8", "u16", "u8">>, WhenAt \o <<9, 10, 12>>),
   set_digital_timer    |-> Entry(\h97, 16, Directed, \h35,
                                  When \o <<"digital">>, WhenAt \o <<9>>),
   set_ext_timer        |-> Entry(\ha2, 13, Directed, \h35,
                                  When \o <<"u8", "u8", "u16">>, WhenAt \o <<9, 10, 11>>)]

SystemInformation ==
  [cec_version          |-> Entry(\h9e, 3, Directed, Left, <<"u8">>, <<2>>),
   get_cec_version      |-> Entry(\h9f, 2, Directed, \h9e, <<>>, <<>>),
   report_physical_addr |-> Entry(\h84, 5, Broadcast, Left, <<"u16", "u8">>, <<2, 4>>),
   give_physical_addr   |-> Entry(\h83, 2, Directed, \h84, <<>>, <<>>),
   set_menu_language    |-> Entry(\h32, 5, Broadcast, Left, <<"string">>, <<2>>),
   get_menu_language    |-> Entry(\h91, 2, Directed, \h32, <<>>, <<>>)]

DeckControl ==
  [give_features    |-> Entry(\ha5, 2, Directed, \ha6, <<>>, <<>>),
   deck_control     |-> Entry(\h42, 3, Directed, Left, <<"u8">>, <<2>>),
   deck_status      |-> Entry(\h1b, 3, Directed, Left, <<"u8">>, <<2>>),
   give_deck_status |-> Entry(\h1a, 3, Directed, \h1b, <<"u8">>, <<2>>),
   play             |-> Entry(\h41, 3, Directed, Left, <<"u8">>, <<2>>)]

TunerControl ==
  [give_tuner_device_status |-> Entry(\h08, 3, Directed, \h07, <<"u8">>, <<2>>),
   select_analogue_service  |-> Entry(\h92, 6, Directed, Left, <<"u8", "u16", "u8">>, <<2, 3, 5>>),
   select_digital_service   |-> Entry(\h93, 9, Directed, Left, <<"digital">>, <<2>>),
   tuner_step_decrement     |-> Entry(\h06, 2, Directed, Left, <<>>, <<>>),
   tuner_step_increment     |-> Entry(\h05, 2, Directed, Left, <<>>, <<>>),
   device_vendor_id         |-> Entry(\h87, 5, Broadcast, Left, <<"u24">>, <<2>>),
   give_device_vendor_id    |-> Entry(\h8c, 2, Directed, \h87, <<>>, <<>>)]

Menu ==
  [vendor_remote_button_up |-> Entry(\h8b, 2, Directed, Left, <<>>, <<>>),
   give_osd_name           |-> Entry(\h46, 2, Directed, \h47, <<>>, <<>>),
   menu_status             |-> Entry(\h8e, 3, Directed, Left, <<"u8">>, <<2>>),
   menu_request            |-> Entry(\h8d, 3, Directed, \h8e, <<"u8">>, <<2>>)]

General ==
  [user_control_released    |-> Entry(\h45, 2, Directed, Left, <<>>, <<>>),
   report_power_status      |-> Entry(\h90, 3, Directed, Left, <<"u8">>, <<2>>),
   give_device_power_status |-> Entry(\h8f, 2, Directed, \h90, <<>>, <<>>),
   feature_abort            |-> Entry(\h00, 4, Directed, Left, <<"u8", "u8">>, <<2, 3>>),
   abort                    |-> Entry(\hff, 2, Directed, Left, <<>>, <<>>),
   report_audio_status      |-> Entry(\h7a, 3, Directed, Left, <<"flag">>, <<2>>),
   give_audio_status        |-> Entry(\h71, 2, Directed, \h7a, <<>>, <<>>),
   set_system_audio_mode    |-> Entry(\h72, 3, Directed, Left, <<"u8">>, <<2>>)]

Audio ==
  [system_audio_mode_status      |-> Entry(\h7e, 3, Directed, Left, <<"u8">>, <<2>>),
   give_system_audio_mode_status |-> Entry(\h7d, 2, Directed, \h7e, <<>>, <<>>)]

ReturnChannel ==
  [set_audio_rate          |-> Entry(\h9a, 3, Directed, Left, <<"u8">>, <<2>>),
   report_arc_initiated    |-> Entry(\hc1, 2, Directed, Left, <<>>, <<>>),
   initiate_arc            |-> Entry(\hc0, 2, Directed, \hc1, <<>>, <<>>),
   request_arc_initiation  |-> Entry(\hc3, 2, Directed, \hc0, <<>>, <<>>),
   report_arc_terminated   |-> Entry(\hc2, 2, Directed, Left, <<>>, <<>>),
   terminate_arc           |-> Entry(\hc5, 2, Directed, \hc2, <<>>, <<>>),
   request_arc_termination |-> Entry(\hc4, 2, Directed, \hc5, <<>>, <<>>)]

(* CDC: a broadcast with an opcode of its own in msg[4].  "msg[2] and      *)
(* msg[3] (phys_addr) are filled in by the CEC framework": every unpacking *)
(* function loads them first.                                              *)
CDC(cdc, len, kinds, offsets) ==
  [Entry(\hf8, len, Broadcast, Left, kinds, offsets) EXCEPT !.cdc = cdc]

Latency ==
  [request_current_latency |-> Entry(\ha7, 4, Broadcast, \ha8, <<"u16">>, <<2>>),
   cdc_hec_inquire_state   |-> CDC(\h00, 9, <<"u16", "u16">>, <<5, 7>>)]

Discovery ==
  [cdc_hec_set_state_adjacent   |-> CDC(\h02, 8, <<"u16", "u8">>, <<5, 7>>),
   cdc_hec_request_deactivation |-> CDC(\h04, 11, <<"u16", "u16", "u16">>, <<5, 7, 9>>),
   cdc_hec_notify_alive         |-> CDC(\h05, 5, <<>>, <<>>),
   cdc_hec_discover             |-> CDC(\h06, 5, <<>>, <<>>),
   cdc_hpd_set_state            |-> CDC(\h10, 6, <<"nibbles">>, <<5>>),
   cdc_hpd_report_state         |-> CDC(\h11, 6, <<"nibbles">>, <<5>>)]

Table ==
  Routing @@ Recording @@ ClearTimers @@ SetTimers @@ SystemInformation
  @@ DeckControl @@ TunerControl @@ Menu @@ General @@ Audio @@ ReturnChannel
  @@ Latency @@ Discovery

-----------------------------------------------------------------------------
(* What a packing function stores: len, perhaps the broadcast address and  *)
(* reply, the opcode in msg[1] and bytes from msg[at] on.                  *)
Frame(opcode, len, bcast, reply, at, bytes) ==
  [opcode |-> opcode, len |-> len, bcast |-> bcast, reply |-> reply,
   at |-> at, bytes |-> bytes]

IfReply(reply, opcode) == IF reply THEN opcode ELSE 0

(* There is no reply to "turn status reporting off" (CEC_OP_STATUS_REQ_OFF). *)
NoReply(op, fields) ==
  op \in {"give_deck_status", "give_tuner_device_status"} /\ fields[1] = <<2>>

TableFrame(op, reply, fields) ==
  LET e == Table[op]
      packed == FlattenSeq([i \in DOMAIN e.kinds |-> Pack(e.kinds[i], fields[i])])
      r == IF e.reply = Left THEN Left
           ELSE IfReply(reply /\ ~NoReply(op, fields), e.reply)
  IN  IF e.cdc < 0 THEN Frame(e.opcode, e.len, e.bcast, r, 2, packed)
      ELSE Frame(e.opcode, e.len, e.bcast, r, 4, <<e.cdc>> \o packed)

TableOps(op, m) ==
  LET e == Table[op]
  IN  (IF e.cdc < 0 THEN <<>> ELSE <<Get16(m, 2)>>)
      \o FlattenSeq([i \in DOMAIN e.kinds |-> Unpack(e.kinds[i], m, e.offsets[i])])

-----------------------------------------------------------------------------
(* src: the type and what the type asks for *)
cec_msg_record_on(reply, src) ==
  LET packed == CASE src[1] = 1 -> <<>>
                  [] src[1] = 2 -> cec_set_digital_service_id(Tail(src))
                  [] src[1] = 3 -> <<src[2]>> \o U16(src[3]) \o <<src[4]>>
                  [] src[1] = 4 -> <<src[2]>>
                  [] src[1] = 5 -> U16(src[2])
      len == <<3, 10, 7, 4, 5>>[src[1]]
  IN  Frame(\h09, len, Directed, IfReply(reply, \h0a), 2, <<src[1]>> \o packed)

cec_ops_record_on(m) ==
  LET type == At(m, 2)
  IN  <<type>> \o
      (CASE type = 2 -> cec_get_digital_service_id(m, 3)
         [] type = 3 -> <<At(m, 3), Get16(m, 4), At(m, 6)>>
         [] type = 4 -> <<At(m, 3)>>
         [] type = 5 -> <<Get16(m, 3)>>
         [] OTHER    -> <<>>)

(* With NOT_ENOUGH_SPACE, MIGHT_NOT_BE_ENOUGH_SPACE and DUPLICATE comes    *)
(* the duration available.                                                 *)
HasDuration(prog_info, prog_error) == prog_info \in {9, 11} \/ prog_error = 14

(* s: overlap warning, media info, prog_info, prog_error, hours, minutes *)
cec_msg_timer_status(s) ==
  LET first == s[1] * 128 + s[2] * 32 + (IF s[3] # 0 THEN 16 + s[3] ELSE s[4])
  IN  IF HasDuration(s[3], s[4])
        THEN Frame(\h35, 5, Directed, Left, 2, <<first, BCD(s[5]), BCD(s[6])>>)
        ELSE Frame(\h35, 3, Directed, Left, 2, <<first>>)

cec_ops_timer_status(m) ==
  LET first == At(m, 2)
      programmed == (first \div 16) % 2 = 1
      info == IF programmed THEN first % 16 ELSE 0
      error == IF programmed THEN 0 ELSE first % 16
  IN  <<first \div 128, (first \div 32) % 4, info, error>> \o
      (IF HasDuration(info, error) THEN <<GetBCD(m, 3), GetBCD(m, 4)>> ELSE <<0, 0>>)

(* Mutant: the room for the operands before the text is not counted. *)
CutTo14(text, max) == IF Len(text) > 14 THEN 14 ELSE Len(text)

(* The bytes of a text or a vendor command that fit: the first max. *)
CutTo(text, max) == IF Len(text) > max THEN max ELSE Len(text)

(* cec_msg_set_timer_program_title, cec_msg_set_osd_string,                *)
(* cec_msg_set_osd_name and, with the size as an operand,                  *)
(* cec_msg_vendor_command, ..._with_id and cec_msg_vendor_remote_button_down. *)
TextFrame(opcode, before, text) ==
  LET n == CutTo(text, 14 - Len(before))
  IN  Frame(opcode, 2 + Len(before) + n, Directed, Left, 2, before \o SubSeq(text, 1, n))

TextLength(m, start) ==
  LET len == IF m.len > start THEN m.len - start ELSE 0
  IN  IF len > 16 - start THEN 16 - start ELSE len

cec_ops_set_osd_name(m) == GetAll(m, 2, TextLength(m, 2))
cec_ops_set_osd_string(m) == <<At(m, 2)>> \o GetAll(m, 3, TextLength(m, 3))

(* Mutant: the size is taken as it comes. *)
VendorSizeUncut(m, start) == U8(m.len - start)

(* size is a __u8: msg->len - start wraps around in a message that is too  *)
(* short, and is then cut like one that is too long.                       *)
VendorSize(m, start) ==
  LET size == U8(m.len - start)
  IN  IF size > 16 - start THEN 16 - start ELSE size

cec_ops_vendor_command(m) == <<VendorSize(m, 2)>> \o GetAll(m, 2, VendorSize(m, 2))
cec_ops_vendor_command_with_id(m) ==
  <<Get24(m, 2), VendorSize(m, 5)>> \o GetAll(m, 5, VendorSize(m, 5))

(* "Assumes a single RC Profile byte and a single Device Features byte" *)
cec_msg_report_features(f) == Frame(\ha6, 6, Broadcast, Left, 2, f)

(* The reader takes several: all but the last RC Profile byte have bit 7   *)
(* set.  It looks for the last one in msg[4] to msg[14]; the second loop   *)
(* of the code starts at that byte and ends at once.  Here the result is   *)
(* the first RC Profile byte and the first Device Features byte, or        *)
(* nothing when the pointers are NULL.                                     *)
cec_ops_report_features(m) ==
  LET last == {p \in 4..14 : At(m, p) < 128 /\ \A q \in 4..(p - 1) : At(m, q) >= 128}
  IN  <<At(m, 2), At(m, 3)>> \o
      (IF last = {} THEN <<>> ELSE <<At(m, 4), At(m, 1 + CHOOSE p \in last : TRUE)>>)

(* s: is_analog, rec_flag, tuner_display_info, the service *)
cec_msg_tuner_device_status(s) ==
  LET first == s[2] * 128 + s[3]
  IN  IF s[1] = 1
        THEN Frame(\h07, 7, Directed, Left, 2, <<first, s[4]>> \o U16(s[5]) \o <<s[6]>>)
        ELSE Frame(\h07, 10, Directed, Left, 2,
                   <<first>> \o cec_set_digital_service_id(SubSeq(s, 4, 8)))

cec_ops_tuner_device_status(m) ==
  LET is_analog == m.len < 10
  IN  <<IF is_analog THEN 1 ELSE 0, At(m, 2) \div 128, At(m, 2) % 128>> \o
      (IF is_analog THEN <<At(m, 3), Get16(m, 4), At(m, 6)>>
       ELSE cec_get_digital_service_id(m, 3))

(* SELECT_BROADCAST_TYPE ... SELECT_AUDIO_INPUT_FUNCTION take an operand   *)
(* of one byte, TUNE_FUNCTION a channel.                                   *)
OneByte == {\h56, \h57, \h60, \h68, \h69, \h6a}
Tune == \h67

(* u: ui_cmd, has_opt_arg, the optional operand *)
cec_msg_user_control_pressed(u) ==
  LET cmd == u[1]
      opt == CASE u[2] = 1 /\ cmd \in OneByte -> <<u[3]>>
               [] u[2] = 1 /\ cmd = Tune ->
                    <<U8(u[3] * 4 + u[4] \div 256), U8(u[4])>> \o U16(u[5])
               [] OTHER -> <<>>
  IN  Frame(\h44, 3 + Len(opt), Directed, Left, 2, <<cmd>> \o opt)

cec_ops_user_control_pressed(m) ==
  LET cmd == At(m, 2)
  IN  CASE m.len # 3 /\ cmd \in OneByte -> <<cmd, 1, At(m, 3)>>
        [] m.len # 3 /\ cmd = Tune /\ m.len >= 7 -> <<cmd, 1>> \o GetChannel(m, 3)
        [] OTHER -> <<cmd, 0>>

(* CEC_PHYS_ADDR_INVALID stands for no operand. *)
Invalid == 65535

cec_msg_system_audio_mode_request(reply, a) ==
  Frame(\h70, IF a[1] = Invalid THEN 2 ELSE 4, Directed, IfReply(reply, \h72), 2, U16(a[1]))

cec_ops_system_audio_mode_request(m) == <<IF m.len < 4 THEN Invalid ELSE Get16(m, 2)>>

(* d: num_descriptors and the descriptors, of which 4 fit *)
cec_msg_report_short_audio_descriptor(d) ==
  LET n == IF d[1] > 4 THEN 4 ELSE d[1]
  IN  Frame(\ha3, 2 + n * 3, Directed, Left, 2,
            FlattenSeq([i \in 1..n |-> U24(d[i + 1])]))

cec_ops_report_short_audio_descriptor(m) ==
  LET num == (m.len - 2) \div 3
      n == IF num > 4 THEN 4 ELSE num
  IN  <<n>> \o [i \in 1..n |-> Get24(m, 2 + (i - 1) * 3)]

(* d: num_descriptors, then an id and a code for each *)
cec_msg_request_short_audio_descriptor(reply, d) ==
  LET n == IF d[1] > 4 THEN 4 ELSE d[1]
  IN  Frame(\ha4, 2 + n, Directed, IfReply(reply, \ha3), 2,
            [i \in 1..n |-> U8(d[2 * i] * 64 + (d[2 * i + 1] % 64))])

cec_ops_request_short_audio_descriptor(m) ==
  LET num == U8(m.len - 2)
      n == IF num > 4 THEN 4 ELSE num
  IN  <<n>> \o FlattenSeq([i \in 1..n |-> <<At(m, i + 1) \div 64, At(m, i + 1) % 64>>])

(* l: phys_addr, video_latency, low_latency_mode, audio_out_compensated,   *)
(* audio_out_delay, which is sent only with a partial delay                *)
cec_msg_report_current_latency(l) ==
  LET packed == U16(l[1]) \o <<l[2], l[3] * 4 + l[4]>>
  IN  IF l[4] = 3 THEN Frame(\ha8, 7, Broadcast, Left, 2, packed \o <<l[5]>>)
      ELSE Frame(\ha8, 6, Broadcast, Left, 2, packed)

(* Mutant: the delay is taken from a message that may not have it. *)
ops_current_latency_always(m) ==
  LET flags == At(m, 5)
  IN  <<Get16(m, 2), At(m, 4), (flags \div 4) % 2, flags % 4, At(m, 6)>>

cec_ops_report_current_latency(m) ==
  LET flags == At(m, 5)
  IN  <<Get16(m, 2), At(m, 4), (flags \div 4) % 2, flags % 4,
        IF flags % 4 = 3 /\ m.len >= 7 THEN At(m, 6) ELSE 1>>

(* h: target_phys_addr, hec_func_state, host_func_state, enc_func_state,   *)
(* cdc_errcode, has_field, hec_field                                       *)
cec_msg_cdc_hec_report_state(h) ==
  LET states == h[2] * 64 + h[3] * 16 + h[4] * 4 + h[5]
      field == IF h[6] = 1 THEN U16(h[7]) ELSE <<>>
  IN  Frame(\hf8, 8 + Len(field), Broadcast, Left, 4,
            <<\h01>> \o U16(h[1]) \o <<states>> \o field)

cec_ops_cdc_hec_report_state(m) ==
  LET states == At(m, 7)
      has_field == m.len >= 10
  IN  <<Get16(m, 2), Get16(m, 5), states \div 64, (states \div 16) % 4,
        (states \div 16) % 4, states % 4, IF has_field THEN 1 ELSE 0,
        IF has_field THEN Get16(m, 8) ELSE 0>>

(* h: phys_addr1, phys_addr2, hec_set_state, phys_addr3 ... phys_addr5, of *)
(* which those before the first invalid one are sent                       *)
cec_msg_cdc_hec_set_state(h) ==
  LET n == CASE h[4] = Invalid -> 0 [] h[5] = Invalid -> 1 [] h[6] = Invalid -> 2
             [] OTHER -> 3
      more == FlattenSeq([i \in 1..n |-> U16(h[3 + i])])
  IN  Frame(\hf8, 10 + Len(more), Broadcast, Left, 4,
            <<\h00>> \o U16(h[1]) \o U16(h[2]) \o <<h[3]>> \o more)

cec_ops_cdc_hec_set_state(m) ==
  <<Get16(m, 2), Get16(m, 5), Get16(m, 7), At(m, 9)>> \o
  [i \in 1..3 |-> IF m.len >= 10 + 2 * i THEN Get16(m, 8 + 2 * i) ELSE Invalid]

-----------------------------------------------------------------------------
(* The call of the packing function of the message op. *)
Packed(op, reply, fields) ==
  IF op \in DOMAIN Table THEN TableFrame(op, reply, fields)
  ELSE LET f == fields[1]
       IN  CASE op = "record_on" -> cec_msg_record_on(reply, f)
             [] op = "timer_status" -> cec_msg_timer_status(f)
             [] op = "set_timer_program_title" -> TextFrame(\h67, <<>>, f)
             [] op = "set_osd_name" -> TextFrame(\h47, <<>>, f)
             [] op = "set_osd_string" -> TextFrame(\h64, <<f[1]>>, Tail(f))
             [] op = "vendor_command" -> TextFrame(\h89, <<>>, Tail(f))
             [] op = "vendor_remote_button_down" -> TextFrame(\h8a, <<>>, Tail(f))
             [] op = "vendor_command_with_id" ->
                  TextFrame(\ha0, U24(f[1]), SubSeq(f, 3, Len(f)))
             [] op = "report_features" -> cec_msg_report_features(f)
             [] op = "tuner_device_status" -> cec_msg_tuner_device_status(f)
             [] op = "user_control_pressed" -> cec_msg_user_control_pressed(f)
             [] op = "system_audio_mode_request" -> cec_msg_system_audio_mode_request(reply, f)
             [] op = "report_short_audio_descriptor" ->
                  cec_msg_report_short_audio_descriptor(f)
             [] op = "request_short_audio_descriptor" ->
                  cec_msg_request_short_audio_descriptor(reply, f)
             [] op = "report_current_latency" -> cec_msg_report_current_latency(f)
             [] op = "cdc_hec_report_state" -> cec_msg_cdc_hec_report_state(f)
             [] op = "cdc_hec_set_state" -> cec_msg_cdc_hec_set_state(f)

(* The opcodes of the messages that are not in the table, and cdc opcodes. *)
Others ==
  [record_on |-> \h09, timer_status |-> \h35, set_timer_program_title |-> \h67,
   set_osd_name |-> \h47, set_osd_string |-> \h64, vendor_command |-> \h89,
   vendor_remote_button_down |-> \h8a, vendor_command_with_id |-> \ha0,
   report_features |-> \ha6, tuner_device_status |-> \h07,
   user_control_pressed |-> \h44, system_audio_mode_request |-> \h70,
   report_short_audio_descriptor |-> \ha3, request_short_audio_descriptor |-> \ha4,
   report_current_latency |-> \ha8]
OtherCDC == [cdc_hec_report_state |-> \h01, cdc_hec_set_state |-> \h03]

Ops == DOMAIN Table \cup DOMAIN Others \cup DOMAIN OtherCDC

(* The unpacking function for the message op. *)
Unpacked(op, m) ==
  CASE op \in DOMAIN Table -> TableOps(op, m)
    [] op = "record_on" -> cec_ops_record_on(m)
    [] op = "timer_status" -> cec_ops_timer_status(m)
    [] op \in {"set_timer_program_title", "set_osd_name"} -> cec_ops_set_osd_name(m)
    [] op = "set_osd_string" -> cec_ops_set_osd_string(m)
    [] op \in {"vendor_command", "vendor_remote_button_down"} -> cec_ops_vendor_command(m)
    [] op = "vendor_command_with_id" -> cec_ops_vendor_command_with_id(m)
    [] op = "report_features" -> cec_ops_report_features(m)
    [] op = "tuner_device_status" -> cec_ops_tuner_device_status(m)
    [] op = "user_control_pressed" -> cec_ops_user_control_pressed(m)
    [] op = "system_audio_mode_request" -> cec_ops_system_audio_mode_request(m)
    [] op = "report_short_audio_descriptor" -> cec_ops_report_short_audio_descriptor(m)
    [] op = "request_short_audio_descriptor" -> cec_ops_request_short_audio_descriptor(m)
    [] op = "report_current_latency" -> cec_ops_report_current_latency(m)
    [] op = "cdc_hec_report_state" -> cec_ops_cdc_hec_report_state(m)
    [] op = "cdc_hec_set_state" -> cec_ops_cdc_hec_set_state(m)
=============================================================================
