--------------------------- MODULE MCCecExchange ----------------------------
(* Calls of every packing function: two values of each operand, operands   *)
(* changed one at a time, and for the messages with optional operands, or  *)
(* with texts and lists, lengths on both sides of every limit.             *)
EXTENDS CecExchange

Values(kind) ==
  CASE kind = "u8"      -> <<<<1>>, <<254>>>>
    [] kind = "u16"     -> <<<<\h1203>>, <<\hfffe>>>>
    [] kind = "u24"     -> <<<<\h123456>>, <<\hff0001>>>>
    [] kind = "bcd"     -> <<<<9>>, <<59>>>>
    [] kind = "flag"    -> <<<<0, 127>>, <<1, 2>>>>
    [] kind = "nibbles" -> <<<<3, 12>>, <<15, 0>>>>
    [] kind = "string"  -> <<<<101, 110, 103>>, <<102, 114, 101>>>>
    [] kind = "digital" -> <<<<0, 8, 1, 2, \h304>>, <<0, 16, \h102, 3, 0>>,
                             <<1, 9, 2, 255, \h102>>>>

Fields(kinds) ==
  LET base == [i \in DOMAIN kinds |-> Values(kinds[i])[1]]
  IN  {base} \cup UNION {{[base EXCEPT ![i] = v] : v \in ToSet(Values(kinds[i]))} :
                          i \in DOMAIN kinds}

Text(n) == [i \in 1..n |-> 64 + i]

Special(op) ==
  CASE op = "record_on" -> {<<1>>, <<2, 0, 8, 1, 2, \h304>>, <<2, 1, 9, 1, 255, 7>>,
                            <<3, 2, \h1203, 7>>, <<4, 5>>, <<5, \h1203>>}
    [] op = "timer_status" -> {<<1, 2, 8, 0, 0, 0>>, <<0, 1, 9, 0, 12, 45>>, <<0, 1, 11, 0, 1, 2>>,
                               <<1, 0, 0, 13, 0, 0>>, <<0, 2, 0, 14, 23, 59>>}
    [] op \in {"set_timer_program_title", "set_osd_name"} ->
         {Text(n) : n \in {0, 1, 13, 14, 15}}
    [] op = "set_osd_string" -> {<<64>> \o Text(n) : n \in {0, 12, 13, 14}}
    [] op \in {"vendor_command", "vendor_remote_button_down"} ->
         {<<n>> \o Text(n) : n \in {0, 1, 14, 15}}
    [] op = "vendor_command_with_id" -> {<<\h123456, n>> \o Text(n) : n \in {0, 10, 11, 12}}
    [] op = "report_features" -> {<<6, 128, 2, 64>>, <<5, 0, 64, 127>>}
    [] op = "tuner_device_status" -> {<<1, 1, 0, 2, \h1203, 7>>, <<0, 0, 1, 0, 8, 1, 2, \h304>>,
                                      <<0, 1, 2, 1, 9, 2, 200, 3>>}
    [] op = "user_control_pressed" -> {<<1, 0>>, <<\h60, 0>>, <<\h60, 1, 3>>, <<Tune, 0>>,
                                       <<Tune, 1, 2, 17, \h102>>, <<Tune, 1, 2, 673, 5>>}
    [] op = "system_audio_mode_request" -> {<<Invalid>>, <<\h1203>>}
    [] op = "report_short_audio_descriptor" ->
         {<<n>> \o [i \in 1..n |-> \h090700 + i] : n \in {0, 1, 4, 5}}
    [] op = "request_short_audio_descriptor" ->
         {<<n>> \o [i \in 1..(2 * n) |-> i % 4] : n \in {0, 1, 4, 5}}
    [] op = "report_current_latency" -> {<<\h1203, 5, 1, 3, 9>>, <<\h1203, 5, 0, 2, 1>>}
    [] op = "cdc_hec_report_state" -> {<<\h1203, 2, 1, 0, 3, 0, 0>>, <<\h1203, 1, 0, 2, 1, 1, \h89ab>>}
    [] op = "cdc_hec_set_state" -> {<<\h1203, \h1100, 1, Invalid, Invalid, Invalid>>,
                                    <<\h1203, \h1100, 0, \h1200, \h1300, \h1400>>}

HasReply(op) ==
  \/ op \in DOMAIN Table /\ Table[op].reply # Left
  \/ op \in {"record_on", "system_audio_mode_request", "request_short_audio_descriptor"}

MCCalls ==
  LET In(op) == IF op \in DOMAIN Table THEN Fields(Table[op].kinds)
                ELSE {<<s>> : s \in Special(op)}
      Of(op) == {[op |-> op, reply |-> r, fields |-> f] :
                   r \in (IF HasReply(op) THEN BOOLEAN ELSE {FALSE}), f \in In(op)}
  IN  UNION {Of(op) : op \in Ops}

(* A request that asks for a reply and one that fills the whole struct. *)
MCAnswered ==
  {c \in MCCalls : \/ c.op = "give_device_power_status" /\ c.reply
                   \/ c.op = "vendor_command" /\ c.fields[1][1] = 14
                   \/ c.op = "record_on" /\ c.reply /\ c.fields[1][1] = 2}

MCAddresses == {<<8, 5>>}
MCStale == {0, 255}
MCPhysAddr == \h2130
=============================================================================
