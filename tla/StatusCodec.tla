---------------------------- MODULE StatusCodec ----------------------------
(***************************************************************************)
(* main/status_codec.c: the 11-byte status packet of a SmartReef device.    *)
(***************************************************************************)
EXTENDS Integers, Sequences

Byte == 0 .. 255
Uint16 == {x \in Int : 0 <= x /\ x < 65536}
Int16 == {x \in Int : -32768 <= x /\ x < 32768}

\* A status the device can measure, and gateway_status_t without its stamp.
Status == [temp_x10 : Int16, ph_x100 : Uint16, water_ok : BOOLEAN,
           light : BOOLEAN, heater : BOOLEAN, pump : BOOLEAN,
           ctrl_mode_auto : BOOLEAN, alarm_enable : BOOLEAN, seq : Byte]

ReadU16(low, high) == low + 256 * high
ReadI16(low, high) ==
  IF high < 128 THEN ReadU16(low, high) ELSE ReadU16(low, high) - 65536

\* status_codec_parse_packet: what it accepts, and what it makes of it.
Accepts(data) == Len(data) = 11 /\ data[1] = 83 /\ data[2] = 1
ParsePacket(data) ==
  [temp_x10 |-> ReadI16(data[3], data[4]), ph_x100 |-> ReadU16(data[5], data[6]),
   water_ok |-> data[7] = 1,
   light |-> data[8] % 2 = 1, heater |-> (data[8] \div 2) % 2 = 1,
   pump |-> (data[8] \div 4) % 2 = 1,
   ctrl_mode_auto |-> data[9] = 1, alarm_enable |-> data[10] = 1,
   seq |-> data[11]]

\* The packet a device sends for a status: little-endian, two's complement,
\* outputs as bits.
Bit(b) == IF b THEN 1 ELSE 0
Packet(s) ==
  <<83, 1, s.temp_x10 % 256, (s.temp_x10 \div 256) % 256,
    s.ph_x100 % 256, s.ph_x100 \div 256, Bit(s.water_ok),
    Bit(s.light) + 2 * Bit(s.heater) + 4 * Bit(s.pump),
    Bit(s.ctrl_mode_auto), Bit(s.alarm_enable), s.seq>>
=============================================================================
