--------------------------- MODULE GroundPackets ----------------------------
(***************************************************************************)
(* The ground's side of the wire: packets.py over the tables of            *)
(* dictionary.py, an implementation of the same standards that shares no   *)
(* code with the flight software.  A packet is a sequence of octets; what  *)
(* struct unpacks to more than 16 bits is a sequence of 16-bit words.      *)
(***************************************************************************)
EXTENDS Bits, Sequences

STRUCT_CODES == [uint8 |-> "B", uint16 |-> "H", uint32 |-> "I", float32 |-> "f", float64 |-> "d"]

\* The struct module (external), big-endian.
Calcsize(code) == CASE code = "B" -> 1 [] code = "H" -> 2 [] code \in {"I", "f"} -> 4 [] code = "d" -> 8
Halves(w) == <<w \div 256, w % 256>>
Pack(code, v) ==
  CASE code = "B" -> <<v>>
    [] code = "H" -> Halves(v)
    [] OTHER      -> [n \in 1 .. 2 * Len(v) |-> Halves(v[(n + 1) \div 2])[2 - (n % 2)]]
UnpackFrom(code, data, offset) ==
  LET octet(k) == data[offset + k]
      word(k)  == 256 * octet(2 * k - 1) + octet(2 * k)
  IN CASE code = "B" -> octet(1)
       [] code = "H" -> word(1)
       [] OTHER      -> [k \in 1 .. Calcsize(code) \div 2 |-> word(k)]

-----------------------------------------------------------------------------
APIDS == [TTC |-> 1, ADCS |-> 2, EPS |-> 3, GND |-> 10]

\* Names by value, as _decode_housekeeping inverts the tables.
ENUMS ==
  [SystemMode   |-> <<"BOOT", "SAFE", "DETUMBLE", "STANDBY", "POINTING">>,
   AdcsEstState |-> <<"INVALID", "INITIALISING", "CONVERGING", "CONVERGED">>,
   PowerState   |-> <<"UNKNOWN", "NOMINAL", "LOW", "CRITICAL">>]
EnumNumber(enum, name) == (CHOOSE k \in DOMAIN ENUMS[enum] : ENUMS[enum][k] = name) - 1

NoEnum == "None"
Typed(type, names) == [k \in DOMAIN names |-> <<names[k], type, NoEnum>>]

\* name -> (sid, fields), the units left out.
TELEMETRY ==
  [SYS_HK |-> [sid |-> 1, fields |->
     Typed("uint32", <<"uptime_s", "tick_count">>) \o <<<<"mode", "uint8", "SystemMode">>>>
     \o Typed("uint16", <<"boot_count">>) \o Typed("uint8", <<"cpu_load_pct">>)
     \o Typed("uint16", <<"sched_overruns">>)
     \o Typed("uint32", <<"tc_received", "tc_rejected", "tm_sent">>)
     \o Typed("uint8", <<"link_up">>) \o Typed("uint32", <<"events_logged">>)
     \o Typed("uint16", <<"last_event_id">>)],
   ADCS_HK |-> [sid |-> 2, fields |->
     <<<<"est_state", "uint8", "AdcsEstState">>>>
     \o Typed("float32", <<"q_est_0", "q_est_1", "q_est_2", "q_est_3", "omega_x", "omega_y",
                           "omega_z", "gyro_bias_x", "gyro_bias_y", "gyro_bias_z",
                           "pointing_err_deg", "rate_norm">>)
     \o Typed("uint8", <<"sun_valid", "mag_valid", "eclipse">>)
     \o Typed("float32", <<"torque_cmd_x", "torque_cmd_y", "torque_cmd_z">>)
     \o Typed("float64", <<"pos_eci_x", "pos_eci_y", "pos_eci_z">>)],
   EPS_HK |-> [sid |-> 3, fields |->
     <<<<"power_state", "uint8", "PowerState">>>>
     \o Typed("float32", <<"batt_voltage", "batt_current", "batt_soc_pct", "batt_temp_c",
                           "solar_power_w", "load_power_w">>)
     \o Typed("uint16", <<"rails_enabled">>) \o Typed("uint8", <<"shed_level">>)]]

COMMANDS ==
  [TEST_CONNECTION |-> <<17, 1, <<>>>>,
   ENABLE_HK       |-> <<3, 5, Typed("uint8", <<"sid">>)>>,
   DISABLE_HK      |-> <<3, 6, Typed("uint8", <<"sid">>)>>,
   REPORT_PARAM    |-> <<20, 1, Typed("uint16", <<"param_id">>)>>,
   SET_PARAM       |-> <<20, 3, Typed("uint16", <<"param_id">>) \o Typed("float64", <<"value">>)>>,
   SET_MODE        |-> <<8, 1, <<<<"mode", "uint8", "SystemMode">>>>>>,
   RESET_COUNTERS  |-> <<8, 2, <<>>>>]

EVENTS ==
  <<"BOOT_COMPLETE", "MODE_CHANGED", "LINK_CONNECTED", "LINK_LOST", "TC_REJECTED", "HK_ENABLED",
    "HK_DISABLED", "PARAM_SET", "SCHED_OVERRUN", "MODE_REFUSED", "SAFE_MODE_ENTERED">>

PARAMS ==
  <<"SYS_HK_PERIOD_MS", "ADCS_HK_PERIOD_MS", "EPS_HK_PERIOD_MS", "DETUMBLE_RATE_DPS",
    "POINTING_RATE_DPS", "BATT_LOW_SOC_PCT", "BATT_CRIT_SOC_PCT", "LINK_TIMEOUT_S">>

FAILURE_CODES == <<"OK", "BAD_CRC", "BAD_LENGTH", "UNKNOWN_SERVICE", "ILLEGAL_ARG", "UNAVAILABLE",
                   "REFUSED">>

SEVERITY_NAMES == <<"INFO", "LOW", "MEDIUM", "HIGH">>

VERIF_NAMES == [k \in {1, 2, 7, 8} |->
  CASE k = 1 -> "VERIF_ACCEPT_OK"   [] k = 2 -> "VERIF_ACCEPT_FAIL"
    [] k = 7 -> "VERIF_COMPLETE_OK" [] k = 8 -> "VERIF_COMPLETE_FAIL"]

-----------------------------------------------------------------------------
\* crc16().  Eight rounds of the inner loop from a CRC that is zero in its low
\* octet, which they only move; and the rounds of one byte.
Round(crc) == IF crc >= 32768 THEN Xor(2 * crc, 69665) ELSE 2 * crc
RoundTwice(crc) == Round(Round(crc))
Rounds == [b \in Octet |-> RoundTwice(RoundTwice(RoundTwice(RoundTwice(256 * b))))]

Folded(byte) == [crc \in Word |->
  LET rounds == Rounds[XorOctet[crc \div 256][byte]]
  IN 256 * XorOctet[rounds \div 256][crc % 256] + (rounds % 256)]

CrcsOf(data) ==
  LET crc[n \in 0 .. Len(data)] == IF n = 0 THEN 65535 ELSE Folded(data[n])[crc[n - 1]] IN crc

CrcOf(data) == CrcsOf(data)[Len(data)]

-----------------------------------------------------------------------------
\* build_tc(), for a command of the dictionary with all its arguments.
ArgNumber(arg, args) == IF arg[3] = NoEnum THEN args[arg[1]] ELSE EnumNumber(arg[3], args[arg[1]])

Payload(spec, args) ==
  LET payload[k \in 0 .. Len(spec)] ==
        IF k = 0 THEN <<>>
                 ELSE payload[k - 1] \o Pack(STRUCT_CODES[spec[k][2]], ArgNumber(spec[k], args))
  IN payload[Len(spec)]

Word0 == 4096 + 2048 + APIDS.GND
Word1(sequence_count) == 3 * 16384 + (sequence_count % 16384)

BuildTc(name, sequence_count, args) ==
  LET payload == Payload(COMMANDS[name][3], args)
      packet  == Pack("H", Word0) \o Pack("H", Word1(sequence_count))
                 \o Pack("H", 5 + Len(payload) + 2 - 1)
                 \o <<2 * 16 + 9, COMMANDS[name][1], COMMANDS[name][2]>> \o Pack("H", 0)
                 \o payload
  IN packet \o Pack("H", CrcOf(packet))

-----------------------------------------------------------------------------
\* parse_tm().  A name is a string, or a pair where it is put together.  Units,
\* descriptions, and the fields read before one that is missing, are left out.
NamedBy(names, n) == IF n \in DOMAIN names THEN names[n] ELSE n

Undecodable(name) == [name |-> <<name, "UNDECODABLE">>, fields |-> <<>>]

\* Where the fields of a structure are, behind its number.
Offsets(fields) ==
  LET offset[k \in 0 .. Len(fields)] ==
        IF k = 0 THEN 1 ELSE offset[k - 1] + Calcsize(STRUCT_CODES[fields[k][2]])
  IN offset

Shown(field, value) == IF field[3] = NoEnum THEN value ELSE NamedBy(ENUMS[field[3]], value + 1)

FieldsShown(fields, payload) ==
  LET value(k) == UnpackFrom(STRUCT_CODES[fields[k][2]], payload, Offsets(fields)[k - 1])
      index(f) == CHOOSE k \in DOMAIN fields : fields[k][1] = f
  IN [f \in {fields[k][1] : k \in DOMAIN fields} |-> Shown(fields[index(f)], value(index(f)))]

DecodeHousekeeping(payload) ==
  LET found  == {n \in DOMAIN TELEMETRY : TELEMETRY[n].sid = payload[1]}
      name   == CHOOSE n \in found : TRUE
      fields == TELEMETRY[name].fields
  IN IF payload = <<>> THEN Undecodable("UNKNOWN")
     ELSE IF found = {} THEN [name |-> <<"HK", payload[1]>>, fields |-> <<>>]
     ELSE IF Offsets(fields)[Len(fields)] > Len(payload) THEN Undecodable(name)
     ELSE [name |-> name, fields |-> FieldsShown(fields, payload)]

DecodeEvent(subtype, payload) ==
  LET id  == UnpackFrom("H", payload, 0)
      aux == UnpackFrom("I", payload, 2)
      rejected == id \in DOMAIN EVENTS /\ EVENTS[id] = "TC_REJECTED"
      named    == aux[1] = 0 /\ aux[2] + 1 \in DOMAIN FAILURE_CODES
  IN IF Len(payload) < 6 THEN Undecodable(<<"EVENT", NamedBy(SEVERITY_NAMES, subtype)>>)
     ELSE [name |-> <<"EVENT", NamedBy(SEVERITY_NAMES, subtype)>>,
           fields |-> [event_id |-> id, event_name |-> NamedBy(EVENTS, id),
                       aux |-> IF rejected /\ named THEN FAILURE_CODES[aux[2] + 1] ELSE aux]]

DecodeVerification(subtype, payload) ==
  LET apid    == UnpackFrom("H", payload, 0)
      seqcnt  == UnpackFrom("H", payload, 2)
      failure == NamedBy(FAILURE_CODES, UnpackFrom("H", payload, 4) + 1)
  IN IF Len(payload) < 4 THEN Undecodable(NamedBy(VERIF_NAMES, subtype))
     ELSE [name |-> NamedBy(VERIF_NAMES, subtype),
           fields |-> IF subtype \in {2, 8} /\ Len(payload) >= 6
                        THEN [req_apid |-> apid, req_seqcnt |-> seqcnt, failure |-> failure]
                        ELSE [req_apid |-> apid, req_seqcnt |-> seqcnt]]

DecodeParamReport(payload) ==
  LET id == UnpackFrom("H", payload, 0)
  IN IF Len(payload) < 10 THEN Undecodable("PARAM_REPORT")
     ELSE [name |-> "PARAM_REPORT",
           fields |-> [param_id |-> id, param_name |-> NamedBy(PARAMS, id),
                       value |-> UnpackFrom("d", payload, 2)]]

DecodePayload(service, subtype, payload) ==
  CASE service = 3 /\ subtype = 25  -> DecodeHousekeeping(payload)
    [] service = 5                  -> DecodeEvent(subtype, payload)
    [] service = 1                  -> DecodeVerification(subtype, payload)
    [] service = 17 /\ subtype = 2  -> [name |-> "TEST_REPORT", fields |-> <<>>]
    [] service = 20 /\ subtype = 2  -> DecodeParamReport(payload)
    [] OTHER                        -> [name |-> <<service, subtype>>, fields |-> <<>>]

TRUNCATED == [name |-> "TRUNCATED", crc_ok |-> FALSE]

ParseTm(packet) ==
  LET payload == SubSeq(packet, 20, Len(packet) - 2)
      decoded == DecodePayload(packet[8], packet[9], payload)
  IN IF Len(packet) < 21 THEN TRUNCATED
     ELSE [name |-> decoded.name, fields |-> decoded.fields, crc_ok |-> CrcOf(packet) = 0,
           apid           |-> UnpackFrom("H", packet, 0) % 2048,
           sequence_count |-> UnpackFrom("H", packet, 2) % 16384,
           service |-> packet[8], subtype |-> packet[9],
           message_count |-> UnpackFrom("H", packet, 9),
           destination   |-> UnpackFrom("H", packet, 11),
           coarse |-> UnpackFrom("I", packet, 13), fine |-> UnpackFrom("H", packet, 17)]
=============================================================================
