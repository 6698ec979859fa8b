----------------------------- MODULE Dictionary -----------------------------
(***************************************************************************)
(* The tables generated for the flight software: numbers behind the names, *)
(* the telecommands with their argument blocks, and the field block of     *)
(* every housekeeping structure, in the order serialize() writes it.       *)
(***************************************************************************)
EXTENDS Integers, Sequences, SequencesExt

Apid  == [TTC |-> 1, ADCS |-> 2, EPS |-> 3, GND |-> 10]
HkSid == [SYS_HK |-> 1, ADCS_HK |-> 2, EPS_HK |-> 3]

SystemMode   == [BOOT |-> 0, SAFE |-> 1, DETUMBLE |-> 2, STANDBY |-> 3, POINTING |-> 4]
AdcsEstState == [INVALID |-> 0, INITIALISING |-> 1, CONVERGING |-> 2, CONVERGED |-> 3]
PowerState   == [UNKNOWN |-> 0, NOMINAL |-> 1, LOW |-> 2, CRITICAL |-> 3]
Severity     == [INFO |-> 1, LOW |-> 2, MEDIUM |-> 3, HIGH |-> 4]
FailureCode  == [Ok |-> 0, BadCrc |-> 1, BadLength |-> 2, UnknownService |-> 3,
                 IllegalArg |-> 4, Unavailable |-> 5, Refused |-> 6]

EventId ==
  [BOOT_COMPLETE |-> 1, MODE_CHANGED |-> 2, LINK_CONNECTED |-> 3, LINK_LOST |-> 4,
   TC_REJECTED |-> 5, HK_ENABLED |-> 6, HK_DISABLED |-> 7, PARAM_SET |-> 8,
   SCHED_OVERRUN |-> 9, MODE_REFUSED |-> 10, SAFE_MODE_ENTERED |-> 11]

EventSeverity(event) ==
  CASE event \in {"LINK_LOST", "TC_REJECTED", "MODE_REFUSED"} -> Severity.LOW
    [] event = "SCHED_OVERRUN"     -> Severity.MEDIUM
    [] event = "SAFE_MODE_ENTERED" -> Severity.HIGH
    [] OTHER                       -> Severity.INFO

ParamId ==
  [SYS_HK_PERIOD_MS |-> 1, ADCS_HK_PERIOD_MS |-> 2, EPS_HK_PERIOD_MS |-> 3,
   DETUMBLE_RATE_DPS |-> 4, POINTING_RATE_DPS |-> 5, BATT_LOW_SOC_PCT |-> 6,
   BATT_CRIT_SOC_PCT |-> 7, LINK_TIMEOUT_S |-> 8]

-----------------------------------------------------------------------------
Command(name, service, subtype, arg_bytes) ==
  [name |-> name, service |-> service, subtype |-> subtype, arg_bytes |-> arg_bytes]

kCommands ==
  {Command("TEST_CONNECTION", 17, 1, 0), Command("ENABLE_HK", 3, 5, 1),
   Command("DISABLE_HK", 3, 6, 1), Command("REPORT_PARAM", 20, 1, 2),
   Command("SET_PARAM", 20, 3, 10), Command("SET_MODE", 8, 1, 1),
   Command("RESET_COUNTERS", 8, 2, 0)}

\* find_command(): at most one entry matches.
FindCommand(service, subtype) ==
  {c \in kCommands : c.service = service /\ c.subtype = subtype}

\* The Args structures, read by deserialize() or field by field in the handlers.
ArgsLayout(name) ==
  CASE name \in {"ENABLE_HK", "DISABLE_HK"} -> <<<<"sid", "uint8">>>>
    [] name = "REPORT_PARAM" -> <<<<"param_id", "uint16">>>>
    [] name = "SET_PARAM"    -> <<<<"param_id", "uint16">>, <<"value", "float64">>>>
    [] name = "SET_MODE"     -> <<<<"mode", "uint8">>>>
    [] OTHER                 -> <<>>

-----------------------------------------------------------------------------
Fields(type, names) == [k \in DOMAIN names |-> <<names[k], type>>]

SysHk ==
  Fields("uint32", <<"uptime_s", "tick_count">>) \o <<<<"mode", "uint8">>>>
  \o Fields("uint16", <<"boot_count">>) \o Fields("uint8", <<"cpu_load_pct">>)
  \o Fields("uint16", <<"sched_overruns">>)
  \o Fields("uint32", <<"tc_received", "tc_rejected", "tm_sent">>)
  \o Fields("uint8", <<"link_up">>) \o Fields("uint32", <<"events_logged">>)
  \o Fields("uint16", <<"last_event_id">>)

AdcsHk ==
  <<<<"est_state", "uint8">>>>
  \o Fields("float32", <<"q_est_0", "q_est_1", "q_est_2", "q_est_3",
                         "omega_x", "omega_y", "omega_z",
                         "gyro_bias_x", "gyro_bias_y", "gyro_bias_z",
                         "pointing_err_deg", "rate_norm">>)
  \o Fields("uint8", <<"sun_valid", "mag_valid", "eclipse">>)
  \o Fields("float32", <<"torque_cmd_x", "torque_cmd_y", "torque_cmd_z">>)
  \o Fields("float64", <<"pos_eci_x", "pos_eci_y", "pos_eci_z">>)

EpsHk ==
  <<<<"power_state", "uint8">>>>
  \o Fields("float32", <<"batt_voltage", "batt_current", "batt_soc_pct", "batt_temp_c",
                         "solar_power_w", "load_power_w">>)
  \o Fields("uint16", <<"rails_enabled">>) \o Fields("uint8", <<"shed_level">>)

\* Mutant of HkLayout: two counters written in each other's place.
HkLayoutSwapped(sid) ==
  CASE sid = "SYS_HK"  -> ReplaceAt(ReplaceAt(SysHk, 7, SysHk[8]), 8, SysHk[7])
    [] sid = "ADCS_HK" -> AdcsHk
    [] sid = "EPS_HK"  -> EpsHk

HkLayout(sid) ==
  CASE sid = "SYS_HK" -> SysHk [] sid = "ADCS_HK" -> AdcsHk [] sid = "EPS_HK" -> EpsHk
=============================================================================
