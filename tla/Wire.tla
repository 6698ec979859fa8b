-------------------------------- MODULE Wire --------------------------------
(***************************************************************************)
(* The two ends of the space link against each other, octet by octet: a    *)
(* telecommand that build_tc() makes, on its way through the receive       *)
(* buffer to its handler; the verification reports it is answered with and *)
(* every other telemetry packet, on their way to parse_tm().  On the way a *)
(* burst may damage either, and the uplink may be handed what the downlink *)
(* carries.                                                                *)
(***************************************************************************)
EXTENDS FlightPackets, GroundPackets

CONSTANTS
  Orders,     \* what the ground may command: sequence of [name, args]
  Reports,    \* what the flight software may report by itself: sequence of
              \* [kind, ...] as Built takes them
  Stamps,     \* the counters and times a packet may be stamped with
  Counts,     \* sequence counts of the ground's client
  Bursts      \* up to sixteen bits each, as octets to xor onto the wire

\* A command of the dictionary with an argument of its type for each it takes.
IsOrder(o) ==
  LET spec == COMMANDS[o.name][3]
  IN /\ o.name \in DOMAIN COMMANDS
     /\ DOMAIN o.args = {spec[k][1] : k \in DOMAIN spec}
     /\ \A k \in DOMAIN spec :
          IF spec[k][3] = NoEnum
            THEN o.args[spec[k][1]] \in Values(spec[k][2])
            ELSE \E n \in DOMAIN ENUMS[spec[k][3]] : o.args[spec[k][1]] = ENUMS[spec[k][3]][n]

\* The fields of a housekeeping structure that hold a number of an enumeration.
Enumeration == [mode |-> SystemMode, est_state |-> AdcsEstState, power_state |-> PowerState]

\* Values a report's fields can hold; a rejection is logged with its code.
IsReport(r) ==
  \/ r.kind = "test"
  \/ r.kind = "param" /\ r.param \in DOMAIN ParamId /\ r.value \in Values("float64")
  \/ /\ r.kind = "event" /\ r.event \in DOMAIN EventId /\ r.aux \in Values("uint32")
     /\ r.event = "TC_REJECTED" => \E f \in DOMAIN FailureCode : r.aux = <<0, FailureCode[f]>>
  \/ /\ r.kind = "hk" /\ r.sid \in DOMAIN HkSid
     /\ DOMAIN r.values = {HkLayout(r.sid)[k][1] : k \in DOMAIN HkLayout(r.sid)}
     /\ \A k \in DOMAIN HkLayout(r.sid) : r.values[HkLayout(r.sid)[k][1]] \in Values(HkLayout(r.sid)[k][2])
     /\ \A f \in DOMAIN r.values \cap DOMAIN Enumeration :
          \E m \in DOMAIN Enumeration[f] : r.values[f] = Enumeration[f][m]

\* Seconds as 32 bits.
IsStamp(s) ==
  /\ s.seq \in Word /\ s.seq = SeqCountMask(s.seq) /\ s.count \in Word
  /\ s.us \in Nat /\ Coarse(s.us) \div 65536 \in Word

\* Sixteen bits or fewer in a row, some of them inverted.  In three octets, the
\* last of them comes no later in its octet than the first in its own.
Powers == {1, 2, 4, 8, 16, 32, 64, 128, 256}
IsBurst(b) ==
  /\ b \in Seq(Octet) /\ Len(b) \in 1 .. 3 /\ \E k \in 1 .. Len(b) : b[k] # 0
  /\ Len(b) = 3 => \E p \in Powers : b[1] < p /\ b[3] % p = 0

ASSUME WireAssumption ==
  /\ \A k \in DOMAIN Orders : IsOrder(Orders[k])
  /\ \A k \in DOMAIN Reports : IsReport(Reports[k])
  /\ \A s \in Stamps : IsStamp(s)
  /\ Counts \subseteq Nat
  /\ \A b \in Bursts : IsBurst(b)

VARIABLES
  stage,      \* "idle", "up", "taken", "down" or "read"
  order,      \* what the ground meant, with its sequence count; or NoOrder
  report,     \* what the flight software meant; or NoReport
  stamped,    \* the stamp its packet took; or NoStamp
  octets,     \* on the wire
  intact,     \* no burst hit them
  taken,      \* the outcomes of drain_rx_buffer()
  reading     \* what parse_tm() returned

vars == <<stage, order, report, stamped, octets, intact, taken, reading>>

NoOrder   == [name |-> "none"]
NoReport  == [kind |-> "none"]
NoStamp   == [seq |-> 0, count |-> 0, us |-> 0]
NoReading == [name |-> "none"]

Init ==
  /\ stage = "idle" /\ order = NoOrder /\ report = NoReport /\ stamped = NoStamp
  /\ octets = <<>> /\ intact = TRUE /\ taken = <<>> /\ reading = NoReading

-----------------------------------------------------------------------------
GroundSends(k, count) ==
  /\ stage = "idle" /\ stage' = "up"
  /\ order' = [name |-> Orders[k].name, args |-> Orders[k].args, seq |-> count]
  /\ octets' = BuildTc(Orders[k].name, count, Orders[k].args)
  /\ UNCHANGED <<report, stamped, intact, taken, reading>>

Hit(data, burst, at) ==
  [k \in DOMAIN data |->
     IF k \in at + 1 .. at + Len(burst) THEN XorOctet[data[k]][burst[k - at]] ELSE data[k]]

Damage(burst, at) ==
  /\ stage = "down" \/ (stage = "up" /\ taken = <<>>)
  /\ intact /\ at + Len(burst) <= Len(octets)
  /\ octets' = Hit(octets, burst, at)
  /\ intact' = FALSE
  /\ UNCHANGED <<stage, order, report, stamped, taken, reading>>

\* pump_link() on an empty buffer: a turn of the framing loop, and its end.
DrainOne ==
  /\ stage = "up" /\ Drainable(octets)
  /\ taken' = Append(taken, Outcome(octets))
  /\ octets' = SubSeq(octets, Consumed(octets) + 1, Len(octets))
  /\ UNCHANGED <<stage, order, report, stamped, intact, reading>>

FlightTakes ==
  /\ stage = "up" /\ ~Drainable(octets)
  /\ stage' = "taken"
  /\ UNCHANGED <<order, report, stamped, octets, intact, taken, reading>>

Built(r, stamp) ==
  CASE r.kind = "verification" -> Verification(r.request, r.subtype, r.failure, stamp)
    [] r.kind = "test"         -> TestReport(stamp)
    [] r.kind = "param"        -> ParamReport(r.param, r.value, stamp)
    [] r.kind = "event"        -> EventReport(r.event, r.aux, stamp)
    [] r.kind = "hk"           -> HkReport(r.sid, r.values, stamp)

FlightSends(r, stamp) ==
  /\ stage' = "down"
  /\ report' = r /\ stamped' = stamp
  /\ octets' = Built(r, stamp) /\ intact' = TRUE
  /\ UNCHANGED <<order, taken, reading>>

\* The reports handle_tc() answers with, as the flags of the request ask.
Wants(outcome, flag) == outcome.parsed /\ (outcome.acks \div flag) % 2 = 1
Verifications(o) ==
  LET Says(subtype, failure) ==
        [kind |-> "verification", request |-> [apid |-> o.apid, seq |-> o.seq],
         subtype |-> subtype, failure |-> failure]
      results == {"UnknownService", "BadLength", "IllegalArg"}
  IN (IF Wants(o, 1) THEN {IF o.verdict = "Ok" THEN Says(1, "Ok") ELSE Says(2, o.verdict)} ELSE {})
     \cup (IF Wants(o, 8) /\ o.verdict = "Ok"
             THEN {Says(7, "Ok")} \cup {Says(8, f) : f \in results} ELSE {})

FlightAnswers(k, stamp) ==
  /\ stage = "taken"
  /\ \E r \in Verifications(taken[k]) : FlightSends(r, stamp)

FlightReports(k, stamp) == stage = "idle" /\ FlightSends(Reports[k], stamp)

\* A station that returns what it hears.
Echo ==
  /\ stage = "down" /\ stage' = "up" /\ order' = NoOrder /\ taken' = <<>>
  /\ UNCHANGED <<report, stamped, octets, intact, reading>>

GroundReads ==
  /\ stage = "down" /\ stage' = "read"
  /\ reading' = ParseTm(octets)
  /\ UNCHANGED <<order, report, stamped, octets, intact, taken>>

Again ==
  /\ stage \in {"taken", "read"} /\ stage' = "idle"
  /\ order' = NoOrder /\ report' = NoReport /\ stamped' = NoStamp /\ octets' = <<>> /\ intact' = TRUE
  /\ taken' = <<>> /\ reading' = NoReading

Next ==
  \/ \E k \in DOMAIN Orders, count \in Counts : GroundSends(k, count)
  \/ \E burst \in Bursts, at \in 0 .. Len(octets) : Damage(burst, at)
  \/ DrainOne \/ FlightTakes \/ Echo \/ GroundReads \/ Again
  \/ \E stamp \in Stamps : \/ \E k \in DOMAIN taken : FlightAnswers(k, stamp)
                           \/ \E k \in DOMAIN Reports : FlightReports(k, stamp)

Spec == Init /\ [][Next]_vars

-----------------------------------------------------------------------------
\* An undamaged telecommand is taken as the one the ground meant, whole and
\* once: its name, its arguments by the flight software's own numbers, its
\* source and its sequence count modulo 2^14.
Numbered(arg) == IF arg \in DOMAIN SystemMode THEN SystemMode[arg] ELSE arg
TcIsUnderstood ==
  stage = "taken" /\ intact /\ order # NoOrder =>
    /\ Len(taken) = 1 /\ taken[1].verdict = "Ok"
    /\ taken[1].name = order.name
    /\ taken[1].apid = Apid.GND /\ taken[1].seq = order.seq % 16384
    /\ DOMAIN taken[1].args = DOMAIN order.args
    /\ \A a \in DOMAIN order.args :
         taken[1].args[a] = IF order.name = "SET_MODE" THEN Numbered(order.args[a]) ELSE order.args[a]

\* Nothing but a telecommand that arrived undamaged is acted on or answered,
\* wherever the burst falls: neither a damaged length that splits the packet
\* or claims six octets, nor telemetry on the uplink.
OnlyOrdersAreTaken ==
  stage = "taken" /\ (\E k \in DOMAIN taken : taken[k].parsed) => intact /\ order # NoOrder

\* The ground can tell damaged telemetry from whole.
DamageIsSeen == stage = "read" => (reading.crc_ok <=> intact)

\* Every report of the flight software is read by the ground as what it meant:
\* the kind, the fields with the names of their enumerations, the counters, and
\* the time to within one tick of 1/65536 s before it was stamped.
Spelt == [Ok |-> "OK", BadCrc |-> "BAD_CRC", BadLength |-> "BAD_LENGTH",
          UnknownService |-> "UNKNOWN_SERVICE", IllegalArg |-> "ILLEGAL_ARG",
          Unavailable |-> "UNAVAILABLE", Refused |-> "REFUSED"]

HkIsUnderstood ==
  /\ reading.name = report.sid /\ reading.apid = ApidOfHk[report.sid]
  /\ DOMAIN reading.fields = DOMAIN report.values
  /\ \A f \in DOMAIN report.values :
       LET shown == reading.fields[f]
       IN IF f \in DOMAIN Enumeration THEN Enumeration[f][shown] = report.values[f]
                                      ELSE shown = report.values[f]

EventIsUnderstood ==
  /\ reading.fields.event_name = report.event
  /\ Severity[reading.name[2]] = EventSeverity(report.event) /\ reading.name[1] = "EVENT"
  /\ IF report.event = "TC_REJECTED"
       THEN \E f \in DOMAIN Spelt : reading.fields.aux = Spelt[f] /\ report.aux = <<0, FailureCode[f]>>
       ELSE reading.fields.aux = report.aux

VerificationIsUnderstood ==
  /\ reading.name = VERIF_NAMES[report.subtype]
  /\ IF report.failure = "Ok" THEN "failure" \notin DOMAIN reading.fields
                              ELSE reading.fields.failure = Spelt[report.failure]

Behind(us, fine) == (us % Million) * 1024 - fine * 15625
TimeIsUnderstood ==
  /\ reading.coarse = LongWords(Coarse(stamped.us))
  /\ 0 <= Behind(stamped.us, reading.fine) /\ Behind(stamped.us, reading.fine) < 15625

TmIsUnderstood ==
  stage = "read" /\ intact =>
    /\ reading.sequence_count = stamped.seq /\ reading.message_count = stamped.count
    /\ TimeIsUnderstood
    /\ CASE report.kind = "hk"           -> HkIsUnderstood
         [] report.kind = "event"        -> EventIsUnderstood
         [] report.kind = "verification" -> VerificationIsUnderstood
         [] report.kind = "test"         -> reading.name = "TEST_REPORT"
         [] report.kind = "param"        -> reading.name = "PARAM_REPORT"
                                            /\ reading.fields.param_name = report.param
                                            /\ reading.fields.value = report.value

\* The answers to a telecommand name it: the ground finds the sequence count it
\* sent in every verification report, over both directions of the link.
AnswerNamesItsRequest ==
  stage = "read" /\ intact /\ order # NoOrder =>
    reading.fields.req_apid = APIDS.GND /\ reading.fields.req_seqcnt = order.seq % 16384
=============================================================================
