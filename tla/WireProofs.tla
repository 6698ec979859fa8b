----------------------------- MODULE WireProofs -----------------------------
(***************************************************************************)
(* Theorems about Wire, for any orders, reports, stamps and bursts: the    *)
(* ground can tell damaged telemetry from whole, each end understands what *)
(* the other one meant, and, unless a burst hits a length field, nothing   *)
(* but an order that arrived whole is acted on and answered.               *)
(***************************************************************************)
EXTENDS PacketProofs

-----------------------------------------------------------------------------
\* The wire: damage is seen.

\* A sequence of whatever it holds.
Listed(s) == s \in Seq({s[k] : k \in DOMAIN s})

WireInv ==
  /\ octets \in Seq(Octet) /\ intact \in BOOLEAN
  /\ stage = "down" => 21 <= Len(octets) /\ (intact <=> Crc(octets) = 0)
  /\ stage = "read" => (reading.crc_ok <=> intact)
  /\ Listed(taken)
  /\ \A k \in DOMAIN taken : Answerable(taken[k])

\* A sequence is a function.
LEMMA SequenceAsFunction ==
  ASSUME NEW S, NEW s \in Seq(S)
  PROVE  Len(s) \in Nat /\ DOMAIN s = 1 .. Len(s) /\ s \in [1 .. Len(s) -> S]
  OBVIOUS

Extends(t, s, o) == /\ Listed(t)
                    /\ \A k \in DOMAIN t : t[k] = o \/ \E j \in DOMAIN s : t[k] = s[j]

\* One more outcome is taken.
LEMMA OneMoreOutcome ==
  ASSUME NEW s, Listed(s), NEW o
  PROVE  Extends(Append(s, o), s, o)
<1>11. PICK t : t = Append(s, o)
  OBVIOUS
<1>1. PICK S : S = {s[k] : k \in DOMAIN s} \cup {o}
  OBVIOUS
<1>2. s \in Seq(S) /\ o \in S
  <2>1. {s[k] : k \in DOMAIN s} \subseteq S
    BY <1>1
  <2> QED
    BY <1>1, <2>1 DEF Listed
<1>3. t \in Seq(S) /\ Len(t) = Len(s) + 1 /\ Len(s) \in Nat
      /\ t[Len(s) + 1] = o /\ \A k \in 1 .. Len(s) : t[k] = s[k]
  BY <1>2, <1>11
<1>4. PICK n \in Nat : n = Len(s) /\ Len(t) = n + 1
  BY <1>3
<1>10. DOMAIN s = 1 .. Len(s) /\ DOMAIN t = 1 .. Len(t) /\ t \in [1 .. Len(t) -> S]
  BY <1>2, <1>3, SequenceAsFunction
<1>8. DOMAIN s = 1 .. n /\ DOMAIN t = 1 .. n + 1 /\ t \in [1 .. n + 1 -> S]
  BY <1>4, <1>10, Zenon
<1>9. PICK T : T = {t[k] : k \in DOMAIN t}
  OBVIOUS
<1>5. t \in [1 .. n + 1 -> T]
  BY <1>8, <1>9
<1>6. t \in Seq(T)
  <2>1. PICK m \in Nat : m = n + 1
    OBVIOUS
  <2>2. t \in [1 .. m -> T]
    BY <1>5, <2>1, Zenon
  <2>3. \A u : u \in [1 .. m -> T] => u \in Seq(T)
    OBVIOUS
  <2> QED
    BY <2>2, <2>3, Zenon
<1>7. ASSUME NEW k \in DOMAIN t PROVE t[k] = o \/ \E j \in DOMAIN s : t[k] = s[j]
  <2>1. k = n + 1 \/ k \in 1 .. n
    BY <1>8
  <2> QED
    BY <1>3, <1>4, <1>8, <2>1
<1> QED
  BY <1>6, <1>7, <1>9, <1>11 DEF Listed, Extends

\* And none.
LEMMA NothingTaken == Listed(<<>>) /\ DOMAIN <<>> = {} /\ <<>> \in Seq(Octet)
  BY DEF Listed

\* What the ground sends is a sequence of octets.
LEMMA OrderIsOctets ==
  ASSUME NEW o, IsOrder(o), NEW count \in Nat
  PROVE  BuildTc(o.name, count, o.args) \in Seq(Octet)
<1>1. PICK name, args : name = o.name /\ args = o.args
  OBVIOUS
<1>2. /\ name \in DOMAIN COMMANDS /\ Specifies(COMMANDS[name][3], ArgsLayout(name), args)
  BY <1>1, OrdersSpecify
<1>3. PICK layout, spec : layout \in Layouts(ArgNames) /\ layout = ArgsLayout(name) /\
      spec = COMMANDS[name][3]
  BY <1>2, ArgumentsAgree
<1>4. PICK n \in Nat : n = Len(layout) /\ n <= 100
  <2>1. Len(layout) \in 0 .. 2
    BY <1>2, <1>3, ArgumentsAgree
  <2>2. \A m \in 0 .. 2 : m \in Nat /\ m <= 100
    OBVIOUS
  <2> QED
    BY <2>1, <2>2, Zenon
<1>5. PICK at : Places(at, layout, 0)
  <2>1. 0 \in Nat
    OBVIOUS
  <2> QED
    BY <1>3, <2>1, PlacesExist
<1>6. PICK service \in Octet, subtype \in Octet : service = COMMANDS[name][1] /\ subtype = COMMANDS[name][2]
  BY <1>2, CommandOctets, SmallNumbers, Zenon
<1>7. Specifies(spec, layout, args)
  BY <1>2, <1>3
<1>8. IsTc(BuildTc(name, count, args), count, service, subtype, spec, layout, args, at, n)
  BY <1>3, <1>4, <1>5, <1>6, <1>7, WhatIsBuilt
<1> QED
  BY <1>1, <1>8, Zenon DEF IsTc

\* What the flight software sends is a whole packet.
LEMMA ReportIsWhole ==
  ASSUME NEW r, IsReport(r), NEW stamp, IsStamp(stamp)
  PROVE  WholePacket(Built(r, stamp))
<1>1. CASE r.kind = "test"
  <2>1. Built(r, stamp) = TestReport(stamp)
    BY <1>1 DEF Built
  <2> QED
    BY <2>1, TestCarries, CarriedIsWhole
<1>2. CASE r.kind = "param" /\ r.param \in DOMAIN ParamId /\ r.value \in Values("float64")
  <2>1. Built(r, stamp) = ParamReport(r.param, r.value, stamp)
    BY <1>2 DEF Built
  <2>2. \E layout, values : ParamCarried(layout, values, r.param, r.value, stamp)
    BY <1>2, ParamCarries
  <2> QED
    BY <2>1, <2>2, CarriedIsWhole DEF ParamCarried
<1>3. CASE r.kind = "event" /\ r.event \in DOMAIN EventId /\ r.aux \in Values("uint32")
  <2>1. Built(r, stamp) = EventReport(r.event, r.aux, stamp)
    BY <1>3 DEF Built
  <2>2. \E layout, values : EventCarried(layout, values, r.event, r.aux, stamp)
    BY <1>3, EventCarries
  <2> QED
    BY <2>1, <2>2, CarriedIsWhole DEF EventCarried
<1>4. CASE /\ r.kind = "hk" /\ r.sid \in DOMAIN HkSid
           /\ DOMAIN r.values = {HkLayout(r.sid)[k][1] : k \in DOMAIN HkLayout(r.sid)}
           /\ \A k \in DOMAIN HkLayout(r.sid) : r.values[HkLayout(r.sid)[k][1]] \in Values(HkLayout(r.sid)[k][2])
  <2>1. Built(r, stamp) = HkReport(r.sid, r.values, stamp)
    BY <1>4 DEF Built
  <2>2. PICK sid, values : sid = r.sid /\ values = r.values /\ sid \in DOMAIN HkSid
    BY <1>4
  <2>3. \E all, v : \E n \in Nat : HkCarried(all, v, n, sid, values, stamp)
    BY <1>4, <2>2, HkCarries
  <2>4. WholePacket(HkReport(sid, values, stamp))
    BY <2>3, CarriedIsWhole DEF HkCarried
  <2> QED
    BY <2>1, <2>2, <2>4
<1> QED
  BY <1>1, <1>2, <1>3, <1>4 DEF IsReport

\* An answer of the flight software is a whole packet.
LEMMA AnswerIsWhole ==
  ASSUME NEW o, Answerable(o), NEW r \in Verifications(o), NEW stamp, IsStamp(stamp)
  PROVE  WholePacket(Built(r, stamp))
<1>1. /\ o.parsed
      /\ \E subtype \in {1, 2, 7, 8}, failure \in {"Ok", o.verdict, "UnknownService", "BadLength",
           "IllegalArg"} :
           r = [kind |-> "verification", request |-> [apid |-> o.apid, seq |-> o.seq],
                subtype |-> subtype, failure |-> failure]
  BY DEF Verifications, Wants
<1>2. PICK subtype \in {1, 2, 7, 8}, failure \in {"Ok", o.verdict, "UnknownService", "BadLength",
      "IllegalArg"} :
           r = [kind |-> "verification", request |-> [apid |-> o.apid, seq |-> o.seq],
                subtype |-> subtype, failure |-> failure]
  BY <1>1
<1>3. o.apid \in Word /\ o.seq \in Word /\ failure \in DOMAIN FailureCode /\ subtype \in Octet
  BY <1>1 DEF Answerable, FailureCode, Octet
<1>4. PICK request : request = [apid |-> o.apid, seq |-> o.seq]
  OBVIOUS
<1>5. /\ r.kind = "verification" /\ r.request = request /\ r.subtype = subtype /\ r.failure = failure
      /\ request.apid \in Word /\ request.seq \in Word
  BY <1>2, <1>3, <1>4
<1>6. Built(r, stamp) = Verification(request, subtype, failure, stamp)
  BY <1>5 DEF Built
<1>7. \E layout, values : \E n \in Nat :
        VerificationCarried(layout, values, n, request, subtype, failure, stamp)
  BY <1>3, <1>5, VerificationCarries
<1> QED
  BY <1>6, <1>7, CarriedIsWhole DEF VerificationCarried

\* A turn of the framing loop.
LEMMA OutcomeIsAnswerable ==
  ASSUME NEW data \in Seq(Octet), Drainable(data)
  PROVE  /\ Answerable(Outcome(data))
         /\ SubSeq(data, Consumed(data) + 1, Len(data)) \in Seq(Octet)
<1>1. PICK m : m = ClaimedSize(data) /\ m \in Nat
  <2>1. PICK z \in Word : ClaimedSize(data) = TotalSize(z)
    <3>1. 6 <= Len(data)
      BY DEF Drainable, kHeaderBytes
    <3>2. SubSeq(data, 1, 6) \in Seq(Octet) /\ Len(SubSeq(data, 1, 6)) = 6
      BY <3>1
    <3>5. PICK h \in Seq(Octet) : h = SubSeq(data, 1, kHeaderBytes) /\ 6 <= Len(h)
      <4>1. kHeaderBytes = 6 /\ 6 <= 6
        BY DEF kHeaderBytes
      <4> QED
        BY <3>2, <4>1, Zenon
    <3>3. PICK x \in Word, y \in Word, z \in Word :
            PrimaryOf(ReadFields(Reader(h), PrimaryLayout)) = Decode(<<x, y, z>>)
      BY <3>5, HeaderDecoded, Zenon
    <3>4. Decode(<<x, y, z>>).data_length = z
      BY DEF Decode
    <3> QED
      BY <3>3, <3>4, <3>5, Zenon DEF ClaimedSize
  <2>2. TotalSize(z) \in Nat
    BY DEF TotalSize, DataFieldBytes, Word, kHeaderBytes
  <2> QED
    BY <2>1, <2>2
<1>2. CASE m > kMaxPacket
  <2>1. Outcome(data) = Refused("BadLength") /\ Consumed(data) = 1
    BY <1>1, <1>2 DEF Outcome, Consumed
  <2>2. SubSeq(data, 1 + 1, Len(data)) \in Seq(Octet)
    BY DEF Drainable, kHeaderBytes
  <2> QED
    BY <2>1, <2>2, RefusedIsSilent
<1>3. CASE ~(m > kMaxPacket)
  <2>1. m <= Len(data)
    BY <1>1, <1>3 DEF Drainable
  <2>2. Outcome(data) = ParseTc(SubSeq(data, 1, m)) /\ Consumed(data) = m
    BY <1>1, <1>3 DEF Outcome, Consumed
  <2>3. SubSeq(data, 1, m) \in Seq(Octet) /\ SubSeq(data, m + 1, Len(data)) \in Seq(Octet)
    BY <1>1, <2>1
  <2> QED
    BY <2>2, <2>3, ParsedIsAnswerable
<1> QED
  BY <1>2, <1>3

\* What the ground makes of a packet long enough to have a CRC.
LEMMA GroundChecks ==
  ASSUME NEW data \in Seq(Octet), 21 <= Len(data)
  PROVE  ParseTm(data).crc_ok <=> Crc(data) = 0
<1>1. PICK b0 : b0 = (CrcOf(data) = 0)
  OBVIOUS
<1>2. ParseTm(data).crc_ok = b0
  BY <1>1 DEF ParseTm
<1> QED
  BY <1>1, <1>2, BothEndsAgree

\* A packet of the flight software goes down.
LEMMA SendingKeeps ==
  ASSUME WireInv, NEW r, NEW stamp, WholePacket(Built(r, stamp)), FlightSends(r, stamp)
  PROVE  WireInv'
<1>1. PICK p : p = Built(r, stamp)
  OBVIOUS
<1>2. p \in Seq(Octet) /\ 21 <= Len(p) /\ Crc(p) = 0
  BY <1>1, Zenon DEF WholePacket, Framed
<1>3. octets' = p /\ intact' = TRUE /\ stage' = "down" /\ UNCHANGED <<order, taken, reading>>
  BY <1>1 DEF FlightSends
<1> QED
  BY <1>2, <1>3, Zenon DEF WireInv

\* WireInv is an invariant: whatever is sent, hit, drained, answered and echoed.
THEOREM WireInvHolds == Spec => []WireInv
<1>1. Init => WireInv
  <2>1. ASSUME Init PROVE WireInv
    <3>1. octets = <<>> /\ taken = <<>> /\ intact = TRUE /\ stage = "idle"
      BY <2>1 DEF Init
    <3>2. stage # "down" /\ stage # "read"
      BY <3>1
    <3> QED
      BY <3>1, <3>2, NothingTaken, Zenon DEF WireInv
  <2> QED
    BY <2>1
<1>2. WireInv /\ [Next]_vars => WireInv'
  <2> SUFFICES ASSUME WireInv, [Next]_vars PROVE WireInv'
    OBVIOUS
  <2> USE DEF WireInv
  <2>1. ASSUME NEW k \in DOMAIN Orders, NEW count \in Counts, GroundSends(k, count) PROVE WireInv'
    <3>1. IsOrder(Orders[k]) /\ count \in Nat
      BY <2>1, WireAssumption
    <3>2. PICK d : d = BuildTc(Orders[k].name, count, Orders[k].args) /\ d \in Seq(Octet)
      BY <3>1, OrderIsOctets
    <3>3. octets' = d /\ stage' = "up" /\ UNCHANGED <<intact, taken, reading>>
      BY <2>1, <3>2 DEF GroundSends
    <3>4. stage' # "down" /\ stage' # "read"
      BY <3>3
    <3> QED
      BY <3>2, <3>3, <3>4, Zenon
  <2>2. ASSUME NEW burst \in Bursts, NEW at \in 0 .. Len(octets), Damage(burst, at) PROVE WireInv'
    <3>1. IsBurst(burst) /\ at \in Nat /\ at + Len(burst) <= Len(octets)
      BY <2>2, WireAssumption DEF Damage
    <3>2. PICK d : /\ d = Hit(octets, burst, at) /\ d \in Seq(Octet) /\ Len(d) = Len(octets)
                   /\ Crc(octets) # Crc(d)
      BY <3>1, BurstsChangeTheCrc
    <3>3. octets' = d /\ intact' = FALSE /\ intact /\ UNCHANGED <<stage, taken, reading>>
          /\ stage \in {"up", "down"}
      BY <2>2, <3>2 DEF Damage
    <3>4. stage # "read"
      BY <3>3
    <3>5. stage = "down" => 21 <= Len(d) /\ Crc(d) # 0
      BY <3>2, <3>3
    <3> QED
      BY <3>2, <3>3, <3>4, <3>5, Zenon
  <2>3. CASE DrainOne
    <3>1. Drainable(octets) /\ stage = "up"
      BY <2>3 DEF DrainOne
    <3>2. PICK o, d : /\ o = Outcome(octets) /\ Answerable(o) /\ d \in Seq(Octet)
                      /\ d = SubSeq(octets, Consumed(octets) + 1, Len(octets))
      BY <3>1, OutcomeIsAnswerable
    <3>3. taken' = Append(taken, o) /\ octets' = d /\ UNCHANGED <<stage, intact, reading>>
      BY <2>3, <3>2 DEF DrainOne
    <3>4. PICK t : t = taken' /\ t = Append(taken, o)
      BY <3>3
    <3>5. /\ Listed(t)
          /\ \A k \in DOMAIN t : t[k] = o \/ \E j \in DOMAIN taken : t[k] = taken[j]
      <4>1. Extends(Append(taken, o), taken, o)
        BY OneMoreOutcome
      <4> QED
        BY <3>4, <4>1, Zenon DEF Extends
    <3>6. \A k \in DOMAIN t : Answerable(t[k])
      BY <3>2, <3>5
    <3>7. stage # "down" /\ stage # "read"
      BY <3>1
    <3> QED
      BY <3>2, <3>3, <3>4, <3>5, <3>6, <3>7, Zenon
  <2>4. CASE FlightTakes
    <3>1. stage' = "taken" /\ UNCHANGED <<octets, intact, taken, reading>>
      BY <2>4 DEF FlightTakes
    <3>2. stage' # "down" /\ stage' # "read"
      BY <3>1
    <3> QED
      BY <3>1, <3>2, Zenon
  <2>5. CASE Echo
    <3>1. stage' = "up" /\ taken' = <<>> /\ UNCHANGED <<octets, intact, reading>>
      BY <2>5 DEF Echo
    <3>2. stage' # "down" /\ stage' # "read"
      BY <3>1
    <3> QED
      BY <3>1, <3>2, NothingTaken, Zenon
  <2>6. CASE GroundReads
    <3>1. /\ stage = "down" /\ stage' = "read" /\ reading' = ParseTm(octets)
          /\ UNCHANGED <<octets, intact, taken>>
      BY <2>6 DEF GroundReads
    <3>2. ParseTm(octets).crc_ok <=> Crc(octets) = 0
      BY <3>1, GroundChecks
    <3>3. stage' # "down"
      BY <3>1
    <3>4. reading'.crc_ok <=> intact'
      BY <3>1, <3>2, Zenon
    <3> QED
      BY <3>1, <3>3, <3>4, Zenon
  <2>7. CASE Again
    <3>1. stage' = "idle" /\ octets' = <<>> /\ intact' = TRUE /\ taken' = <<>>
      BY <2>7 DEF Again
    <3>2. stage' # "down" /\ stage' # "read"
      BY <3>1
    <3> QED
      BY <3>1, <3>2, NothingTaken, Zenon
  <2>8. ASSUME NEW stamp \in Stamps, NEW k \in DOMAIN taken, FlightAnswers(k, stamp) PROVE WireInv'
    <3>1. PICK r \in Verifications(taken[k]) : FlightSends(r, stamp)
      BY <2>8 DEF FlightAnswers
    <3>2. IsStamp(stamp) /\ Answerable(taken[k])
      BY WireAssumption
    <3>3. WholePacket(Built(r, stamp))
      BY <3>2, AnswerIsWhole
    <3> HIDE DEF WireInv
    <3> QED
      BY <3>1, <3>3, SendingKeeps
  <2>9. ASSUME NEW stamp \in Stamps, NEW k \in DOMAIN Reports, FlightReports(k, stamp) PROVE WireInv'
    <3>1. FlightSends(Reports[k], stamp) /\ IsReport(Reports[k]) /\ IsStamp(stamp)
      BY <2>9, WireAssumption DEF FlightReports
    <3>2. WholePacket(Built(Reports[k], stamp))
      BY <3>1, ReportIsWhole
    <3> HIDE DEF WireInv
    <3> QED
      BY <3>1, <3>2, SendingKeeps
  <2>10. CASE UNCHANGED vars
    BY <2>10, Zenon DEF vars
  <2> QED
    BY <2>1, <2>2, <2>3, <2>4, <2>5, <2>6, <2>7, <2>8, <2>9, <2>10 DEF Next
<1> QED
  BY <1>1, <1>2, PTL DEF Spec

\* The ground can tell damaged telemetry from whole.
THEOREM DamageIsSeenAlways == Spec => []DamageIsSeen
<1>1. WireInv => DamageIsSeen
  BY DEF WireInv, DamageIsSeen
<1> QED
  BY <1>1, WireInvHolds, PTL

-----------------------------------------------------------------------------
\* The uplink: a telecommand is understood.

\* The two octets of the k-th word.
LEMMA TwoByTwo ==
  ASSUME NEW m \in Nat, NEW k \in 1 .. m
  PROVE  /\ 2 * k - 1 \in 1 .. 2 * m /\ ((2 * k - 1) + 1) \div 2 = k /\ 2 - ((2 * k - 1) % 2) = 1
         /\ 2 * k \in 1 .. 2 * m /\ (2 * k + 1) \div 2 = k /\ 2 - ((2 * k) % 2) = 2
  OBVIOUS

\* A value comes back from its octets.
LEMMA ReadBack ==
  ASSUME NEW type \in Types, NEW v \in Values(type), NEW data \in Seq(Octet), Len(data) = Width[type],
         \A i \in 1 .. Width[type] : data[i] = OctetsOf(type, v)[i]
  PROVE  ValueOf(type, data) = v
<1>1. CASE Width[type] = 1 /\ Values(type) = Octet
  <2>1. OctetsOf(type, v) = <<v>> /\ ValueOf(type, data) = data[1]
    BY <1>1 DEF OctetsOf, ValueOf
  <2> QED
    BY <1>1, <2>1
<1>2. CASE Width[type] = 2 /\ Values(type) = Word
  <2>1. OctetsOf(type, v) = <<Hi(v), Lo(v)>> /\ ValueOf(type, data) = data[1] * 256 + data[2]
    BY <1>2 DEF OctetsOf, ValueOf, WordOctets, OctetWord, Hi, Lo
  <2>2. data[1] = Hi(v) /\ data[2] = Lo(v)
    BY <1>2, <2>1
  <2> QED
    BY <1>2, <2>1, <2>2, PartsOfWord
<1>3. CASE Width[type] \in {4, 8} /\ Values(type) = [1 .. Width[type] \div 2 -> Word]
  <2>1. PICK m \in {2, 4} : Width[type] = 2 * m /\ Width[type] \div 2 = m
    BY <1>3
  <2>8. Width[type] # 1 /\ Width[type] # 2
    BY <1>3
  <2>2. v \in [1 .. m -> Word]
    BY <1>3, <2>1
  <2>3. ValueOf(type, data) = [k \in 1 .. m |-> OctetWord(data[2 * k - 1], data[2 * k])]
    <3>1. ValueOf(type, data) = [k \in 1 .. Width[type] \div 2 |-> OctetWord(data[2 * k - 1], data[2 * k])]
      BY <2>8, Zenon DEF ValueOf
    <3> QED
      BY <2>1, <3>1, Zenon
  <2>4. ASSUME NEW k \in 1 .. m PROVE OctetWord(data[2 * k - 1], data[2 * k]) = v[k]
    <3>1. \A n \in 1 .. 2 * m : data[n] = WordOctets(v[(n + 1) \div 2])[2 - (n % 2)]
      <4>1. PICK bytes : bytes = OctetsOf(type, v) /\ \A n \in 1 .. 2 * m : data[n] = bytes[n]
        BY <2>1
      <4>2. bytes = [n \in 1 .. 2 * m |-> WordOctets(v[(n + 1) \div 2])[2 - (n % 2)]]
        <5>1. bytes = [n \in 1 .. Width[type] |-> WordOctets(v[(n + 1) \div 2])[2 - (n % 2)]]
          BY <2>8, <4>1, Zenon DEF OctetsOf
        <5> QED
          BY <2>1, <5>1, Zenon
      <4> QED
        BY <4>1, <4>2
    <3>2. /\ 2 * k - 1 \in 1 .. 2 * m /\ ((2 * k - 1) + 1) \div 2 = k /\ 2 - ((2 * k - 1) % 2) = 1
          /\ 2 * k \in 1 .. 2 * m /\ (2 * k + 1) \div 2 = k /\ 2 - ((2 * k) % 2) = 2
      BY TwoByTwo
    <3>3. PICK i, j : i = 2 * k - 1 /\ j = 2 * k
      OBVIOUS
    <3>4. data[i] = WordOctets(v[k])[1] /\ data[j] = WordOctets(v[k])[2]
      BY <3>1, <3>2, <3>3, Zenon
    <3>5. v[k] \in Word
      BY <2>2
    <3>6. data[i] = Hi(v[k]) /\ data[j] = Lo(v[k])
      BY <3>4, <3>5, TwoOctetsOf
    <3> QED
      BY <3>3, <3>5, <3>6, PartsOfWord DEF OctetWord
  <2>5. PICK f : f = [k \in 1 .. m |-> OctetWord(data[2 * k - 1], data[2 * k])]
    OBVIOUS
  <2>6. \A k \in 1 .. m : f[k] = v[k]
    BY <2>4, <2>5
  <2>7. f = v
    BY <2>2, <2>5, <2>6
  <2> QED
    BY <2>3, <2>5, <2>7, Zenon
<1> QED
  BY <1>1, <1>2, <1>3, ThreeWidths

\* The flight software finds the ground's command, and expects the octets that
\* its arguments take.
ArgBytes(name) ==
  CASE name \in {"TEST_CONNECTION", "RESET_COUNTERS"}       -> 0
    [] name \in {"ENABLE_HK", "DISABLE_HK", "SET_MODE"}     -> 1
    [] name = "REPORT_PARAM"                                -> 2
    [] name = "SET_PARAM"                                   -> 10

\* The arguments take the octets that the command table says.
LEMMA ArgBytesTaken ==
  ASSUME NEW name \in DOMAIN COMMANDS, NEW at, Places(at, ArgsLayout(name), 0)
  PROVE  at[Len(ArgsLayout(name))] = ArgBytes(name)
<1>1. PICK layout : layout = ArgsLayout(name)
  OBVIOUS
<1>2. /\ at[0] = 0 /\ \A k \in 1 .. Len(layout) : at[k] = at[k - 1] + Width[layout[k][2]]
      /\ at \in [0 .. Len(layout) -> Nat]
  BY <1>1 DEF Places
<1>3. CASE name \in {"TEST_CONNECTION", "RESET_COUNTERS"}
  <2>1. layout = <<>> /\ ArgBytes(name) = 0
    BY <1>1, <1>3 DEF ArgsLayout, ArgBytes
  <2> QED
    BY <1>1, <1>2, <2>1
<1>4. CASE name \in {"ENABLE_HK", "DISABLE_HK", "SET_MODE"}
  <2>1. Len(layout) = 1 /\ layout[1][2] = "uint8" /\ ArgBytes(name) = 1
    BY <1>1, <1>4 DEF ArgsLayout, ArgBytes
  <2>2. at[1] = at[1 - 1] + Width["uint8"]
    BY <1>2, <2>1
  <2> QED
    BY <1>1, <1>2, <2>1, <2>2, SomeTypes
<1>5. CASE name = "REPORT_PARAM"
  <2>1. Len(layout) = 1 /\ layout[1][2] = "uint16" /\ ArgBytes(name) = 2
    BY <1>1, <1>5 DEF ArgsLayout, ArgBytes
  <2>2. at[1] = at[1 - 1] + Width["uint16"]
    BY <1>2, <2>1
  <2> QED
    BY <1>1, <1>2, <2>1, <2>2, SomeTypes
<1>6. CASE name = "SET_PARAM"
  <2>1. Len(layout) = 2 /\ layout[1][2] = "uint16" /\ layout[2][2] = "float64" /\ ArgBytes(name) = 10
    BY <1>1, <1>6 DEF ArgsLayout, ArgBytes
  <2>2. at[1] = at[1 - 1] + Width["uint16"] /\ at[2] = at[2 - 1] + Width["float64"]
    BY <1>2, <2>1
  <2> QED
    BY <1>1, <1>2, <2>1, <2>2, SomeTypes
<1> QED
  BY <1>3, <1>4, <1>5, <1>6 DEF COMMANDS

\* One command has the service and the subtype.
LEMMA CommandFound ==
  ASSUME NEW name \in DOMAIN COMMANDS
  PROVE  \E c : /\ FindCommand(COMMANDS[name][1], COMMANDS[name][2]) = {c}
                /\ c.name = name /\ c.arg_bytes = ArgBytes(name)
<1>1. name \in {"TEST_CONNECTION", "ENABLE_HK", "DISABLE_HK", "REPORT_PARAM", "SET_PARAM", "SET_MODE",
      "RESET_COUNTERS"}
  BY DEF COMMANDS
<1>2. PICK c : c = Command(name, COMMANDS[name][1], COMMANDS[name][2], ArgBytes(name))
  OBVIOUS
<1>3. /\ c.name = name /\ c.arg_bytes = ArgBytes(name)
      /\ c.service = COMMANDS[name][1] /\ c.subtype = COMMANDS[name][2]
  BY <1>2 DEF Command
<1>4. c \in kCommands
  <2>1. CASE name = "TEST_CONNECTION"
    BY <1>2, <2>1 DEF kCommands, COMMANDS, ArgBytes
  <2>2. CASE name = "ENABLE_HK"
    BY <1>2, <2>2 DEF kCommands, COMMANDS, ArgBytes
  <2>3. CASE name = "DISABLE_HK"
    BY <1>2, <2>3 DEF kCommands, COMMANDS, ArgBytes
  <2>4. CASE name = "REPORT_PARAM"
    BY <1>2, <2>4 DEF kCommands, COMMANDS, ArgBytes
  <2>5. CASE name = "SET_PARAM"
    BY <1>2, <2>5 DEF kCommands, COMMANDS, ArgBytes
  <2>6. CASE name = "SET_MODE"
    BY <1>2, <2>6 DEF kCommands, COMMANDS, ArgBytes
  <2>7. CASE name = "RESET_COUNTERS"
    BY <1>2, <2>7 DEF kCommands, COMMANDS, ArgBytes
  <2> QED
    BY <1>1, <2>1, <2>2, <2>3, <2>4, <2>5, <2>6, <2>7
<1>5. ASSUME NEW d \in kCommands, NEW e \in kCommands, d.service = e.service, d.subtype = e.subtype
      PROVE  d = e
  BY <1>5 DEF kCommands, Command
<1>6. FindCommand(COMMANDS[name][1], COMMANDS[name][2]) = {c}
  BY <1>3, <1>4, <1>5 DEF FindCommand
<1> QED
  BY <1>3, <1>6

\* A command with the octets it takes is executed with its arguments.
LEMMA CommandHandled ==
  ASSUME NEW p, NEW s, NEW o, NEW c, FindCommand(s.service, s.subtype) = {c}, Len(o) = c.arg_bytes
  PROVE  /\ HandleTc(p, s, o).verdict = "Ok" /\ HandleTc(p, s, o).name = c.name
         /\ HandleTc(p, s, o).apid = p.apid /\ HandleTc(p, s, o).seq = p.sequence_count
         /\ HandleTc(p, s, o).args = ReadFields(Reader(o), ArgsLayout(c.name)).fields
<1>1. PICK info : info = FindCommand(s.service, s.subtype)
  OBVIOUS
<1>2. info # {} /\ (CHOOSE x \in info : TRUE) = c
  BY <1>1
<1>3. PICK args : args = ReadFields(Reader(o), ArgsLayout(c.name)).fields
  OBVIOUS
<1>4. PICK tc, b, f : /\ b = TRUE /\ f = <<>>
        /\ tc = [verdict |-> "Ok", parsed |-> b, name |-> "none", apid |-> p.apid,
                 seq |-> p.sequence_count, acks |-> s.byte0 % 16, args |-> f]
  OBVIOUS
<1>5. PICK h : h = HandleTc(p, s, o) /\ h = [tc EXCEPT !.name = c.name, !.args = args]
  BY <1>1, <1>2, <1>3, <1>4, Zenon DEF HandleTc
<1>6. h.verdict = "Ok" /\ h.name = c.name /\ h.apid = p.apid /\ h.seq = p.sequence_count /\ h.args = args
  BY <1>4, <1>5
<1> QED
  BY <1>3, <1>5, <1>6, Zenon

\* The layout of the secondary header of a telecommand.
LEMMA TheTcLayout ==
  /\ TcLayout \in Layouts(HeaderNames) /\ Len(TcLayout) = 4
  /\ TcLayout[1] = <<"byte0", "uint8">> /\ TcLayout[2] = <<"service", "uint8">>
  /\ TcLayout[3] = <<"subtype", "uint8">> /\ TcLayout[4] = <<"source_id", "uint16">>
  /\ Distinctly(TcLayout)
<1>1. PICK a \in Seq(HeaderNames) : a = <<"byte0", "service", "subtype">>
  <2>1. <<"byte0", "service", "subtype">> \in Seq(HeaderNames)
    <3>1. "byte0" \in HeaderNames /\ "service" \in HeaderNames /\ "subtype" \in HeaderNames
      BY DEF HeaderNames
    <3> QED
      BY <3>1, ShortSequences
  <2> QED
    BY <2>1
<1>2. PICK f \in Layouts(HeaderNames) : f = Fields("uint8", a)
  BY OfFields, SomeTypes
<1>3. /\ Len(f) = 3 /\ f[1] = <<"byte0", "uint8">> /\ f[2] = <<"service", "uint8">> /\ f[3] = <<"subtype",
           "uint8">>
  <2>1. Len(a) = 3 /\ a[1] = "byte0" /\ a[2] = "service" /\ a[3] = "subtype"
    BY <1>1
  <2> QED
    BY <1>2, <2>1, OfFields, SomeTypes
<1>4. PICK h \in Layouts(HeaderNames) : h = <<<<"source_id", "uint16">>>>
  <2>1. <<<<"source_id", "uint16">>>> \in Seq(HeaderNames \X Types)
    <3>1. <<"source_id", "uint16">> \in HeaderNames \X Types
      BY SomeTypes DEF HeaderNames
    <3> QED
      BY <3>1, ShortSequences
  <2> QED
    BY <2>1 DEF Layouts
<1>5. Len(h) = 1 /\ h[1] = <<"source_id", "uint16">>
  BY <1>4
<1>6. f \in Seq(HeaderNames \X Types) /\ h \in Seq(HeaderNames \X Types)
  BY DEF Layouts
<1>7. PICK y : y = f \o h
  OBVIOUS
<1>8. /\ y \in Seq(HeaderNames \X Types) /\ Len(y) = Len(f) + Len(h)
      /\ \A i \in 1 .. Len(f) + Len(h) : y[i] = IF i <= Len(f) THEN f[i] ELSE h[i - Len(f)]
  BY <1>6, <1>7, ConcatProperties
<1>9. Len(y) = 4 /\ y[1] = f[1] /\ y[2] = f[2] /\ y[3] = f[3] /\ y[4] = h[1]
  BY <1>3, <1>5, <1>8
<1>10. TcLayout = y
  BY <1>1, <1>2, <1>4, <1>7 DEF TcLayout
<1>11. Distinctly(y)
  <2>1. \A i \in 1 .. 4 : i = 1 \/ i = 2 \/ i = 3 \/ i = 4
    OBVIOUS
  <2> QED
    BY <1>3, <1>5, <1>9, <2>1 DEF Distinctly
<1> QED
  BY <1>3, <1>5, <1>8, <1>9, <1>10, <1>11, Zenon DEF Layouts

SecondaryPlaces == [k \in 0 .. 4 |-> IF k = 4 THEN 11 ELSE 6 + k]

\* The secondary header behind it.
IsSecondary(s, service, subtype) == s.byte0 = 41 /\ s.service = service /\ s.subtype = subtype

\* The secondary header is read as it was written.
LEMMA SecondaryRead ==
  ASSUME NEW d \in Seq(Octet), 13 <= Len(d), NEW w1, NEW w2, NEW w3, NEW service, NEW subtype,
         TcHeader(d, w1, w2, w3, service, subtype)
  PROVE  IsSecondary(ReadFields(ReadFields(Reader(d), PrimaryLayout), TcLayout).fields, service, subtype)
<1>1. PICK r \in Readers(HeaderNames) :
        r = ReadFields(Reader(d), PrimaryLayout) /\ r.ok /\ r.pos = 6 /\ r.data = d
  <2>1. 6 <= Len(d)
    OBVIOUS
  <2> QED
    BY <2>1, PrimaryRead, Zenon
<1>2. PICK layout : layout \in Layouts(HeaderNames) /\ layout = TcLayout
  BY TheTcLayout, Zenon
<1>3. /\ Len(layout) = 4 /\ Distinctly(layout)
      /\ layout[1] = <<"byte0", "uint8">> /\ layout[2] = <<"service", "uint8">>
      /\ layout[3] = <<"subtype", "uint8">> /\ layout[4] = <<"source_id", "uint16">>
  BY <1>2, TheTcLayout, Zenon
<1>4. PICK at : at = SecondaryPlaces
  OBVIOUS
<1>5. at[0] = 6 /\ at[1] = 7 /\ at[2] = 8 /\ at[3] = 9 /\ at[4] = 11 /\ at \in [0 .. 4 -> Nat]
  BY <1>4 DEF SecondaryPlaces
<1>6. Places(at, layout, 6)
  <2>1. \A k \in 1 .. 4 : k = 1 \/ k = 2 \/ k = 3 \/ k = 4
    OBVIOUS
  <2> QED
    BY <1>3, <1>5, <2>1, SomeTypes DEF Places
<1>7. PICK v : v = ReadFields(r, layout) /\ HasRead(v, r, layout, at, 4)
  <2>1. Places(at, layout, r.pos) /\ at[4] <= Len(r.data) /\ 4 \in Nat
    BY <1>1, <1>5, <1>6
  <2>2. HasRead(ReadFields(r, layout), r, layout, at, 4)
    BY <1>1, <1>2, <1>3, <2>1, FieldsRead
  <2> QED
    BY <2>2, Zenon
<1>8. \A k \in 1 .. 4 :
           v.fields[layout[k][1]] = ValueOf(layout[k][2], SubSeq(d, at[k - 1] + 1, at[k]))
  <2>1. \A k \in 1 .. 4 :
             v.fields[layout[k][1]] = ValueOf(layout[k][2], SubSeq(r.data, at[k - 1] + 1, at[k]))
    BY <1>7 DEF HasRead
  <2> QED
    BY <1>1, <2>1
<1>9. /\ v.fields["byte0"] = ValueOf("uint8", SubSeq(d, 6 + 1, 6 + 1))
      /\ v.fields["service"] = ValueOf("uint8", SubSeq(d, 7 + 1, 7 + 1))
      /\ v.fields["subtype"] = ValueOf("uint8", SubSeq(d, 8 + 1, 8 + 1))
  BY <1>3, <1>5, <1>8
<1>10. v.fields["byte0"] = d[7] /\ v.fields["service"] = d[8] /\ v.fields["subtype"] = d[9]
  <2>1. \A i \in {6, 7, 8} : i \in Nat /\ i + 1 <= Len(d)
    OBVIOUS
  <2>2. /\ ValueOf("uint8", SubSeq(d, 6 + 1, 6 + 1)) = d[6 + 1]
        /\ ValueOf("uint8", SubSeq(d, 7 + 1, 7 + 1)) = d[7 + 1]
        /\ ValueOf("uint8", SubSeq(d, 8 + 1, 8 + 1)) = d[8 + 1]
    BY <2>1, ReadsAnOctet
  <2>3. 6 + 1 = 7 /\ 7 + 1 = 8 /\ 8 + 1 = 9
    OBVIOUS
  <2> QED
    BY <1>9, <2>2, <2>3
<1>11. d[7] = 41 /\ d[8] = service /\ d[9] = subtype
  BY Zenon DEF TcHeader
<1> QED
  BY <1>1, <1>2, <1>7, <1>10, <1>11, Zenon DEF IsSecondary

\* The words of the ground's header, as the flight software decodes them.
LEMMA WordsOfHeader ==
  ASSUME NEW d, NEW w1 \in Word, NEW w2 \in Word, NEW w3 \in Word, NEW service, NEW subtype,
         TcHeader(d, w1, w2, w3, service, subtype)
  PROVE  WordAt(d, 1) = w1 /\ WordAt(d, 3) = w2 /\ WordAt(d, 5) = w3
<1>1. /\ d[1] = Hi(w1) /\ d[1 + 1] = Lo(w1) /\ d[3] = Hi(w2) /\ d[3 + 1] = Lo(w2)
      /\ d[5] = Hi(w3) /\ d[5 + 1] = Lo(w3)
  BY DEF TcHeader
<1> QED
  BY <1>1, PartsOfWord DEF WordAt, OctetWord

GroundHeader(h, count, m) ==
  /\ h.type = Telecommand /\ h.secondary_hdr = 1 /\ h.apid = Apid.GND
  /\ h.sequence_count = SeqCountMask(count) /\ TotalSize(h.data_length) = m + 13

\* The header of the ground passes the checks of the flight software.
LEMMA GroundHeaderDecoded ==
  ASSUME NEW count \in Nat, NEW m \in 0 .. 800
  PROVE  GroundHeader(Decode(<<Word0, Word1(count), m + 6>>), count, m)
<1>1. PICK h, a, b, c : a = Word0 /\ b = Word1(count) /\ c = m + 6 /\ h = Decode(<<a, b, c>>)
  OBVIOUS
<1>2. /\ h.type = (a \div 4096) % 2 /\ h.secondary_hdr = (a \div 2048) % 2 /\ h.apid = ApidMask(a)
      /\ h.sequence_count = SeqCountMask(b) /\ h.data_length = c
  BY <1>1 DEF Decode
<1>3. a = 6154
  BY <1>1 DEF Word0, APIDS
<1>4. (a \div 4096) % 2 = 1 /\ (a \div 2048) % 2 = 1 /\ ApidMask(a) = 10
  BY <1>3 DEF ApidMask
<1>5. SeqCountMask(b) = SeqCountMask(count)
  BY <1>1, SMT DEF SeqCountMask, Word1
<1>6. TotalSize(c) = m + 13
  BY <1>1 DEF TotalSize, DataFieldBytes, kHeaderBytes
<1> QED
  BY <1>1, <1>2, <1>4, <1>5, <1>6 DEF Telecommand, Apid, GroundHeader

ArgsRead(f, spec, layout, args, n) ==
  /\ DOMAIN f = Named(layout)
  /\ \A k \in 1 .. n : f[layout[k][1]] = ArgNumber(spec[k], args)

AreArgs(o, spec, layout, args, at, n) ==
  Len(o) = at[n] /\ ArgsRead(ReadFields(Reader(o), layout).fields, spec, layout, args, n)

\* A field within the octets of the arguments.
LEMMA Slice ==
  ASSUME NEW a \in Nat, NEW width \in Nat, NEW m \in Nat, NEW b \in Nat, b = a + width, b <= m
  PROVE  b \in 0 .. m /\ a + 1 \in 1 .. b + 1 /\ b - (a + 1) + 1 = width
  OBVIOUS

\* What a handler reads from a telecommand's argument octets.
LEMMA ArgsReadBack ==
  ASSUME NEW N, NEW layout \in Layouts(N), Distinctly(layout), NEW n \in Nat, n = Len(layout),
         NEW at, Places(at, layout, 0), NEW d, NEW count, NEW service, NEW subtype,
         NEW spec, NEW args, Specifies(spec, layout, args),
         IsTc(d, count, service, subtype, spec, layout, args, at, n)
  PROVE  AreArgs(SubSeq(d, 12, at[n] + 11), spec, layout, args, at, n)
<1>1. PICK m \in Nat : m = at[n]
  BY DEF Places
<1>2. /\ d \in Seq(Octet) /\ Len(d) = m + 13
      /\ \A k \in 1 .. n : \A i \in 1 .. Width[layout[k][2]] :
           d[at[k - 1] + i + 11] = OctetsOf(layout[k][2], ArgNumber(spec[k], args))[i]
  BY <1>1, Zenon DEF IsTc
<1>3. PICK o \in Seq(Octet) : /\ o = SubSeq(d, 12, m + 11) /\ Len(o) = m
                              /\ \A i \in 1 .. m : o[i] = d[i + 11]
  <2>1. m + 11 \in 0 .. Len(d) /\ 12 \in 1 .. (m + 11) + 1 /\ (m + 11) - 12 + 1 = m
    BY <1>2
  <2>2. /\ SubSeq(d, 12, m + 11) \in Seq(Octet) /\ Len(SubSeq(d, 12, m + 11)) = (m + 11) - 12 + 1
        /\ \A i \in 1 .. (m + 11) - 12 + 1 : SubSeq(d, 12, m + 11)[i] = d[12 + i - 1]
    BY <1>2, <2>1, SubsequenceOf
  <2>3. \A i \in 1 .. m : 12 + i - 1 = i + 11
    OBVIOUS
  <2> QED
    BY <2>1, <2>2, <2>3, ZenonT(30)
<1>4. PICK r \in Readers(N) : r = Reader(o) /\ r.ok /\ r.pos = 0 /\ r.data = o /\ DOMAIN r.fields = {}
  BY NewReader, Zenon
<1>5. PICK v : v = ReadFields(r, layout) /\ HasRead(v, r, layout, at, n)
  <2>1. Places(at, layout, r.pos) /\ at[n] <= Len(r.data)
    BY <1>1, <1>3, <1>4
  <2>2. HasRead(ReadFields(r, layout), r, layout, at, n)
    BY <1>4, <2>1, FieldsRead
  <2> QED
    BY <2>2, Zenon
<1>6. DOMAIN v.fields = Named(layout)
  <2>1. DOMAIN v.fields = DOMAIN r.fields \cup Named(layout)
    BY <1>5, Zenon DEF HasRead
  <2> QED
    BY <1>4, <2>1
<1>7. ASSUME NEW k \in 1 .. n PROVE v.fields[layout[k][1]] = ArgNumber(spec[k], args)
  <2>8. PICK type \in Types : type = layout[k][2]
    BY OfALayout
  <2>1. PICK x \in Values(type) : type = layout[k][2] /\ x = ArgNumber(spec[k], args)
    BY <2>8 DEF Specifies
  <2>2. PICK width \in Nat : width = Width[type]
    BY <2>1, OfALayout
  <2>3. PICK a \in Nat, b \in Nat : a = at[k - 1] /\ b = at[k] /\ b = a + width /\ b <= m
    <3>1. k - 1 \in 0 .. n /\ k \in 0 .. n /\ n \in k .. n /\ 0 \in Nat
      OBVIOUS
    <3>2. \A j \in k .. n : at[k] <= at[j]
      BY <3>1, PlacesGrow
    <3>3. at[k] <= at[n] /\ at[k - 1] \in Nat /\ at[k] \in Nat /\ at[k] = at[k - 1] + Width[layout[k][2]]
      BY <3>1, <3>2 DEF Places
    <3> QED
      BY <1>1, <2>1, <2>2, <3>3
  <2>4. PICK q \in Seq(Octet) : /\ q = SubSeq(o, a + 1, b) /\ Len(q) = width
                                /\ \A i \in 1 .. width : q[i] = o[a + i]
    <3>1. b \in 0 .. Len(o) /\ a + 1 \in 1 .. b + 1 /\ b - (a + 1) + 1 = width
      <4>1. b \in 0 .. m /\ a + 1 \in 1 .. b + 1 /\ b - (a + 1) + 1 = width
        <5>1. b = a + width /\ b <= m
          BY <2>3, Zenon
        <5> QED
          BY <5>1, Slice
      <4> QED
        BY <1>3, <4>1, Zenon
    <3>2. /\ SubSeq(o, a + 1, b) \in Seq(Octet) /\ Len(SubSeq(o, a + 1, b)) = b - (a + 1) + 1
          /\ \A i \in 1 .. b - (a + 1) + 1 : SubSeq(o, a + 1, b)[i] = o[(a + 1) + i - 1]
      BY <3>1, SubsequenceOf
    <3>3. \A i \in 1 .. width : (a + 1) + i - 1 = a + i
      OBVIOUS
    <3> QED
      BY <3>1, <3>2, <3>3, ZenonT(30)
  <2>5. \A i \in 1 .. width : q[i] = OctetsOf(type, x)[i]
    <3>1. TAKE i \in 1 .. width
    <3>2. a + i \in 1 .. m
      <4>1. a + width <= m
        BY <2>3, Zenon
      <4> QED
        BY <4>1, PlaceWithin
    <3>3. d[at[k - 1] + i + 11] = OctetsOf(layout[k][2], ArgNumber(spec[k], args))[i]
      BY <1>2, <2>1, <2>2, Zenon
    <3>4. d[(a + i) + 11] = OctetsOf(type, x)[i]
      BY <2>1, <2>3, <3>3, Zenon
    <3> QED
      BY <1>3, <2>4, <3>2, <3>4
  <2>6. ValueOf(type, q) = x
    BY <2>2, <2>4, <2>5, ReadBack
  <2>7. v.fields[layout[k][1]] = ValueOf(layout[k][2], SubSeq(r.data, at[k - 1] + 1, at[k]))
    BY <1>5, Zenon DEF HasRead
  <2>9. r.data = o
    BY <1>4, Zenon
  <2>10. SubSeq(r.data, at[k - 1] + 1, at[k]) = q
    BY <2>3, <2>4, <2>9, Zenon
  <2> QED
    BY <2>1, <2>6, <2>7, <2>10, Zenon
<1> QED
  <2>1. ArgsRead(v.fields, spec, layout, args, n)
    BY <1>6, <1>7, Zenon DEF ArgsRead
  <2>2. SubSeq(d, 12, at[n] + 11) = o /\ ReadFields(Reader(o), layout) = v
    BY <1>1, <1>3, <1>4, <1>5, Zenon
  <2>3. Len(o) = at[n]
    BY <1>1, <1>3, Zenon
  <2> QED
    BY <2>1, <2>2, <2>3, Zenon DEF AreArgs

\* A whole telecommand is parsed as the command it is, with what was put into it.
TakenAs(out, name, spec, layout, args, n, count) ==
  /\ out.verdict = "Ok" /\ out.name = name /\ out.apid = Apid.GND /\ out.seq = SeqCountMask(count)
  /\ ArgsRead(out.args, spec, layout, args, n)

ParsedAs(d, name, spec, layout, args, n, count) ==
  /\ Framed(d) /\ Crc(d) = 0
  /\ TakenAs(ParseTc(d), name, spec, layout, args, n, count)

\* What build_tc() makes, TtcApp takes for the command it is, with the arguments the
\* ground gave it (parse_tc, handle_tc).
THEOREM WholeTcIsParsed ==
  ASSUME NEW name \in DOMAIN COMMANDS, NEW N, NEW layout \in Layouts(N), Distinctly(layout),
         layout = ArgsLayout(name), NEW n \in Nat, n = Len(layout), n <= 100,
         NEW at, Places(at, layout, 0), NEW d, NEW count \in Nat,
         NEW spec, spec = COMMANDS[name][3], NEW args, Specifies(spec, layout, args),
         NEW service \in Octet, service = COMMANDS[name][1], NEW subtype \in Octet,
               subtype = COMMANDS[name][2],
         IsTc(d, count, service, subtype, spec, layout, args, at, n)
  PROVE  ParsedAs(d, name, spec, layout, args, n, count)
<1>1. PICK m \in Nat : m = at[n] /\ m \in 0 .. 10
  <2>1. at[n] = ArgBytes(name)
    BY ArgBytesTaken
  <2>2. ArgBytes(name) \in 0 .. 10
    BY DEF ArgBytes, COMMANDS
  <2>3. \A x \in 0 .. 10 : x \in Nat
    OBVIOUS
  <2> QED
    BY <2>1, <2>2, <2>3
<1>2. PICK w1 \in Word, w2 \in Word, w3 \in Word : w1 = Word0 /\ w2 = Word1(count) /\ w3 = m + 6
  <2>1. Word0 \in Word
    BY DEF Word0, APIDS, Word
  <2>2. Word1(count) \in Word
    BY DEF Word1, Word
  <2>3. m + 6 \in Word
    BY <1>1, SMTT(30) DEF Word
  <2> QED
    BY <2>1, <2>2, <2>3
<1>3. d \in Seq(Octet) /\ Len(d) = m + 13 /\ Crc(d) = 0 /\ TcHeader(d, w1, w2, w3, service, subtype)
  BY <1>1, <1>2, Zenon DEF IsTc
<1>4. WordAt(d, 1) = w1 /\ WordAt(d, 3) = w2 /\ WordAt(d, 5) = w3
  BY <1>3, WordsOfHeader
<1>5. PICK h : h = PrimaryOf(ReadFields(Reader(d), PrimaryLayout)) /\ h = Decode(<<w1, w2, w3>>)
  <2>1. 6 <= Len(d)
    BY <1>1, <1>3
  <2>2. PrimaryOf(ReadFields(Reader(d), PrimaryLayout)) = Decode(<<WordAt(d, 1), WordAt(d, 3), WordAt(d, 5)>>)
    BY <1>3, <2>1, HeaderDecoded
  <2> QED
    BY <1>4, <2>2, Zenon
<1>6. /\ h.type = Telecommand /\ h.secondary_hdr = 1 /\ h.apid = Apid.GND
      /\ h.sequence_count = SeqCountMask(count) /\ TotalSize(h.data_length) = m + 13
      /\ h.data_length = w3
  <2>1. m \in 0 .. 800
    BY <1>1
  <2>2. h = Decode(<<Word0, Word1(count), m + 6>>)
    BY <1>2, <1>5, Zenon
  <2>3. h.data_length = w3
    BY <1>5 DEF Decode
  <2>4. GroundHeader(h, count, m)
    BY <2>1, <2>2, GroundHeaderDecoded, ZenonT(30)
  <2> QED
    BY <2>3, <2>4, Zenon DEF GroundHeader
<1>7. PICK s : s = ReadFields(ReadFields(Reader(d), PrimaryLayout), TcLayout).fields
               /\ s.byte0 = 41 /\ s.service = service /\ s.subtype = subtype
  <2>1. 13 <= Len(d)
    BY <1>1, <1>3
  <2>2. IsSecondary(ReadFields(ReadFields(Reader(d), PrimaryLayout), TcLayout).fields, service, subtype)
    BY <1>3, <2>1, SecondaryRead
  <2> QED
    BY <2>2, Zenon DEF IsSecondary
<1>8. PICK o : o = SubSeq(d, 12, m + 11) /\ Len(o) = m
               /\ ArgsRead(ReadFields(Reader(o), layout).fields, spec, layout, args, n)
  <2>1. AreArgs(SubSeq(d, 12, at[n] + 11), spec, layout, args, at, n)
    BY ArgsReadBack
  <2> QED
    BY <1>1, <2>1, Zenon DEF AreArgs
<1>9. PICK c : FindCommand(service, subtype) = {c} /\ c.name = name /\ c.arg_bytes = m
  <2>1. PICK c : /\ FindCommand(COMMANDS[name][1], COMMANDS[name][2]) = {c}
                 /\ c.name = name /\ c.arg_bytes = ArgBytes(name)
    BY CommandFound
  <2>2. at[n] = ArgBytes(name)
    BY ArgBytesTaken
  <2> QED
    BY <1>1, <2>1, <2>2, Zenon
<1>10. m + 13 <= kMaxPacket
  BY <1>1, SMTT(30) DEF kMaxPacket
<1>11. ParseTc(d) = HandleTc(h, s, o)
  <2>1. PICK minimum \in Nat : minimum = kHeaderBytes + kPusTcHeaderBytes + kCrcBytes /\ minimum = 13
    BY DEF kHeaderBytes, kPusTcHeaderBytes, kCrcBytes
  <2>2. ~(Len(d) < minimum \/ Len(d) > kMaxPacket)
    BY <1>3, <1>10, <2>1 DEF kMaxPacket
  <2>3. CrcCheck(d)
    BY <1>3 DEF CrcCheck
  <2>4. TotalSize(h.data_length) = Len(d)
    BY <1>3, <1>6, Zenon
  <2>5. ~(h.type # Telecommand \/ h.secondary_hdr = 0)
    BY <1>6
  <2>6. s.byte0 \div 16 = kPusVersion
    BY <1>7 DEF kPusVersion
  <2>7. o = SubSeq(d, minimum - kCrcBytes + 1, Len(d) - kCrcBytes)
    <3>1. minimum - kCrcBytes + 1 = 12 /\ Len(d) - kCrcBytes = m + 11
      BY <1>3, <2>1 DEF kCrcBytes
    <3> QED
      BY <1>8, <3>1, Zenon
  <2> QED
    BY <1>5, <1>7, <2>1, <2>2, <2>3, <2>4, <2>5, <2>6, <2>7, Zenon DEF ParseTc
<1>12. PICK out : /\ out = ParseTc(d) /\ out.verdict = "Ok" /\ out.name = c.name
                  /\ out.apid = h.apid /\ out.seq = h.sequence_count
                  /\ out.args = ReadFields(Reader(o), ArgsLayout(c.name)).fields
  <2>1. FindCommand(s.service, s.subtype) = {c} /\ Len(o) = c.arg_bytes
    BY <1>7, <1>8, <1>9, Zenon
  <2>2. /\ HandleTc(h, s, o).verdict = "Ok" /\ HandleTc(h, s, o).name = c.name
        /\ HandleTc(h, s, o).apid = h.apid /\ HandleTc(h, s, o).seq = h.sequence_count
        /\ HandleTc(h, s, o).args = ReadFields(Reader(o), ArgsLayout(c.name)).fields
    BY <2>1, CommandHandled
  <2> QED
    BY <1>11, <2>2, Zenon
<1>13. TakenAs(out, name, spec, layout, args, n, count)
  BY <1>6, <1>8, <1>9, <1>12, Zenon DEF TakenAs
<1>14. Framed(d)
  <2>1. 13 <= m + 13
    BY <1>1
  <2> QED
    BY <1>2, <1>3, <1>4, <1>6, <1>10, <2>1, Zenon DEF Framed
<1> QED
  BY <1>3, <1>12, <1>13, <1>14, Zenon DEF ParsedAs

Understood(out, o) ==
  /\ out.verdict = "Ok" /\ out.name = o.name /\ out.apid = Apid.GND /\ out.seq = SeqCountMask(o.seq)
  /\ DOMAIN out.args = DOMAIN o.args
  /\ \A a \in DOMAIN o.args :
       out.args[a] = IF o.name = "SET_MODE" THEN Numbered(o.args[a]) ELSE o.args[a]

\* Octets whose length field says how many they are are drained in one turn.
LEMMA FramedIsDrained ==
  ASSUME NEW d, Framed(d)
  PROVE  /\ d \in Seq(Octet) /\ Drainable(d) /\ Outcome(d) = ParseTc(d)
         /\ SubSeq(d, Consumed(d) + 1, Len(d)) = <<>>
<1>1. /\ d \in Seq(Octet) /\ Len(d) = TotalSize(WordAt(d, 5)) /\ Len(d) <= kMaxPacket /\ 13 <= Len(d)
  BY Zenon DEF Framed
<1>2. PICK m \in Nat : m = Len(d) /\ 13 <= m /\ m <= kMaxPacket
  BY <1>1
<1>3. ClaimedSize(d) = m
  <2>1. PICK h \in Seq(Octet) : h = SubSeq(d, 1, kHeaderBytes) /\ Len(h) = 6 /\ h[5] = d[5] /\ h[5 +
        1] = d[5 + 1]
    <3>1. /\ SubSeq(d, 1, 6) \in Seq(Octet) /\ Len(SubSeq(d, 1, 6)) = 6
          /\ SubSeq(d, 1, 6)[5] = d[5] /\ SubSeq(d, 1, 6)[5 + 1] = d[5 + 1]
      BY <1>1
    <3>2. kHeaderBytes = 6
      BY DEF kHeaderBytes
    <3> QED
      BY <3>1, <3>2, Zenon
  <2>2. PrimaryOf(ReadFields(Reader(h), PrimaryLayout)) = Decode(<<WordAt(h, 1), WordAt(h, 3), WordAt(h, 5)>>)
    <3>1. 6 <= Len(h)
      BY <2>1
    <3> QED
      BY <3>1, HeaderDecoded
  <2>3. Decode(<<WordAt(h, 1), WordAt(h, 3), WordAt(h, 5)>>).data_length = WordAt(h, 5)
    BY DEF Decode
  <2>4. WordAt(h, 5) = WordAt(d, 5)
    BY <2>1 DEF WordAt
  <2> QED
    BY <1>1, <1>2, <2>1, <2>2, <2>3, <2>4, Zenon DEF ClaimedSize
<1>4. ~(m > kMaxPacket)
  BY <1>2 DEF kMaxPacket
<1>5. Drainable(d)
  BY <1>2, <1>3 DEF Drainable, kHeaderBytes
<1>6. Outcome(d) = ParseTc(d)
  <2>1. SubSeq(d, 1, m) = d
    BY <1>1, <1>2
  <2> QED
    BY <1>3, <1>4, <2>1, Zenon DEF Outcome
<1>7. SubSeq(d, Consumed(d) + 1, Len(d)) = <<>>
  <2>1. Consumed(d) = m
    BY <1>3, <1>4, Zenon DEF Consumed
  <2>2. SubSeq(d, m + 1, m) = <<>>
    BY <1>1, <1>2
  <2> QED
    BY <1>2, <2>1, <2>2, Zenon
<1> QED
  BY <1>1, <1>5, <1>6, <1>7, Zenon

\* An order is drained in one turn, as the command it is.
THEOREM OrderIsUnderstood ==
  ASSUME NEW o, IsOrder(o), o.seq \in Nat, NEW d, d = BuildTc(o.name, o.seq, o.args)
  PROVE  /\ Framed(d) /\ Crc(d) = 0 /\ Drainable(d) /\ Understood(Outcome(d), o)
         /\ SubSeq(d, Consumed(d) + 1, Len(d)) = <<>>
<1>1. PICK name, args, count : name = o.name /\ args = o.args /\ count = o.seq /\ count \in Nat
  OBVIOUS
<1>2. /\ name \in DOMAIN COMMANDS /\ Specifies(COMMANDS[name][3], ArgsLayout(name), args)
      /\ DOMAIN args = Named(ArgsLayout(name))
      /\ \A k \in 1 .. Len(ArgsLayout(name)) :
              ArgNumber(COMMANDS[name][3][k], args)
                = IF name = "SET_MODE" THEN Numbered(args[ArgsLayout(name)[k][1]])
                                       ELSE args[ArgsLayout(name)[k][1]]
  BY <1>1, OrdersSpecify, Zenon
<1>3. PICK layout, spec : layout \in Layouts(ArgNames) /\ layout = ArgsLayout(name) /\
      spec = COMMANDS[name][3]
                          /\ Distinctly(layout)
  BY <1>2, ArgumentsAgree
<1>4. PICK n \in Nat : n = Len(layout) /\ n <= 100
  <2>1. Len(layout) \in 0 .. 2
    BY <1>2, <1>3, ArgumentsAgree
  <2>2. \A m \in 0 .. 2 : m \in Nat /\ m <= 100
    OBVIOUS
  <2> QED
    BY <2>1, <2>2, Zenon
<1>5. PICK at : Places(at, layout, 0)
  <2>1. 0 \in Nat
    OBVIOUS
  <2> QED
    BY <1>3, <2>1, PlacesExist
<1>6. PICK service \in Octet, subtype \in Octet : service = COMMANDS[name][1] /\ subtype = COMMANDS[name][2]
  BY <1>2, CommandOctets, SmallNumbers, Zenon
<1>7. Specifies(spec, layout, args)
  BY <1>2, <1>3
<1>8. IsTc(d, count, service, subtype, spec, layout, args, at, n)
  <2>1. IsTc(BuildTc(name, count, args), count, service, subtype, spec, layout, args, at, n)
    BY <1>1, <1>3, <1>4, <1>5, <1>6, <1>7, WhatIsBuilt
  <2> QED
    BY <1>1, <2>1, Zenon
<1>9. Framed(d) /\ Crc(d) = 0 /\ TakenAs(ParseTc(d), name, spec, layout, args, n, count)
  <2>1. ParsedAs(d, name, spec, layout, args, n, count)
    BY <1>1, <1>2, <1>3, <1>4, <1>5, <1>6, <1>7, <1>8, WholeTcIsParsed
  <2> QED
    BY <2>1, Zenon DEF ParsedAs
<1>10. PICK out : out = ParseTc(d) /\ TakenAs(out, name, spec, layout, args, n, count)
  BY <1>9
<1>11. Understood(out, o)
  <2>1. /\ out.verdict = "Ok" /\ out.name = name /\ out.apid = Apid.GND /\ out.seq = SeqCountMask(count)
        /\ DOMAIN out.args = Named(layout)
        /\ \A k \in 1 .. n : out.args[layout[k][1]] = ArgNumber(spec[k], args)
    BY <1>10, Zenon DEF TakenAs, ArgsRead
  <2>2. DOMAIN out.args = DOMAIN args
    BY <1>2, <1>3, <2>1, Zenon
  <2>3. ASSUME NEW a \in DOMAIN args
        PROVE  out.args[a] = IF name = "SET_MODE" THEN Numbered(args[a]) ELSE args[a]
    <3>1. PICK k \in 1 .. n : a = layout[k][1]
      BY <1>2, <1>3, <1>4 DEF Named
    <3>2. ArgNumber(spec[k], args)
                = IF name = "SET_MODE" THEN Numbered(args[layout[k][1]])
                                       ELSE args[layout[k][1]]
      BY <1>2, <1>3, <1>4, Zenon
    <3> QED
      BY <2>1, <3>1, <3>2, Zenon
  <2> QED
    BY <1>1, <2>1, <2>2, <2>3, Zenon DEF Understood
<1>12. Drainable(d) /\ Outcome(d) = out /\ SubSeq(d, Consumed(d) + 1, Len(d)) = <<>>
  BY <1>9, <1>10, FramedIsDrained
<1> QED
  BY <1>9, <1>11, <1>12, Zenon

\* An undamaged telecommand is on the wire, or has been taken as what it is.
OrderInv ==
  /\ stage = "idle" => taken = <<>>
  /\ order # NoOrder => IsOrder(order) /\ order.seq \in Nat
  /\ stage = "up" /\ intact /\ order # NoOrder =>
       \/ taken = <<>> /\ octets = BuildTc(order.name, order.seq, order.args)
       \/ octets = <<>> /\ Len(taken) = 1 /\ Understood(taken[1], order)
  /\ stage = "taken" /\ intact /\ order # NoOrder => Len(taken) = 1 /\ Understood(taken[1], order)

\* What is commanded does not depend on the sequence count.
LEMMA SameOrder ==
  ASSUME NEW o, NEW q, IsOrder(q), o.name = q.name, o.args = q.args
  PROVE  IsOrder(o)
<1>1. PICK name, args, spec : name = q.name /\ args = q.args /\ spec = COMMANDS[name][3]
  OBVIOUS
<1>3. o.name = name /\ o.args = args
  BY <1>1
<1>2. /\ name \in DOMAIN COMMANDS
      /\ DOMAIN args = {spec[k][1] : k \in DOMAIN spec}
      /\ \A k \in DOMAIN spec :
           IF spec[k][3] = NoEnum
             THEN args[spec[k][1]] \in Values(spec[k][2])
             ELSE \E n \in DOMAIN ENUMS[spec[k][3]] : args[spec[k][1]] = ENUMS[spec[k][3]][n]
  BY <1>1, Zenon DEF IsOrder
<1> QED
  BY <1>1, <1>2, <1>3, SMTT(30) DEF IsOrder

\* Nothing is left in an empty buffer,
LEMMA NothingToDrain == ~Drainable(<<>>)
  BY DEF Drainable, kHeaderBytes

\* and the first outcome is the only one.
LEMMA FirstTaken == ASSUME NEW o PROVE Len(Append(<<>>, o)) = 1 /\ Append(<<>>, o)[1] = o
  OBVIOUS

\* OrderInv is an invariant: an undamaged order keeps its meaning up to the handler.
THEOREM OrderInvHolds == Spec => []OrderInv
<1>1. Init => OrderInv
  BY DEF Init, OrderInv
<1>2. OrderInv /\ [Next]_vars => OrderInv'
  <2> SUFFICES ASSUME OrderInv, [Next]_vars PROVE OrderInv'
    OBVIOUS
  <2> USE DEF OrderInv
  <2>1. ASSUME NEW k \in DOMAIN Orders, NEW count \in Counts, GroundSends(k, count) PROVE OrderInv'
    <3>1. IsOrder(Orders[k]) /\ count \in Nat
      BY <2>1, WireAssumption
    <3>2. PICK o : o = order' /\ o = [name |-> Orders[k].name, args |-> Orders[k].args, seq |-> count]
      BY <2>1 DEF GroundSends
    <3>3. o.name = Orders[k].name /\ o.args = Orders[k].args /\ o.seq = count
      BY <3>2
    <3>4. IsOrder(o)
      BY <3>1, <3>3, SameOrder
    <3>5. /\ stage = "idle" /\ stage' = "up" /\ octets' = BuildTc(o.name, o.seq, o.args)
          /\ taken' = taken
      BY <2>1, <3>3, Zenon DEF GroundSends
    <3>6. taken = <<>> /\ stage' # "idle" /\ stage' # "taken"
      BY <3>5
    <3> QED
      BY <3>1, <3>2, <3>3, <3>4, <3>5, <3>6, Zenon
  <2>2. ASSUME NEW burst \in Bursts, NEW at \in 0 .. Len(octets), Damage(burst, at) PROVE OrderInv'
    BY <2>2 DEF Damage
  <2>3. CASE DrainOne
    <3>1. /\ stage = "up" /\ Drainable(octets) /\ taken' = Append(taken, Outcome(octets))
          /\ octets' = SubSeq(octets, Consumed(octets) + 1, Len(octets))
          /\ UNCHANGED <<stage, order, report, intact>>
      BY <2>3 DEF DrainOne
    <3>2. stage # "idle" /\ stage # "taken"
      BY <3>1
    <3>3. ASSUME intact, order # NoOrder
          PROVE  octets' = <<>> /\ Len(taken') = 1 /\ Understood(taken'[1], order)
      <4>1. taken = <<>> /\ octets = BuildTc(order.name, order.seq, order.args)
        BY <3>1, <3>3, NothingToDrain
      <4>2. PICK o, d : o = order /\ d = octets /\ IsOrder(o) /\ o.seq \in Nat /\ d = BuildTc(o.name, o.seq,
            o.args)
        BY <3>3, <4>1
      <4>3. Understood(Outcome(d), o) /\ SubSeq(d, Consumed(d) + 1, Len(d)) = <<>>
        BY <4>2, OrderIsUnderstood
      <4>4. PICK out : out = Outcome(octets) /\ Understood(out, order)
        BY <4>2, <4>3, Zenon
      <4>5. Len(taken') = 1 /\ taken'[1] = out
        BY <3>1, <4>1, <4>4, FirstTaken
      <4> QED
        BY <3>1, <4>2, <4>3, <4>4, <4>5, Zenon
    <3> QED
      BY <3>1, <3>2, <3>3, Zenon
  <2>4. CASE FlightTakes
    <3>1. /\ stage = "up" /\ ~Drainable(octets) /\ stage' = "taken"
          /\ UNCHANGED <<order, octets, intact, taken>>
      BY <2>4 DEF FlightTakes
    <3>2. ASSUME intact, order # NoOrder PROVE Len(taken) = 1 /\ Understood(taken[1], order)
      <4>1. PICK o, d : o = order /\ d = BuildTc(o.name, o.seq, o.args) /\ IsOrder(o) /\ o.seq \in Nat
        BY <3>2
      <4>2. Drainable(d)
        BY <4>1, OrderIsUnderstood
      <4> QED
        BY <3>1, <3>2, <4>1, <4>2
    <3>3. stage' # "idle" /\ stage' # "up"
      BY <3>1
    <3> QED
      BY <3>1, <3>2, <3>3, Zenon
  <2>5. CASE Echo
    BY <2>5 DEF Echo
  <2>6. CASE GroundReads
    BY <2>6 DEF GroundReads
  <2>7. CASE Again
    BY <2>7 DEF Again
  <2>8. ASSUME NEW stamp \in Stamps, NEW k \in DOMAIN taken, FlightAnswers(k, stamp) PROVE OrderInv'
    BY <2>8 DEF FlightAnswers, FlightSends
  <2>9. ASSUME NEW stamp \in Stamps, NEW k \in DOMAIN Reports, FlightReports(k, stamp) PROVE OrderInv'
    BY <2>9 DEF FlightReports, FlightSends
  <2>10. CASE UNCHANGED vars
    BY <2>10 DEF vars
  <2> QED
    BY <2>1, <2>2, <2>3, <2>4, <2>5, <2>6, <2>7, <2>8, <2>9, <2>10 DEF Next
<1> QED
  BY <1>1, <1>2, PTL DEF Spec

\* An undamaged telecommand is taken as the one the ground meant, whole and once.
THEOREM TcIsUnderstoodAlways == Spec => []TcIsUnderstood
<1>1. OrderInv => TcIsUnderstood
  <2> SUFFICES ASSUME OrderInv, stage = "taken", intact, order # NoOrder
               PROVE  /\ Len(taken) = 1 /\ taken[1].verdict = "Ok"
                      /\ taken[1].name = order.name
                      /\ taken[1].apid = Apid.GND /\ taken[1].seq = order.seq % 16384
                      /\ DOMAIN taken[1].args = DOMAIN order.args
                      /\ \A a \in DOMAIN order.args :
                           taken[1].args[a] = IF order.name = "SET_MODE" THEN Numbered(order.args[a]) ELSE order.args[a]
    BY DEF TcIsUnderstood
  <2>1. Len(taken) = 1 /\ Understood(taken[1], order)
    BY DEF OrderInv
  <2>2. SeqCountMask(order.seq) = order.seq % 16384
    BY DEF SeqCountMask
  <2> QED
    BY <2>1, <2>2 DEF Understood
<1> QED
  BY <1>1, OrderInvHolds, PTL

-----------------------------------------------------------------------------
\* The downlink: reading what was built.

\* What the octets of a value unpack to.
LEMMA UnpackedWord ==
  ASSUME NEW w \in Word
  PROVE  256 * Hi(w) + Lo(w) = w
<1>1. PICK h \in Nat, l \in Nat : h = Hi(w) /\ l = Lo(w) /\ w = h * 256 + l
  <2>1. Hi(w) \in Nat /\ Lo(w) \in Nat
    BY PartsOfWord DEF Octet
  <2>2. w = Hi(w) * 256 + Lo(w)
    BY PartsOfWord
  <2> QED
    BY <2>1, <2>2, Zenon
<1>2. 256 * h + l = h * 256 + l
  OBVIOUS
<1> QED
  BY <1>1, <1>2, Zenon

\* The two octets of a word among those of its value.
LEMMA TwoOfAWord ==
  ASSUME NEW k \in Nat
  PROVE  /\ ((2 * k - 1) + 1) \div 2 = k /\ 2 - ((2 * k - 1) % 2) = 1
         /\ (2 * k + 1) \div 2 = k /\ 2 - ((2 * k) % 2) = 2
  OBVIOUS

\* Places from the start of the source data.
LEMMA FieldShifted ==
  ASSUME NEW a \in Nat, NEW b \in Nat, NEW w, b = a + w, w \in Nat
  PROVE  b - 19 = (a - 19) + w
  OBVIOUS

\* A place within a field, counted from the start of the source data.
LEMMA PlaceShifted ==
  ASSUME NEW a \in Nat, 19 <= a, NEW width \in Nat, NEW m \in Nat, a + width <= m, NEW i \in 1 .. width
  PROVE  (a - 19) + i \in 1 .. m - 19 /\ 19 + ((a - 19) + i) = a + i
  OBVIOUS

Holds(data, offset, type, v) == \A i \in 1 .. Width[type] : data[offset + i] = OctetsOf(type, v)[i]

\* struct.unpack_from() gives the value whose octets are there,
LEMMA UnpacksAlike ==
  ASSUME NEW type \in Types, NEW v \in Values(type), NEW data, NEW offset \in Nat, Holds(data, offset, type,
        v)
  PROVE  UnpackFrom(STRUCT_CODES[type], data, offset) = v
<1>0. \A i \in 1 .. Width[type] : data[offset + i] = OctetsOf(type, v)[i]
  BY DEF Holds
<1>1. CASE type = "uint8"
  <2>1. OctetsOf("uint8", v) = <<v>> /\ Width["uint8"] = 1
    BY OctetsOfShort, SomeTypes
  <2>2. data[offset + 1] = v
    BY <1>0, <1>1, <2>1
  <2>3. STRUCT_CODES[type] = "B"
    BY <1>1 DEF STRUCT_CODES
  <2>4. UnpackFrom("B", data, offset) = data[offset + 1]
    BY DEF UnpackFrom
  <2> QED
    BY <1>1, <2>1, <2>2, <2>3, <2>4
<1>2. CASE type = "uint16"
  <2>1. OctetsOf("uint16", v) = <<Hi(v), Lo(v)>> /\ Width["uint16"] = 2 /\ v \in Word
    BY <1>2, OctetsOfShort, SomeTypes
  <2>2. data[offset + 1] = Hi(v) /\ data[offset + 2] = Lo(v)
    BY <1>0, <1>2, <2>1
  <2>3. STRUCT_CODES[type] = "H"
    BY <1>2 DEF STRUCT_CODES
  <2>4. UnpackFrom("H", data, offset) = 256 * data[offset + (2 * 1 - 1)] + data[offset + 2 * 1]
    BY DEF UnpackFrom
  <2>5. UnpackFrom("H", data, offset) = 256 * data[offset + 1] + data[offset + 2]
    <3>1. 2 * 1 - 1 = 1 /\ 2 * 1 = 2
      OBVIOUS
    <3> QED
      BY <2>4, <3>1, Zenon
  <2>6. UnpackFrom("H", data, offset) = v
    BY <2>1, <2>2, <2>5, UnpackedWord
  <2> QED
    BY <1>2, <2>1, <2>3, <2>4, <2>6
<1>3. CASE type \in {"uint32", "float32", "float64"}
  <2>1. PICK n \in Nat : n = Width[type] /\ n \in {4, 8}
    BY <1>3, SomeTypes
  <2>2. PICK code : code = STRUCT_CODES[type] /\ code \notin {"B", "H"} /\ Calcsize(code) = n
    <3>1. \/ STRUCT_CODES[type] \in {"I", "f"} /\ n = 4
          \/ STRUCT_CODES[type] = "d" /\ n = 8
      BY <1>3, <2>1, SomeTypes DEF STRUCT_CODES
    <3> QED
      BY <3>1 DEF Calcsize
  <2>3. v \in [1 .. n \div 2 -> Word]
    BY <2>1, ThreeWidths
  <2>4. UnpackFrom(code, data, offset)
          = [k \in 1 .. n \div 2 |-> 256 * data[offset + (2 * k - 1)] + data[offset + 2 * k]]
    BY <2>2 DEF UnpackFrom
  <2>5. OctetsOf(type, v) = [k \in 1 .. n |-> WordOctets(v[(k + 1) \div 2])[2 - (k % 2)]]
    BY <2>1 DEF OctetsOf
  <2>6. ASSUME NEW k \in 1 .. n \div 2
        PROVE  256 * data[offset + (2 * k - 1)] + data[offset + 2 * k] = v[k]
    <3>1. /\ 2 * k - 1 \in 1 .. n /\ 2 * k \in 1 .. n
          /\ ((2 * k - 1) + 1) \div 2 = k /\ 2 - ((2 * k - 1) % 2) = 1
          /\ (2 * k + 1) \div 2 = k /\ 2 - ((2 * k) % 2) = 2
      <4>1. k \in Nat /\ 2 * k - 1 \in 1 .. n /\ 2 * k \in 1 .. n
        BY <2>1
      <4> QED
        BY <4>1, TwoOfAWord
    <3>2. PICK w \in Word : w = v[k]
      BY <2>3
    <3>3. WordOctets(w)[1] = Hi(w) /\ WordOctets(w)[2] = Lo(w)
      BY DEF WordOctets, Hi, Lo
    <3>4. PICK a, b : a = 2 * k - 1 /\ b = 2 * k
      BY Zenon
    <3>5. OctetsOf(type, v)[a] = Hi(w) /\ OctetsOf(type, v)[b] = Lo(w)
      BY <2>5, <3>1, <3>2, <3>3, <3>4, Zenon
    <3>6. data[offset + a] = Hi(w) /\ data[offset + b] = Lo(w)
      BY <1>0, <2>1, <3>1, <3>4, <3>5, Zenon
    <3> QED
      BY <3>2, <3>4, <3>6, UnpackedWord
  <2>7. UnpackFrom(code, data, offset) = [k \in 1 .. n \div 2 |-> v[k]]
    BY <2>4, <2>6, Zenon
  <2>8. v = [k \in 1 .. n \div 2 |-> v[k]]
    BY <2>3
  <2> QED
    BY <2>1, <2>2, <2>7, <2>8, Zenon
<1> QED
  BY <1>1, <1>2, <1>3 DEF Types, Width

\* and takes as many of them.
LEMMA SizesAlike == ASSUME NEW type \in Types PROVE Calcsize(STRUCT_CODES[type]) = Width[type]
<1>1. type \in {"uint8", "uint16", "uint32", "float32", "float64"}
  BY DEF Types, Width
<1> QED
  BY <1>1 DEF STRUCT_CODES, Calcsize, Width

\* The fields of a packet, as struct finds them in its source data.
Unpacked(data, layout, values, at, n) ==
  /\ Places(at, layout, 0) /\ Len(data) = at[n]
  /\ \A k \in 1 .. n : UnpackFrom(STRUCT_CODES[layout[k][2]], data, at[k - 1]) = values[layout[k][1]]

SourceData(p) == SubSeq(p, 20, Len(p) - 2)

\* The source data of a packet unpacks to the values it carries.
LEMMA WhatIsCarried ==
  ASSUME NEW N, NEW layout \in Layouts(N), NEW n \in Nat, n = Len(layout), NEW values, Fits(layout, values),
         NEW p, NEW apid, NEW service, NEW subtype, NEW stamp,
         Carries(p, apid, service, subtype, stamp, layout, values, n)
  PROVE  /\ p \in Seq(Octet) /\ 21 <= Len(p) /\ TmHeader(p, apid, service, subtype, stamp)
         /\ \E at : Unpacked(SourceData(p), layout, values, at, n)
<1>1. PICK to : /\ Places(to, layout, 19) /\ to[n] \in Nat /\ 19 <= to[n]
                /\ IsTm(p, apid, service, subtype, stamp, layout, values, to, n)
  BY DEF Carries
<1>2. /\ p \in Seq(Octet) /\ Len(p) = to[n] + 2 /\ TmHeader(p, apid, service, subtype, stamp)
      /\ \A k \in 1 .. n : \A i \in 1 .. Width[layout[k][2]] :
           p[to[k - 1] + i] = OctetsOf(layout[k][2], values[layout[k][1]])[i]
  BY <1>1, Zenon DEF IsTm
<1>3. /\ to \in [0 .. n -> Nat] /\ to[0] = 19
      /\ \A k \in 1 .. n : to[k] = to[k - 1] + Width[layout[k][2]]
  BY <1>1 DEF Places
<1>4. \A j \in 0 .. n : 19 <= to[j]
  <2>1. 19 \in Nat /\ 0 \in 0 .. n
    OBVIOUS
  <2>2. \A j \in 0 .. n : to[0] <= to[j]
    BY <1>1, <2>1, PlacesGrow
  <2> QED
    BY <1>3, <2>2
<1>5. \A k \in 1 .. n : layout[k][1] \in N /\ layout[k][2] \in Types /\ Width[layout[k][2]] \in 1 .. 8
  BY OfALayout
<1>6. PICK at : at = [k \in 0 .. n |-> to[k] - 19]
  BY Zenon
<1>7. Places(at, layout, 0)
  <2>1. at \in [0 .. n -> Nat] /\ at[0] = 0
    BY <1>3, <1>4, <1>6
  <2>2. ASSUME NEW k \in 1 .. n PROVE at[k] = at[k - 1] + Width[layout[k][2]]
    <3>1. k \in 0 .. n /\ k - 1 \in 0 .. n
      OBVIOUS
    <3>4. to[k - 1] \in Nat /\ to[k] \in Nat /\ Width[layout[k][2]] \in Nat
      <4>1. to[k - 1] \in Nat /\ to[k] \in Nat
        BY <1>3, <3>1
      <4>2. \A x \in 1 .. 8 : x \in Nat
        OBVIOUS
      <4> QED
        BY <1>5, <4>1, <4>2, Zenon
    <3>2. PICK a \in Nat, b \in Nat, w \in Nat : a = to[k - 1] /\ b = to[k] /\ w = Width[layout[k][2]] /\
          b = a + w
      BY <1>3, <3>4, ZenonT(30)
    <3>3. at[k] = b - 19 /\ at[k - 1] = a - 19
      BY <1>6, <3>1, <3>2, Zenon
    <3>5. b - 19 = (a - 19) + w
      BY <3>2, FieldShifted
    <3> QED
      BY <3>2, <3>3, <3>5, Zenon
  <2> QED
    BY <2>1, <2>2 DEF Places
<1>8. PICK m \in Nat : m = to[n] /\ 19 <= m /\ Len(p) = m + 2
  BY <1>1, <1>2
<1>9. PICK data : data = SourceData(p)
  BY Zenon
<1>10. Len(data) = m - 19 /\ \A i \in 1 .. m - 19 : data[i] = p[19 + i]
  <2>1. m \in 0 .. Len(p) /\ 20 \in 1 .. m + 1 /\ Len(p) - 2 = m
    BY <1>8
  <2>2. /\ Len(SubSeq(p, 20, m)) = m - 20 + 1 /\ \A i \in 1 .. m - 20 + 1 : SubSeq(p, 20, m)[i] = p[20 +
             i - 1]
    BY <1>2, <2>1, SubsequenceOf
  <2>3. data = SubSeq(p, 20, m)
    BY <1>9, <2>1 DEF SourceData
  <2>4. m - 20 + 1 = m - 19 /\ \A i \in 1 .. m - 19 : 20 + i - 1 = 19 + i
    BY <1>8
  <2> QED
    BY <2>2, <2>3, <2>4
<1>11. Len(data) = at[n]
  <2>1. n \in 0 .. n
    OBVIOUS
  <2> QED
    BY <1>6, <1>8, <1>10, <2>1, Zenon
<1>12. ASSUME NEW k \in 1 .. n
       PROVE  UnpackFrom(STRUCT_CODES[layout[k][2]], data, at[k - 1]) = values[layout[k][1]]
  <2>1. k - 1 \in 0 .. n /\ k \in 0 .. n /\ n \in 0 .. n /\ n \in k .. n /\ 19 \in Nat
    OBVIOUS
  <2>2. PICK type, v : type \in Types /\ v \in Values(type) /\ type = layout[k][2] /\ v = values[layout[k][1]]
    <3>1. layout[k][2] \in Types /\ values[layout[k][1]] \in Values(layout[k][2])
      BY <1>5 DEF Fits
    <3> QED
      BY <3>1, Zenon
  <2>3. PICK width \in Nat : width = Width[type]
    BY <1>5, <2>2
  <2>4. to[k] <= to[n]
    BY <1>1, <2>1, PlacesGrow
  <2>5. PICK a \in Nat : a = to[k - 1] /\ 19 <= a /\ a + width <= m
    <3>1. to[k - 1] \in Nat /\ to[k] \in Nat /\ 19 <= to[k - 1] /\ to[k] = to[k - 1] + width
      BY <1>3, <1>4, <2>1, <2>2, <2>3
    <3> QED
      BY <1>8, <2>4, <3>1
  <2>6. at[k - 1] = a - 19
    BY <1>6, <2>1, <2>5, Zenon
  <2>7. ASSUME NEW i \in 1 .. width PROVE data[(a - 19) + i] = OctetsOf(type, v)[i]
    <3>1. (a - 19) + i \in 1 .. m - 19 /\ 19 + ((a - 19) + i) = a + i
      <4>1. a \in Nat /\ width \in Nat /\ m \in Nat /\ 19 <= a /\ a + width <= m
        BY <1>8, <2>3, <2>5, Zenon
      <4> QED
        BY <4>1, PlaceShifted
    <3>2. data[(a - 19) + i] = p[a + i]
      BY <1>10, <3>1
    <3>3. p[a + i] = OctetsOf(type, v)[i]
      BY <1>2, <2>2, <2>3, <2>5, Zenon
    <3> QED
      BY <3>2, <3>3
  <2>8. PICK o \in Nat : o = a - 19
    BY <2>5
  <2>9. Holds(data, o, type, v)
    BY <2>3, <2>7, <2>8, Zenon DEF Holds
  <2>10. UnpackFrom(STRUCT_CODES[type], data, o) = v
    BY <2>2, <2>8, <2>9, UnpacksAlike
  <2> QED
    BY <2>2, <2>6, <2>8, <2>10, Zenon
<1>13. Unpacked(data, layout, values, at, n)
  BY <1>7, <1>11, <1>12, Zenon DEF Unpacked
<1>14. 21 <= Len(p)
  BY <1>8
<1> QED
  BY <1>2, <1>9, <1>13, <1>14, Zenon

\* What parse_tm() makes of a packet: its header, and what is decoded behind it.
HeaderOf(r, apid, stamp) ==
  /\ r.apid = apid /\ r.sequence_count = stamp.seq /\ r.message_count = stamp.count
  /\ r.coarse = LongWords(Coarse(stamp.us)) /\ r.fine = Fine(stamp.us)
ReadAs(r, apid, stamp, decoded) ==
  HeaderOf(r, apid, stamp) /\ r.name = decoded.name /\ r.fields = decoded.fields

\* parse_tm() of a packet with both headers.
LEMMA WhatIsParsed ==
  ASSUME NEW p, NEW n \in Nat, n = Len(p), 21 <= n,
         NEW decoded, decoded = DecodePayload(p[8], p[9], SourceData(p))
  PROVE  /\ ParseTm(p).name = decoded.name /\ ParseTm(p).fields = decoded.fields
         /\ ParseTm(p).apid = UnpackFrom("H", p, 0) % 2048
         /\ ParseTm(p).sequence_count = UnpackFrom("H", p, 2) % 16384
         /\ ParseTm(p).message_count = UnpackFrom("H", p, 9)
         /\ ParseTm(p).coarse = UnpackFrom("I", p, 13) /\ ParseTm(p).fine = UnpackFrom("H", p, 17)
<1>1. PICK b0, a, s, m, d, c, f, name, fields :
        /\ b0 = (CrcOf(p) = 0) /\ a = UnpackFrom("H", p, 0) % 2048 /\ s = UnpackFrom("H", p, 2) % 16384
        /\ m = UnpackFrom("H", p, 9) /\ d = UnpackFrom("H", p, 11)
        /\ c = UnpackFrom("I", p, 13) /\ f = UnpackFrom("H", p, 17)
        /\ name = decoded.name /\ fields = decoded.fields
  OBVIOUS
<1>2. PICK service, subtype : service = p[8] /\ subtype = p[9]
  BY Zenon
<1>3. ParseTm(p) = [name |-> name, fields |-> fields, crc_ok |-> b0, apid |-> a, sequence_count |-> s,
                    service |-> service, subtype |-> subtype, message_count |-> m, destination |-> d,
                    coarse |-> c, fine |-> f]
  <2>1. ~(Len(p) < 21)
    OBVIOUS
  <2> QED
    BY <1>1, <1>2, <2>1 DEF ParseTm, SourceData
<1>4. PICK r : r = [name |-> name, fields |-> fields, crc_ok |-> b0, apid |-> a, sequence_count |-> s,
                    service |-> service, subtype |-> subtype, message_count |-> m, destination |-> d,
                    coarse |-> c, fine |-> f]
  BY Zenon
<1>5. /\ r.name = name /\ r.fields = fields /\ r.apid = a /\ r.sequence_count = s /\ r.message_count = m
      /\ r.coarse = c /\ r.fine = f
  BY <1>4
<1>6. ParseTm(p) = r
  BY <1>3, <1>4, Zenon
<1> QED
  BY <1>1, <1>5, <1>6

WordHere(data, offset, w) == data[offset + 1] = Hi(w) /\ data[offset + 2] = Lo(w)

\* A word unpacked.
LEMMA UnpacksWord ==
  ASSUME NEW data, NEW offset \in Nat, NEW w \in Word, WordHere(data, offset, w)
  PROVE  UnpackFrom("H", data, offset) = w
<1>0. data[offset + 1] = Hi(w) /\ data[offset + 2] = Lo(w)
  BY Zenon DEF WordHere
<1>1. OctetsOf("uint16", w) = <<Hi(w), Lo(w)>> /\ Values("uint16") = Word /\ Width["uint16"] = 2
      /\ "uint16" \in Types /\ STRUCT_CODES["uint16"] = "H"
  BY OctetsOfShort, SomeTypes DEF STRUCT_CODES
<1>2. \A i \in 1 .. 2 : data[offset + i] = <<Hi(w), Lo(w)>>[i]
  <2>1. \A i \in 1 .. 2 : i = 1 \/ i = 2
    OBVIOUS
  <2>2. <<Hi(w), Lo(w)>>[1] = Hi(w) /\ <<Hi(w), Lo(w)>>[2] = Lo(w)
    OBVIOUS
  <2> QED
    BY <1>0, <2>1, <2>2, Zenon
<1>3. Holds(data, offset, "uint16", w)
  BY <1>1, <1>2, Zenon DEF Holds
<1>4. UnpackFrom(STRUCT_CODES["uint16"], data, offset) = w
  BY <1>1, <1>3, UnpacksAlike
<1> QED
  BY <1>1, <1>4, Zenon

\* The fields that share a word come apart again.
LEMMA WordsApart ==
  /\ \A a \in Nat : a = ApidMask(a) => (2048 + a) % 2048 = a /\ 2048 + a \in Word
  /\ \A s \in Nat : s = SeqCountMask(s) => (49152 + s) % 16384 = s /\ 49152 + s \in Word
  BY DEF ApidMask, SeqCountMask, Word

\* The headers are read as they were written.
LEMMA HeaderIsRead ==
  ASSUME NEW stamp, IsStamp(stamp), NEW apid \in Nat, apid = ApidMask(apid), NEW service, NEW subtype,
         NEW p \in Seq(Octet), 21 <= Len(p), TmHeader(p, apid, service, subtype, stamp)
  PROVE  ReadAs(ParseTm(p), apid, stamp, DecodePayload(service, subtype, SourceData(p)))
<1>1. PICK n \in Nat : n = Len(p) /\ 21 <= n
  OBVIOUS
<1>2. PICK decoded : decoded = DecodePayload(p[8], p[9], SourceData(p))
  BY Zenon
<1>3. PICK w0, w1, count, fine, coarse :
        /\ w0 = 2048 + apid /\ w1 = 49152 + stamp.seq /\ count = stamp.count
        /\ fine = Fine(stamp.us) /\ coarse = LongWords(Coarse(stamp.us))
  OBVIOUS
<1>4. /\ w0 \in Word /\ w1 \in Word /\ count \in Word /\ fine \in Word /\ coarse \in [1 .. 2 -> Word]
      /\ w0 % 2048 = apid /\ w1 % 16384 = stamp.seq
  <2>1. stamp.seq \in Nat /\ stamp.seq = SeqCountMask(stamp.seq) /\ stamp.count \in Word
        /\ stamp.us \in Nat /\ Coarse(stamp.us) \div 65536 \in Word
    BY DEF IsStamp, Word
  <2>2. PICK us \in Nat : us = stamp.us /\ Coarse(us) \div 65536 \in Word
    BY <2>1
  <2>3. fine \in Word /\ coarse \in [1 .. 2 -> Word]
    BY <1>3, <2>2, TimeFits
  <2>4. w0 \in Word /\ w0 % 2048 = apid
    BY <1>3, WordsApart
  <2>5. w1 \in Word /\ w1 % 16384 = stamp.seq
    BY <1>3, <2>1, WordsApart
  <2> QED
    BY <1>3, <2>1, <2>3, <2>4, <2>5
<1>5. /\ p[0 + 1] = Hi(w0) /\ p[0 + 2] = Lo(w0) /\ p[2 + 1] = Hi(w1) /\ p[2 + 2] = Lo(w1)
      /\ p[8] = service /\ p[9] = subtype
      /\ p[9 + 1] = Hi(count) /\ p[9 + 2] = Lo(count) /\ p[17 + 1] = Hi(fine) /\ p[17 + 2] = Lo(fine)
      /\ \A i \in 1 .. 4 : p[13 + i] = OctetsOf("uint32", coarse)[i]
  BY <1>3 DEF TmHeader
<1>6. /\ UnpackFrom("H", p, 0) = w0 /\ UnpackFrom("H", p, 2) = w1
      /\ UnpackFrom("H", p, 9) = count /\ UnpackFrom("H", p, 17) = fine
  <2>1. 0 \in Nat /\ 2 \in Nat /\ 9 \in Nat /\ 17 \in Nat
    OBVIOUS
  <2>2. WordHere(p, 0, w0) /\ WordHere(p, 2, w1) /\ WordHere(p, 9, count) /\ WordHere(p, 17, fine)
    BY <1>5, Zenon DEF WordHere
  <2> QED
    BY <1>4, <2>1, <2>2, UnpacksWord
<1>7. UnpackFrom("I", p, 13) = coarse
  <2>1. "uint32" \in Types /\ Width["uint32"] = 4 /\ Values("uint32") = [1 .. 2 -> Word]
        /\ STRUCT_CODES["uint32"] = "I" /\ 13 \in Nat
    BY OctetsOfShort, SomeTypes DEF STRUCT_CODES
  <2>2. Holds(p, 13, "uint32", coarse)
    BY <1>5, <2>1, Zenon DEF Holds
  <2>3. UnpackFrom(STRUCT_CODES["uint32"], p, 13) = coarse
    BY <1>4, <2>1, <2>2, UnpacksAlike
  <2> QED
    BY <2>1, <2>3, Zenon
<1>8. PICK r : r = ParseTm(p)
  BY Zenon
<1>9. /\ r.name = decoded.name /\ r.fields = decoded.fields
      /\ r.apid = UnpackFrom("H", p, 0) % 2048
      /\ r.sequence_count = UnpackFrom("H", p, 2) % 16384
      /\ r.message_count = UnpackFrom("H", p, 9)
      /\ r.coarse = UnpackFrom("I", p, 13) /\ r.fine = UnpackFrom("H", p, 17)
  BY <1>1, <1>2, <1>8, WhatIsParsed
<1>10. HeaderOf(r, apid, stamp)
  <2>1. r.apid = apid /\ r.sequence_count = stamp.seq /\ r.message_count = stamp.count
        /\ r.coarse = LongWords(Coarse(stamp.us)) /\ r.fine = Fine(stamp.us)
    BY <1>3, <1>4, <1>6, <1>7, <1>9
  <2> QED
    BY <2>1, Zenon DEF HeaderOf
<1>11. decoded = DecodePayload(service, subtype, SourceData(p))
  BY <1>2, <1>5, Zenon
<1>12. ReadAs(r, apid, stamp, decoded)
  <2>1. r.name = decoded.name /\ r.fields = decoded.fields
    BY <1>9
  <2> QED
    BY <1>10, <2>1, Zenon DEF ReadAs
<1> QED
  BY <1>8, <1>11, <1>12, Zenon

\* The fine time is less than one tick behind.
LEMMA FineIsATickBehind == ASSUME NEW us \in Nat PROVE Below(Behind(us, Fine(us)), 15625)
  BY FineIsTheFloor DEF Behind

\* The time that was stamped, to within a tick.
LEMMA TimeIsRead ==
  ASSUME IsStamp(stamped), NEW apid, HeaderOf(reading, apid, stamped)
  PROVE  TimeIsUnderstood
<1>1. stamped.us \in Nat /\ reading.fine = Fine(stamped.us) /\ reading.coarse = LongWords(Coarse(stamped.us))
  BY DEF IsStamp, HeaderOf
<1>2. Below(Behind(stamped.us, reading.fine), 15625)
  BY <1>1, FineIsATickBehind
<1> QED
  BY <1>1, <1>2 DEF TimeIsUnderstood, Below

\* The ground finds the fields of a structure where the flight software put them.
LEMMA OffsetsArePlaces ==
  ASSUME NEW N, NEW n \in Nat, NEW rows, NEW layout, Paired(rows, layout, N, n)
  PROVE  Places(Offsets(rows), layout, 1)
<1> DEFINE Is(g) == g = [k \in 0 .. Len(rows) |->
                           IF k = 0 THEN 1 ELSE g[k - 1] + Calcsize(STRUCT_CODES[rows[k][2]])]
<1>1. /\ layout \in Layouts(N) /\ Len(layout) = n /\ Len(rows) = n
      /\ \A k \in 1 .. n : rows[k][2] = layout[k][2]
  BY DEF Paired, RowOf
<1>2. \A k \in 1 .. n : layout[k][2] \in Types /\ Width[layout[k][2]] \in Nat
  <2>1. \A x \in 1 .. 8 : x \in Nat
    OBVIOUS
  <2> QED
    BY <1>1, <2>1, OfALayout
<1>3. \A k \in 1 .. n : Calcsize(STRUCT_CODES[rows[k][2]]) = Width[layout[k][2]]
  BY <1>1, <1>2, SizesAlike
<1>4. ASSUME NEW f PROVE Is(f) <=> f = [k \in 0 .. n |-> IF k = 0 THEN 1 ELSE f[k - 1] + Width[layout[k][2]]]
  <2>1. \A k \in 0 .. n : k = 0 \/ k \in 1 .. n
    OBVIOUS
  <2>2. [k \in 0 .. n |-> IF k = 0 THEN 1 ELSE f[k - 1] + Width[layout[k][2]]]
        = [k \in 0 .. n |-> IF k = 0 THEN 1 ELSE f[k - 1] + Calcsize(STRUCT_CODES[rows[k][2]])]
    BY <1>3, <2>1, Zenon
  <2> QED
    BY <1>1, <2>2, Zenon
<1> HIDE DEF Is
<1>5. ASSUME NEW f PROVE Is(f) => Places(f, layout, 1)
  <2>1. SUFFICES ASSUME Is(f) PROVE Places(f, layout, 1)
    OBVIOUS
  <2>2. f = [k \in 0 .. n |-> IF k = 0 THEN 1 ELSE f[k - 1] + Width[layout[k][2]]]
    BY <1>4, <2>1
  <2>3. f[0] = 1 /\ \A k \in 1 .. n : f[k] = f[k - 1] + Width[layout[k][2]]
    <3>1. 0 \in 0 .. n /\ \A k \in 1 .. n : k \in 0 .. n /\ k # 0
      OBVIOUS
    <3> QED
      BY <2>2, <3>1
  <2> DEFINE Bad == {k \in 0 .. n : f[k] \notin Nat}
  <2>4. Bad = {}
    <3>1. SUFFICES ASSUME Bad # {} PROVE FALSE
      OBVIOUS
    <3>2. PICK m \in Bad : \A i \in Bad : m <= i
      <4>1. Bad \in SUBSET Nat
        OBVIOUS
      <4> HIDE DEF Bad
      <4> QED
        BY <3>1, <4>1, SmallestMember
    <3>3. m \in 0 .. n /\ f[m] \notin Nat /\ m # 0
      BY <2>3
    <3>4. m \in 1 .. n /\ m - 1 \in 0 .. n /\ ~(m <= m - 1)
      BY <3>3
    <3>5. m - 1 \notin Bad
      <4> HIDE DEF Bad
      <4> QED
        BY <3>2, <3>4
    <3>6. f[m - 1] \in Nat
      BY <3>4, <3>5
    <3> HIDE DEF Bad
    <3>7. f[m] = f[m - 1] + Width[layout[m][2]] /\ Width[layout[m][2]] \in Nat
      BY <1>2, <2>3, <3>4
    <3> QED
      BY <3>3, <3>6, <3>7
  <2>5. \A k \in 0 .. n : f[k] \in Nat
    BY <2>4
  <2> HIDE DEF Bad
  <2>6. f \in [0 .. n -> Nat]
    <3>1. f = [k \in 0 .. n |-> f[k]]
      BY <2>2
    <3> QED
      BY <2>5, <3>1
  <2> QED
    BY <1>1, <2>3, <2>6 DEF Places
<1>6. ASSUME NEW f, Places(f, layout, 1) PROVE Is(f)
  <2>1. f \in [0 .. n -> Nat] /\ f[0] = 1 /\ \A k \in 1 .. n : f[k] = f[k - 1] + Width[layout[k][2]]
    BY <1>1, <1>6 DEF Places
  <2>2. f = [k \in 0 .. n |-> f[k]]
    BY <2>1
  <2>3. \A k \in 0 .. n : k = 0 \/ k \in 1 .. n
    OBVIOUS
  <2>4. \A k \in 0 .. n : f[k] = IF k = 0 THEN 1 ELSE f[k - 1] + Width[layout[k][2]]
    BY <2>1, <2>3, Zenon
  <2>5. f = [k \in 0 .. n |-> IF k = 0 THEN 1 ELSE f[k - 1] + Width[layout[k][2]]]
    BY <2>2, <2>4, Zenon
  <2> QED
    BY <1>4, <2>5
<1>7. \E f : Places(f, layout, 1)
  <2>1. 1 \in Nat
    OBVIOUS
  <2> QED
    BY <1>1, <2>1, PlacesExist
<1>8. Offsets(rows) = CHOOSE f : Is(f)
  BY DEF Offsets, Is
<1>9. Is(CHOOSE f : Is(f))
  BY <1>6, <1>7, Zenon
<1> QED
  BY <1>5, <1>8, <1>9, Zenon

\* A layout has one place for each field.
LEMMA PlacesAgree ==
  ASSUME NEW N, NEW layout \in Layouts(N), NEW n \in Nat, n = Len(layout), NEW from, NEW f, NEW g,
         Places(f, layout, from), Places(g, layout, from), NEW j \in 0 .. n
  PROVE  f[j] = g[j]
<1> DEFINE Bad == {m \in 0 .. n : f[m] # g[m]}
<1>1. SUFFICES ASSUME Bad # {} PROVE FALSE
  OBVIOUS
<1>2. PICK m \in Bad : \A k \in Bad : m <= k
  <2>1. Bad \in SUBSET Nat
    OBVIOUS
  <2> HIDE DEF Bad
  <2> QED
    BY <1>1, <2>1, SmallestMember
<1>3. m \in 0 .. n /\ f[m] # g[m]
  OBVIOUS
<1>4. f[0] = from /\ g[0] = from
  BY DEF Places
<1>5. m \in 1 .. n /\ m - 1 \in 0 .. n /\ ~(m <= m - 1)
  BY <1>3, <1>4
<1>6. m - 1 \notin Bad
  <2> HIDE DEF Bad
  <2> QED
    BY <1>2, <1>5
<1>7. f[m - 1] = g[m - 1]
  BY <1>5, <1>6
<1> HIDE DEF Bad
<1>8. f[m] = f[m - 1] + Width[layout[m][2]] /\ g[m] = g[m - 1] + Width[layout[m][2]]
  BY <1>5 DEF Places
<1> QED
  BY <1>3, <1>7, <1>8

\* A layout, and a packet's that has its structure's number in front.
HasNumber(all, layout, n) ==
  /\ n \in Nat /\ n = Len(layout) /\ Len(all) = n + 1
  /\ all[1] = <<"sid", "uint8">> /\ \A k \in 1 .. n : all[k + 1] = layout[k]

\* The places of a structure's fields among those of a packet that has its number
\* in front.
LEMMA NumberInFront ==
  ASSUME NEW N, NEW layout \in Layouts(N), NEW n, NEW all, HasNumber(all, layout, n),
         NEW at, Places(at, all, 0), NEW places, Places(places, layout, 1)
  PROVE  \A j \in 0 .. n : at[j + 1] = places[j] /\ at[0] = 0
<1> TAKE j \in 0 .. n
<1>0. /\ n \in Nat /\ n = Len(layout) /\ Len(all) = n + 1
      /\ all[1] = <<"sid", "uint8">> /\ \A k \in 1 .. n : all[k + 1] = layout[k]
  BY DEF HasNumber
<1>1. PICK g : g = [k \in 0 .. n |-> at[k + 1]]
  BY Zenon
<1>2. /\ at \in [0 .. n + 1 -> Nat] /\ at[0] = 0
      /\ \A k \in 1 .. n + 1 : at[k] = at[k - 1] + Width[all[k][2]]
  BY <1>0 DEF Places
<1>3. at[1] = 1
  <2>1. 1 \in 1 .. n + 1 /\ 1 - 1 = 0
    BY <1>0
  <2>2. all[1][2] = "uint8"
    BY <1>0
  <2> QED
    BY <1>2, <2>1, <2>2, SomeTypes
<1>4. ASSUME NEW k \in 1 .. n PROVE g[k] = g[k - 1] + Width[layout[k][2]]
  <2>1. k + 1 \in 1 .. n + 1 /\ (k + 1) - 1 = k /\ (k - 1) + 1 = k /\ k \in 0 .. n /\ k - 1 \in 0 .. n
    BY <1>0
  <2>2. at[k + 1] = at[k] + Width[layout[k][2]]
    BY <1>0, <1>2, <2>1
  <2> QED
    BY <1>1, <2>1, <2>2
<1>5. g \in [0 .. n -> Nat] /\ g[0] = 1
  <2>1. \A k \in 0 .. n : k + 1 \in 0 .. n + 1
    BY <1>0
  <2>2. 0 \in 0 .. n /\ 0 + 1 = 1
    BY <1>0
  <2> QED
    BY <1>1, <1>2, <1>3, <2>1, <2>2
<1>6. Places(g, layout, 1)
  BY <1>0, <1>4, <1>5 DEF Places
<1>7. g[j] = places[j]
  BY <1>0, <1>6, PlacesAgree
<1> QED
  BY <1>1, <1>2, <1>7

-----------------------------------------------------------------------------
\* The downlink, report by report.

\* A packet that carries fields, read by the ground.
LEMMA CarriedIsRead ==
  ASSUME NEW N, NEW layout \in Layouts(N), NEW n \in Nat, n = Len(layout), NEW values, Fits(layout, values),
         NEW p, NEW apid \in Nat, apid = ApidMask(apid), NEW service, NEW subtype, NEW stamp, IsStamp(stamp),
         Carries(p, apid, service, subtype, stamp, layout, values, n)
  PROVE  \E data, at : /\ Unpacked(data, layout, values, at, n)
                       /\ ReadAs(ParseTm(p), apid, stamp, DecodePayload(service, subtype, data))
<1>1. p \in Seq(Octet) /\ 21 <= Len(p) /\ TmHeader(p, apid, service, subtype, stamp)
  BY WhatIsCarried
<1>2. PICK at : Unpacked(SourceData(p), layout, values, at, n)
  BY WhatIsCarried
<1>3. ReadAs(ParseTm(p), apid, stamp, DecodePayload(service, subtype, SourceData(p)))
  BY <1>1, HeaderIsRead
<1> QED
  BY <1>2, <1>3, Zenon

\* Numbers that the ground writes out.
LEMMA Numbers ==
  /\ Apid.TTC = 1 /\ Service.Verification = 1 /\ Service.Housekeeping = 3 /\ Service.Event = 5
  /\ Service.Test = 17 /\ Service.Parameter = 20
BY DEF Apid, Service

\* A test report is read as one.
LEMMA TestIsRead ==
  ASSUME NEW stamp, IsStamp(stamp), NEW r, r = ParseTm(TestReport(stamp))
  PROVE  HeaderOf(r, Apid.TTC, stamp) /\ r.name = "TEST_REPORT"
<1>1. <<>> \in Layouts({}) /\ Fits(<<>>, <<>>) /\ Len(<<>>) = 0
  <2>1. <<>> \in Seq({} \X Types) /\ Len(<<>>) = 0
    OBVIOUS
  <2> QED
    BY <2>1 DEF Layouts, Fits
<1>2. Apid.TTC \in Nat /\ Apid.TTC = ApidMask(Apid.TTC)
  BY SmallNumbers, Zenon
<1>3. PICK layout, values : layout = <<>> /\ values = <<>>
  BY Zenon
<1>4. Carries(TestReport(stamp), Apid.TTC, Service.Test, 2, stamp, layout, values, 0)
  BY <1>3, TestCarries
<1>5. PICK data : ReadAs(ParseTm(TestReport(stamp)), Apid.TTC, stamp, DecodePayload(Service.Test, 2, data))
  <2>1. 0 \in Nat /\ layout \in Layouts({}) /\ Fits(layout, values) /\ 0 = Len(layout)
    BY <1>1, <1>3
  <2> QED
    BY <1>2, <1>4, <2>1, CarriedIsRead
<1>6. DecodePayload(Service.Test, 2, data) = [name |-> "TEST_REPORT", fields |-> <<>>]
  <2>1. DecodePayload(17, 2, data) = [name |-> "TEST_REPORT", fields |-> <<>>]
    BY DEF DecodePayload
  <2> QED
    BY <2>1, Numbers, Zenon
<1> QED
  BY <1>5, <1>6 DEF ReadAs

\* The fields of two that are read from a payload.
LEMMA TwoUnpacked ==
  ASSUME NEW layout, NEW a, NEW b, NEW s \in Types, NEW t \in Types, Len(layout) = 2, layout[1] = <<a, s>>,
        layout[2] = <<b, t>>,
         NEW values, NEW at, NEW data, Unpacked(data, layout, values, at, 2)
  PROVE  /\ Len(data) = Width[s] + Width[t]
         /\ UnpackFrom(STRUCT_CODES[s], data, 0) = values[a]
         /\ UnpackFrom(STRUCT_CODES[t], data, Width[s]) = values[b]
<1>1. /\ Places(at, layout, 0) /\ Len(data) = at[2]
      /\ \A k \in 1 .. 2 : UnpackFrom(STRUCT_CODES[layout[k][2]], data, at[k - 1]) = values[layout[k][1]]
  BY DEF Unpacked
<1>2. at[0] = 0 /\ at[1] = at[1 - 1] + Width[layout[1][2]] /\ at[2] = at[2 - 1] + Width[layout[2][2]]
      /\ at[1] \in Nat /\ at[2] \in Nat /\ at[0] \in Nat
  BY <1>1 DEF Places
<1>3. 1 - 1 = 0 /\ 2 - 1 = 1 /\ 1 \in 1 .. 2 /\ 2 \in 1 .. 2
  OBVIOUS
<1>4. layout[1][1] = a /\ layout[1][2] = s /\ layout[2][1] = b /\ layout[2][2] = t
  OBVIOUS
<1>5. /\ UnpackFrom(STRUCT_CODES[s], data, at[0]) = values[a]
      /\ UnpackFrom(STRUCT_CODES[t], data, at[1]) = values[b]
  BY <1>1, <1>3, <1>4
<1>6. at[1] = 0 + Width[s] /\ at[2] = at[1] + Width[t]
  BY <1>2, <1>3, <1>4, Zenon
<1>7. at[1] = Width[s]
  <2>1. Width[s] \in 1 .. 8
    BY ThreeWidths
  <2>2. \A w \in 1 .. 8 : 0 + w = w
    OBVIOUS
  <2> QED
    BY <1>6, <2>1, <2>2
<1> QED
  BY <1>1, <1>2, <1>5, <1>6, <1>7

\* A parameter has the same name at both ends,
LEMMA ParamsNamed == ASSUME NEW param \in DOMAIN ParamId PROVE NamedBy(PARAMS, ParamId[param]) = param
<1>1. param \in {"SYS_HK_PERIOD_MS", "ADCS_HK_PERIOD_MS", "EPS_HK_PERIOD_MS", "DETUMBLE_RATE_DPS",
                 "POINTING_RATE_DPS", "BATT_LOW_SOC_PCT", "BATT_CRIT_SOC_PCT", "LINK_TIMEOUT_S"}
  BY DEF ParamId
<1>2. ParamId[param] \in DOMAIN PARAMS /\ PARAMS[ParamId[param]] = param
  BY <1>1 DEF ParamId, PARAMS
<1> QED
  BY <1>2 DEF NamedBy

\* A parameter report is read with its name and value.
LEMMA ParamIsRead ==
  ASSUME NEW stamp, IsStamp(stamp), NEW param \in DOMAIN ParamId, NEW value \in Values("float64"),
         NEW r, r = ParseTm(ParamReport(param, value, stamp))
  PROVE  /\ HeaderOf(r, Apid.TTC, stamp) /\ r.name = "PARAM_REPORT"
         /\ r.fields.param_name = param /\ r.fields.value = value
<1>1. PICK layout, values : ParamCarried(layout, values, param, value, stamp)
  BY ParamCarries
<1>2. /\ layout \in Layouts({"param_id", "value"}) /\ Len(layout) = 2 /\ Fits(layout, values)
      /\ layout[1] = <<"param_id", "uint16">> /\ layout[2] = <<"value", "float64">>
      /\ values["param_id"] = ParamId[param] /\ values["value"] = value
      /\ Carries(ParamReport(param, value, stamp), Apid.TTC, Service.Parameter, 2, stamp, layout, values, 2)
  BY <1>1, Zenon DEF ParamCarried
<1>3. PICK data, at : /\ Unpacked(data, layout, values, at, 2)
                      /\ ReadAs(r, Apid.TTC, stamp, DecodePayload(Service.Parameter, 2, data))
  <2>1. Apid.TTC \in Nat /\ Apid.TTC = ApidMask(Apid.TTC)
    BY SmallNumbers, Zenon
  <2>2. 2 \in Nat /\ 2 = Len(layout)
    BY <1>2
  <2> QED
    BY <1>2, <2>1, <2>2, CarriedIsRead, ZenonT(30)
<1>4. /\ Len(data) = 2 + 8 /\ UnpackFrom("H", data, 0) = ParamId[param] /\ UnpackFrom("d", data, 2) = value
  <2>1. /\ Len(data) = Width["uint16"] + Width["float64"]
        /\ UnpackFrom(STRUCT_CODES["uint16"], data, 0) = values["param_id"]
        /\ UnpackFrom(STRUCT_CODES["float64"], data, Width["uint16"]) = values["value"]
    <3>1. "uint16" \in Types /\ "float64" \in Types
      BY SomeTypes
    <3>2. /\ Len(layout) = 2 /\ layout[1] = <<"param_id", "uint16">> /\ layout[2] = <<"value", "float64">>
          /\ Unpacked(data, layout, values, at, 2)
      BY <1>2, <1>3, Zenon
    <3> QED
      BY <3>1, <3>2, TwoUnpacked
  <2>2. STRUCT_CODES["uint16"] = "H" /\ STRUCT_CODES["float64"] = "d"
    BY DEF STRUCT_CODES
  <2> QED
    BY <1>2, <2>1, <2>2, SomeTypes, Zenon
<1>5. PICK id, v, name : id = UnpackFrom("H", data, 0) /\ v = UnpackFrom("d", data, 2) /\
      name = NamedBy(PARAMS, id)
  BY Zenon
<1>6. DecodePayload(Service.Parameter, 2, data)
        = [name |-> "PARAM_REPORT", fields |-> [param_id |-> id, param_name |-> name, value |-> v]]
  <2>1. DecodePayload(20, 2, data) = DecodeParamReport(data)
    BY DEF DecodePayload
  <2>2. ~(Len(data) < 10)
    BY <1>4
  <2>3. DecodeParamReport(data)
          = [name |-> "PARAM_REPORT", fields |-> [param_id |-> id, param_name |-> name, value |-> v]]
    BY <1>5, <2>2, Zenon DEF DecodeParamReport
  <2> QED
    BY <2>1, <2>3, Numbers, Zenon
<1>7. r.name = "PARAM_REPORT" /\ r.fields = [param_id |-> id, param_name |-> name, value |-> v]
      /\ HeaderOf(r, Apid.TTC, stamp)
  BY <1>3, <1>6 DEF ReadAs
<1>8. r.fields.param_name = name /\ r.fields.value = v
  BY <1>7
<1>9. name = param /\ v = value
  BY <1>4, <1>5, ParamsNamed
<1> QED
  BY <1>7, <1>8, <1>9

\* so have an event,
LEMMA EventsNamed == ASSUME NEW event \in DOMAIN EventId PROVE EventId[event] \in DOMAIN EVENTS /\
      EVENTS[EventId[event]] = event
<1>1. event \in {"BOOT_COMPLETE", "MODE_CHANGED", "LINK_CONNECTED", "LINK_LOST", "TC_REJECTED", "HK_ENABLED",
                 "HK_DISABLED", "PARAM_SET", "SCHED_OVERRUN", "MODE_REFUSED", "SAFE_MODE_ENTERED"}
  BY DEF EventId
<1> QED
  BY <1>1 DEF EventId, EVENTS

\* a severity,
LEMMA SeveritiesNamed ==
  ASSUME NEW event
  PROVE  Severity[NamedBy(SEVERITY_NAMES, EventSeverity(event))] = EventSeverity(event)
<1>1. EventSeverity(event) \in {1, 2, 3, 4}
  BY DEF EventSeverity, Severity
<1>2. \A s \in {1, 2, 3, 4} : s \in DOMAIN SEVERITY_NAMES /\ Severity[SEVERITY_NAMES[s]] = s
  BY DEF SEVERITY_NAMES, Severity
<1> QED
  BY <1>1, <1>2 DEF NamedBy

\* and a failure code.
LEMMA FailuresNamed ==
  ASSUME NEW f \in DOMAIN FailureCode
  PROVE  /\ f \in DOMAIN Spelt /\ FailureCode[f] + 1 \in DOMAIN FAILURE_CODES
         /\ FAILURE_CODES[FailureCode[f] + 1] = Spelt[f]
<1>1. f \in {"Ok", "BadCrc", "BadLength", "UnknownService", "IllegalArg", "Unavailable", "Refused"}
  BY DEF FailureCode
<1>2. f \in DOMAIN Spelt
  BY <1>1 DEF Spelt
<1>3. PICK k \in 1 .. 7 : k = FailureCode[f] + 1 /\ FAILURE_CODES[k] = Spelt[f]
  BY <1>1 DEF FailureCode, FAILURE_CODES, Spelt
<1>4. DOMAIN FAILURE_CODES = 1 .. 7
  BY DEF FAILURE_CODES
<1> QED
  BY <1>2, <1>3, <1>4

\* The argument of an event, as the ground shows it.
AuxShown(event, aux, shown) ==
  IF event = "TC_REJECTED" THEN \E f \in DOMAIN Spelt : shown = Spelt[f] /\ aux = <<0, FailureCode[f]>>
                           ELSE shown = aux

\* An event report is read as the event, its severity and what came with it.
LEMMA EventIsRead ==
  ASSUME NEW stamp, IsStamp(stamp), NEW event \in DOMAIN EventId, NEW aux \in Values("uint32"),
         event = "TC_REJECTED" => \E f \in DOMAIN FailureCode : aux = <<0, FailureCode[f]>>,
         NEW r, r = ParseTm(EventReport(event, aux, stamp))
  PROVE  /\ HeaderOf(r, Apid.TTC, stamp) /\ r.fields.event_name = event
         /\ Severity[r.name[2]] = EventSeverity(event) /\ r.name[1] = "EVENT"
         /\ AuxShown(event, aux, r.fields.aux)
<1>1. PICK layout, values : EventCarried(layout, values, event, aux, stamp)
  BY EventCarries
<1>12. PICK severity : severity = EventSeverity(event)
  BY Zenon
<1>2. /\ layout \in Layouts({"event_id", "aux"}) /\ Len(layout) = 2 /\ Fits(layout, values)
      /\ layout[1] = <<"event_id", "uint16">> /\ layout[2] = <<"aux", "uint32">>
      /\ values["event_id"] = EventId[event] /\ values["aux"] = aux
      /\ Carries(EventReport(event, aux, stamp), Apid.TTC, Service.Event, severity, stamp, layout, values, 2)
  BY <1>1, <1>12, Zenon DEF EventCarried
<1>3. PICK data, at : /\ Unpacked(data, layout, values, at, 2)
                      /\ ReadAs(r, Apid.TTC, stamp, DecodePayload(Service.Event, severity, data))
  <2>1. Apid.TTC \in Nat /\ Apid.TTC = ApidMask(Apid.TTC)
    BY SmallNumbers, Zenon
  <2>2. 2 \in Nat /\ 2 = Len(layout)
    BY <1>2
  <2> QED
    BY <1>2, <2>1, <2>2, CarriedIsRead, ZenonT(30)
<1>4. /\ Len(data) = 2 + 4 /\ UnpackFrom("H", data, 0) = EventId[event] /\ UnpackFrom("I", data, 2) = aux
  <2>1. /\ Len(data) = Width["uint16"] + Width["uint32"]
        /\ UnpackFrom(STRUCT_CODES["uint16"], data, 0) = values["event_id"]
        /\ UnpackFrom(STRUCT_CODES["uint32"], data, Width["uint16"]) = values["aux"]
    <3>1. "uint16" \in Types /\ "uint32" \in Types
      BY SomeTypes
    <3>2. /\ Len(layout) = 2 /\ layout[1] = <<"event_id", "uint16">> /\ layout[2] = <<"aux", "uint32">>
          /\ Unpacked(data, layout, values, at, 2)
      BY <1>2, <1>3, Zenon
    <3> QED
      BY <3>1, <3>2, TwoUnpacked
  <2>2. STRUCT_CODES["uint16"] = "H" /\ STRUCT_CODES["uint32"] = "I"
    BY DEF STRUCT_CODES
  <2> QED
    BY <1>2, <2>1, <2>2, SomeTypes, Zenon
<1>5. PICK id, s, name, shown :
        /\ id = EventId[event] /\ s = NamedBy(SEVERITY_NAMES, severity) /\ name = NamedBy(EVENTS, id)
        /\ shown = IF (id \in DOMAIN EVENTS /\ EVENTS[id] = "TC_REJECTED")
                      /\ (aux[1] = 0 /\ aux[2] + 1 \in DOMAIN FAILURE_CODES)
                     THEN FAILURE_CODES[aux[2] + 1] ELSE aux
  BY Zenon
<1>6. DecodePayload(Service.Event, severity, data)
        = [name |-> <<"EVENT", s>>, fields |-> [event_id |-> id, event_name |-> name, aux |-> shown]]
  <2>1. DecodePayload(5, severity, data) = DecodeEvent(severity, data)
    BY DEF DecodePayload
  <2>2. ~(Len(data) < 6)
    BY <1>4
  <2>3. id = UnpackFrom("H", data, 0) /\ aux = UnpackFrom("I", data, 2)
    BY <1>4, <1>5, Zenon
  <2>4. DecodeEvent(severity, data)
          = [name |-> <<"EVENT", s>>, fields |-> [event_id |-> id, event_name |-> name, aux |-> shown]]
    BY <1>5, <2>2, <2>3, Zenon DEF DecodeEvent
  <2> QED
    BY <2>1, <2>4, Numbers, Zenon
<1>7. /\ r.name = <<"EVENT", s>> /\ r.fields = [event_id |-> id, event_name |-> name, aux |-> shown]
      /\ HeaderOf(r, Apid.TTC, stamp)
  BY <1>3, <1>6 DEF ReadAs
<1>8. r.name[1] = "EVENT" /\ r.name[2] = s /\ r.fields.event_name = name /\ r.fields.aux = shown
  BY <1>7
<1>9. name = event /\ Severity[s] = EventSeverity(event)
  <2>1. name = event
    BY <1>5, EventsNamed DEF NamedBy
  <2> QED
    BY <1>5, <1>12, <2>1, SeveritiesNamed
<1>10. CASE event = "TC_REJECTED"
  <2>1. PICK f \in DOMAIN FailureCode : aux = <<0, FailureCode[f]>>
    BY <1>10
  <2>2. /\ f \in DOMAIN Spelt /\ FailureCode[f] + 1 \in DOMAIN FAILURE_CODES
        /\ FAILURE_CODES[FailureCode[f] + 1] = Spelt[f]
    BY FailuresNamed
  <2>3. aux[1] = 0 /\ aux[2] = FailureCode[f]
    BY <2>1
  <2>4. id \in DOMAIN EVENTS /\ EVENTS[id] = "TC_REJECTED"
    BY <1>5, <1>10, EventsNamed
  <2>5. shown = Spelt[f]
    BY <1>5, <2>2, <2>3, <2>4, Zenon
  <2>6. AuxShown(event, aux, shown)
    BY <1>10, <2>1, <2>2, <2>5, Zenon DEF AuxShown
  <2> QED
    BY <1>7, <1>8, <1>9, <2>6, Zenon
<1>11. CASE event # "TC_REJECTED"
  <2>1. EVENTS[id] # "TC_REJECTED"
    BY <1>5, <1>11, EventsNamed
  <2>2. shown = aux
    BY <1>5, <2>1, Zenon
  <2>3. AuxShown(event, aux, shown)
    BY <1>11, <2>2, Zenon DEF AuxShown
  <2> QED
    BY <1>7, <1>8, <1>9, <2>3, Zenon
<1> QED
  BY <1>10, <1>11

\* The fields of a verification report.
LEMMA VerificationUnpacked ==
  ASSUME NEW subtype, NEW layout, layout = VerifLayout(subtype), NEW n \in Nat, n = Len(layout),
         NEW values, NEW at, NEW data, Unpacked(data, layout, values, at, n)
  PROVE  /\ subtype \in {2, 8} => Len(data) = 6 /\ UnpackFrom("H", data, 4) = values["failure"]
         /\ subtype \notin {2, 8} => Len(data) = 4
         /\ UnpackFrom("H", data, 0) = values["req_apid"] /\ UnpackFrom("H", data, 2) = values["req_seqcnt"]
<1>1. /\ Places(at, layout, 0) /\ Len(data) = at[n]
      /\ \A k \in 1 .. n : UnpackFrom(STRUCT_CODES[layout[k][2]], data, at[k - 1]) = values[layout[k][1]]
  BY DEF Unpacked
<1>2. /\ n \in 2 .. 3 /\ (n = 3 <=> subtype \in {2, 8})
      /\ layout[1] = <<"req_apid", "uint16">> /\ layout[2] = <<"req_seqcnt", "uint16">>
      /\ n = 3 => layout[3] = <<"failure", "uint16">>
  BY TheVerifLayout
<1>3. at[0] = 0 /\ \A k \in 1 .. n : at[k] = at[k - 1] + Width[layout[k][2]]
  BY <1>1 DEF Places
<1>4. at[2] = 4
  <2>1. at[1] = at[1 - 1] + 2 /\ at[2] = at[2 - 1] + 2
    <3>1. 1 \in 1 .. n /\ 2 \in 1 .. n
      BY <1>2
    <3>2. layout[1][2] = "uint16" /\ layout[2][2] = "uint16"
      BY <1>2
    <3> QED
      BY <1>3, <3>1, <3>2, SomeTypes, Zenon
  <2> QED
    BY <1>3, <2>1
<1>7. UnpackFrom("H", data, 0) = values["req_apid"] /\ UnpackFrom("H", data, 2) = values["req_seqcnt"]
  <2>1. /\ 1 \in 1 .. n /\ 2 \in 1 .. n /\ 1 - 1 = 0 /\ 2 - 1 = 1
        /\ layout[1][1] = "req_apid" /\ layout[1][2] = "uint16"
        /\ layout[2][1] = "req_seqcnt" /\ layout[2][2] = "uint16"
    BY <1>2
  <2>2. /\ UnpackFrom(STRUCT_CODES["uint16"], data, at[0]) = values["req_apid"]
        /\ UnpackFrom(STRUCT_CODES["uint16"], data, at[1]) = values["req_seqcnt"]
    BY <1>1, <2>1, Zenon
  <2>3. at[1] = at[0] + 2
    BY <1>3, <2>1, SomeTypes, Zenon
  <2>4. at[1] = 2
    BY <1>3, <2>3
  <2>5. STRUCT_CODES["uint16"] = "H"
    BY DEF STRUCT_CODES
  <2> QED
    BY <1>3, <2>2, <2>4, <2>5, Zenon
<1>5. CASE subtype \in {2, 8}
  <2>1. n = 3 /\ layout[3][1] = "failure" /\ layout[3][2] = "uint16" /\ 3 \in 1 .. n /\ 3 - 1 = 2
    BY <1>2, <1>5
  <2>2. at[3] = at[2] + 2 /\ UnpackFrom(STRUCT_CODES["uint16"], data, at[2]) = values["failure"]
    BY <1>1, <1>3, <2>1, SomeTypes, Zenon
  <2>3. STRUCT_CODES["uint16"] = "H"
    BY DEF STRUCT_CODES
  <2>4. at[3] = 6
    BY <1>4, <2>2
  <2> QED
    BY <1>1, <1>4, <1>5, <1>7, <2>1, <2>2, <2>3, <2>4, Zenon
<1>6. CASE subtype \notin {2, 8}
  <2>1. n = 2
    BY <1>2, <1>6
  <2> QED
    BY <1>1, <1>4, <1>6, <1>7, <2>1, Zenon
<1> QED
  BY <1>5, <1>6

\* The request that a verification report quotes, and the failure.
RequestShown(request, fields) == fields.req_apid = request.apid /\ fields.req_seqcnt = request.seq
FailureShown(failure, fields) ==
  IF failure = "Ok" THEN "failure" \notin DOMAIN fields ELSE fields.failure = Spelt[failure]

\* A verification report is read as what it verifies, with its failure.
LEMMA VerificationIsRead ==
  ASSUME NEW stamp, IsStamp(stamp), NEW request, request.apid \in Word, request.seq \in Word,
         NEW subtype \in {1, 2, 7, 8}, NEW failure \in DOMAIN FailureCode,
         failure = "Ok" <=> subtype \in {1, 7},
         NEW r, r = ParseTm(Verification(request, subtype, failure, stamp))
  PROVE  /\ HeaderOf(r, Apid.TTC, stamp) /\ r.name = VERIF_NAMES[subtype]
         /\ FailureShown(failure, r.fields) /\ RequestShown(request, r.fields)
<1>1. PICK layout, values, n : n \in Nat /\ VerificationCarried(layout, values, n, request, subtype, failure,
      stamp)
  <2>1. subtype \in Octet
    BY DEF Octet
  <2> QED
    BY <2>1, VerificationCarries
<1>2. /\ layout = VerifLayout(subtype) /\ n = Len(layout) /\ Fits(layout, values)
      /\ values["req_apid"] = request.apid /\ values["req_seqcnt"] = request.seq
      /\ values["failure"] = FailureCode[failure]
      /\ Carries(Verification(request, subtype, failure, stamp),
                 Apid.TTC, Service.Verification, subtype, stamp, layout, values, n)
  BY <1>1, Zenon DEF VerificationCarried
<1>3. PICK data, at : /\ Unpacked(data, layout, values, at, n)
                      /\ ReadAs(r, Apid.TTC, stamp, DecodePayload(Service.Verification, subtype, data))
  <2>1. Apid.TTC \in Nat /\ Apid.TTC = ApidMask(Apid.TTC)
    BY SmallNumbers, Zenon
  <2>2. layout \in Layouts(VerifNames)
    BY <1>2, TheVerifLayout
  <2> QED
    BY <1>1, <1>2, <2>1, <2>2, CarriedIsRead
<1>4. /\ subtype \in {2, 8} => Len(data) = 6 /\ UnpackFrom("H", data, 4) = values["failure"]
      /\ subtype \notin {2, 8} => Len(data) = 4
      /\ UnpackFrom("H", data, 0) = request.apid /\ UnpackFrom("H", data, 2) = request.seq
  <2>1. /\ subtype \in {2, 8} => Len(data) = 6 /\ UnpackFrom("H", data, 4) = values["failure"]
        /\ subtype \notin {2, 8} => Len(data) = 4
        /\ UnpackFrom("H", data, 0) = values["req_apid"] /\ UnpackFrom("H", data, 2) = values["req_seqcnt"]
    BY <1>1, <1>2, <1>3, VerificationUnpacked
  <2> QED
    BY <1>2, <2>1, Zenon
<1>5. DecodePayload(Service.Verification, subtype, data) = DecodeVerification(subtype, data)
  <2>1. DecodePayload(1, subtype, data) = DecodeVerification(subtype, data)
    BY DEF DecodePayload
  <2> QED
    BY <2>1, Numbers, Zenon
<1>6. PICK apid, seqcnt, named, name :
        /\ apid = UnpackFrom("H", data, 0) /\ seqcnt = UnpackFrom("H", data, 2)
        /\ named = NamedBy(FAILURE_CODES, UnpackFrom("H", data, 4) + 1)
        /\ name = NamedBy(VERIF_NAMES, subtype) /\ apid = request.apid /\ seqcnt = request.seq
  BY <1>4, Zenon
<1>7. name = VERIF_NAMES[subtype]
  <2>1. subtype \in DOMAIN VERIF_NAMES
    BY DEF VERIF_NAMES
  <2> QED
    BY <1>6, <2>1 DEF NamedBy
<1>8. CASE subtype \in {2, 8}
  <2>1. ~(Len(data) < 4) /\ Len(data) >= 6
    <3>1. Len(data) = 6
      BY <1>4, <1>8, Zenon
    <3> QED
      BY <3>1
  <2>2. DecodeVerification(subtype, data)
          = [name |-> name, fields |-> [req_apid |-> apid, req_seqcnt |-> seqcnt, failure |-> named]]
    BY <1>6, <1>8, <2>1, Zenon DEF DecodeVerification
  <2>3. r.name = name /\ r.fields = [req_apid |-> apid, req_seqcnt |-> seqcnt, failure |-> named]
        /\ HeaderOf(r, Apid.TTC, stamp)
    BY <1>3, <1>5, <2>2 DEF ReadAs
  <2>4. r.fields.failure = named /\ r.fields.req_apid = apid /\ r.fields.req_seqcnt = seqcnt
    BY <2>3
  <2>5. failure # "Ok" /\ named = Spelt[failure]
    <3>1. UnpackFrom("H", data, 4) = FailureCode[failure]
      BY <1>2, <1>4, <1>8
    <3>2. FailureCode[failure] + 1 \in DOMAIN FAILURE_CODES /\ FAILURE_CODES[FailureCode[failure] +
          1] = Spelt[failure]
      BY FailuresNamed
    <3>3. named = NamedBy(FAILURE_CODES, FailureCode[failure] + 1)
      BY <1>6, <3>1, Zenon
    <3> QED
      BY <1>8, <3>2, <3>3 DEF NamedBy
  <2> QED
    BY <1>6, <1>7, <2>3, <2>4, <2>5, Zenon DEF FailureShown, RequestShown
<1>9. CASE subtype \notin {2, 8}
  <2>1. ~(Len(data) < 4)
    <3>1. Len(data) = 4
      BY <1>4, <1>9, Zenon
    <3> QED
      BY <3>1
  <2>2. DecodeVerification(subtype, data) = [name |-> name, fields |-> [req_apid |-> apid,
        req_seqcnt |-> seqcnt]]
    BY <1>6, <1>9, <2>1, Zenon DEF DecodeVerification
  <2>3. r.name = name /\ r.fields = [req_apid |-> apid, req_seqcnt |-> seqcnt]
        /\ HeaderOf(r, Apid.TTC, stamp)
    BY <1>3, <1>5, <2>2 DEF ReadAs
  <2>4. "failure" \notin DOMAIN r.fields /\ r.fields.req_apid = apid /\ r.fields.req_seqcnt = seqcnt
    BY <2>3
  <2>5. failure = "Ok"
    BY <1>9
  <2> QED
    BY <1>6, <1>7, <2>3, <2>4, <2>5, Zenon DEF FailureShown, RequestShown
<1> QED
  BY <1>8, <1>9

\* The number of an enumeration is shown by its name,
LEMMA EnumsNamed ==
  ASSUME NEW f \in DOMAIN Enumeration, NEW m \in DOMAIN Enumeration[f]
  PROVE  EnumOf(f) # "None" /\ NamedBy(ENUMS[EnumOf(f)], Enumeration[f][m] + 1) = m
<1>1. f = "mode" \/ f = "est_state" \/ f = "power_state"
  BY DEF Enumeration
<1>2. CASE f = "mode"
  <2>1. EnumOf(f) = "SystemMode" /\ Enumeration[f] = SystemMode
    BY <1>2 DEF EnumOf, Enumeration
  <2>2. m \in {"BOOT", "SAFE", "DETUMBLE", "STANDBY", "POINTING"}
    BY <2>1 DEF SystemMode
  <2>3. PICK names : names = <<"BOOT", "SAFE", "DETUMBLE", "STANDBY", "POINTING">>
    OBVIOUS
  <2>4. SystemMode[m] + 1 \in DOMAIN names /\ names[SystemMode[m] + 1] = m
    BY <2>2, <2>3 DEF SystemMode
  <2>5. ENUMS["SystemMode"] = names
    BY <2>3 DEF ENUMS
  <2> QED
    BY <2>1, <2>4, <2>5 DEF NamedBy
<1>3. CASE f = "est_state"
  <2>1. EnumOf(f) = "AdcsEstState" /\ Enumeration[f] = AdcsEstState
    BY <1>3 DEF EnumOf, Enumeration
  <2>2. m \in {"INVALID", "INITIALISING", "CONVERGING", "CONVERGED"}
    BY <2>1 DEF AdcsEstState
  <2>3. PICK names : names = <<"INVALID", "INITIALISING", "CONVERGING", "CONVERGED">>
    OBVIOUS
  <2>4. AdcsEstState[m] + 1 \in DOMAIN names /\ names[AdcsEstState[m] + 1] = m
    BY <2>2, <2>3 DEF AdcsEstState
  <2>5. ENUMS["AdcsEstState"] = names
    BY <2>3 DEF ENUMS
  <2> QED
    BY <2>1, <2>4, <2>5 DEF NamedBy
<1>4. CASE f = "power_state"
  <2>1. EnumOf(f) = "PowerState" /\ Enumeration[f] = PowerState
    BY <1>4 DEF EnumOf, Enumeration
  <2>2. m \in {"UNKNOWN", "NOMINAL", "LOW", "CRITICAL"}
    BY <2>1 DEF PowerState
  <2>3. PICK names : names = <<"UNKNOWN", "NOMINAL", "LOW", "CRITICAL">>
    OBVIOUS
  <2>4. PowerState[m] + 1 \in DOMAIN names /\ names[PowerState[m] + 1] = m
    BY <2>2, <2>3 DEF PowerState
  <2>5. ENUMS["PowerState"] = names
    BY <2>3 DEF ENUMS
  <2> QED
    BY <2>1, <2>4, <2>5 DEF NamedBy
<1> QED
  BY <1>1, <1>2, <1>3, <1>4

\* any other as itself.
LEMMA OthersAreNumbers == ASSUME NEW f, f \notin DOMAIN Enumeration PROVE EnumOf(f) = "None"
  BY DEF Enumeration, EnumOf

\* One structure has the number.
LEMMA StructuresNumbered ==
  ASSUME NEW sid \in DOMAIN HkSid
  PROVE  {n \in DOMAIN TELEMETRY : TELEMETRY[n].sid = HkSid[sid]} = {sid}
<1>1. sid \in {"SYS_HK", "ADCS_HK", "EPS_HK"}
  BY DEF HkSid
<1>2. DOMAIN TELEMETRY = {"SYS_HK", "ADCS_HK", "EPS_HK"}
  BY DEF TELEMETRY
<1>3. TELEMETRY["SYS_HK"].sid = 1 /\ TELEMETRY["ADCS_HK"].sid = 2 /\ TELEMETRY["EPS_HK"].sid = 3
  BY DEF TELEMETRY
<1>4. HkSid["SYS_HK"] = 1 /\ HkSid["ADCS_HK"] = 2 /\ HkSid["EPS_HK"] = 3
  BY DEF HkSid
<1> QED
  BY <1>1, <1>2, <1>3, <1>4

\* A field as the ground shows it.
ShownAs(f, value, shown) == IF f \in DOMAIN Enumeration THEN Enumeration[f][shown] = value ELSE shown = value

\* A field is shown for what it holds,
LEMMA FieldIsShown ==
  ASSUME NEW row, NEW field, RowOf(row, field), NEW value,
         field[1] \in DOMAIN Enumeration =>
           \E m \in DOMAIN Enumeration[field[1]] : value = Enumeration[field[1]][m]
  PROVE  ShownAs(field[1], value, Shown(row, value))
<1>1. PICK f : f = field[1] /\ row[3] = EnumOf(f)
  BY DEF RowOf
<1>2. CASE f \in DOMAIN Enumeration
  <2>1. PICK m \in DOMAIN Enumeration[f] : value = Enumeration[f][m]
    BY <1>1, <1>2
  <2>2. EnumOf(f) # "None" /\ NamedBy(ENUMS[EnumOf(f)], Enumeration[f][m] + 1) = m
    BY <1>2, EnumsNamed
  <2>3. Shown(row, value) = m
    BY <1>1, <2>1, <2>2, Zenon DEF Shown, NoEnum
  <2> QED
    BY <1>1, <1>2, <2>1, <2>3, Zenon DEF ShownAs
<1>3. CASE f \notin DOMAIN Enumeration
  <2>1. Shown(row, value) = value
    BY <1>1, <1>3, OthersAreNumbers, Zenon DEF Shown, NoEnum
  <2> QED
    BY <1>1, <1>3, <2>1, Zenon DEF ShownAs
<1> QED
  BY <1>2, <1>3

\* The fields of a structure that are unpacked where the ground expects them.
StructureShown(fields, shown, layout, values) ==
  /\ DOMAIN shown = {layout[k][1] : k \in DOMAIN layout}
  /\ \A f \in DOMAIN shown : ShownAs(f, values[f], shown[f])

\* and so is each field of a structure.
LEMMA StructureIsShown ==
  ASSUME NEW N, NEW n \in Nat, NEW rows, NEW layout, Paired(rows, layout, N, n), NEW data, NEW values,
         \A k \in 1 .. n : UnpackFrom(STRUCT_CODES[layout[k][2]], data,
               Offsets(rows)[k - 1]) = values[layout[k][1]],
         \A k \in 1 .. n : layout[k][1] \in DOMAIN Enumeration =>
           \E m \in DOMAIN Enumeration[layout[k][1]] : values[layout[k][1]] = Enumeration[layout[k][1]][m]
  PROVE  StructureShown(rows, FieldsShown(rows, data), layout, values)
<1>1. /\ layout \in Layouts(N) /\ Len(layout) = n /\ rows \in Rows(N) /\ Len(rows) = n
      /\ \A k \in 1 .. n : RowOf(rows[k], layout[k])
  BY DEF Paired
<1>2. DOMAIN rows = 1 .. n /\ DOMAIN layout = 1 .. n
  BY <1>1 DEF Rows, Layouts
<1>3. PICK offset : offset = Offsets(rows)
  BY Zenon
<1> DEFINE index(f) == CHOOSE k \in DOMAIN rows : rows[k][1] = f
           value(k) == UnpackFrom(STRUCT_CODES[rows[k][2]], data, offset[k - 1])
<1>4. PICK shown : shown = FieldsShown(rows, data)
  BY Zenon
<1>5. shown = [f \in {rows[k][1] : k \in DOMAIN rows} |-> Shown(rows[index(f)], value(index(f)))]
  <2>1. FieldsShown(rows, data)
          = [f \in {rows[k][1] : k \in DOMAIN rows} |->
               Shown(rows[CHOOSE k \in DOMAIN rows : rows[k][1] = f],
                     UnpackFrom(STRUCT_CODES[rows[CHOOSE k \in DOMAIN rows : rows[k][1] = f][2]], data,
                                Offsets(rows)[(CHOOSE k \in DOMAIN rows : rows[k][1] = f) - 1]))]
    BY Zenon DEF FieldsShown
  <2> QED
    BY <1>3, <1>4, <2>1
<1>6. \A k \in 1 .. n : rows[k][1] = layout[k][1] /\ rows[k][2] = layout[k][2]
  BY <1>1 DEF RowOf
<1>7. DOMAIN shown = {layout[k][1] : k \in DOMAIN layout}
  <2>1. DOMAIN shown = {rows[k][1] : k \in DOMAIN rows}
    BY <1>5
  <2> QED
    BY <1>2, <1>6, <2>1
<1>8. ASSUME NEW f \in DOMAIN shown PROVE ShownAs(f, values[f], shown[f])
  <2>1. \E k \in DOMAIN rows : rows[k][1] = f
    BY <1>5
  <2>2. PICK k : k = index(f)
    BY Zenon
  <2>3. k \in 1 .. n /\ rows[k][1] = f
    BY <1>2, <2>1, <2>2, Zenon
  <2>4. shown[f] = Shown(rows[k], value(k))
    <3>1. f \in {rows[j][1] : j \in DOMAIN rows}
      BY <1>5
    <3> HIDE DEF index, value
    <3> QED
      BY <1>5, <2>2, <3>1
  <2>5. layout[k][1] = f /\ value(k) = values[f]
    BY <1>3, <1>6, <2>3
  <2>6. RowOf(rows[k], layout[k])
    BY <1>1, <2>3
  <2>7. PICK field, row, v : field = layout[k] /\ row = rows[k] /\ v = values[f]
    BY Zenon
  <2>8. field[1] \in DOMAIN Enumeration => \E m \in DOMAIN Enumeration[field[1]] : v = Enumeration[field[1]][m]
    BY <2>3, <2>5, <2>7, Zenon
  <2>9. ShownAs(field[1], v, Shown(row, v))
    BY <2>6, <2>7, <2>8, FieldIsShown
  <2> QED
    BY <2>4, <2>5, <2>7, <2>9, Zenon
<1> QED
  BY <1>4, <1>7, <1>8, Zenon DEF StructureShown

\* A structure, behind its number.
LEMMA StructureIsDecoded ==
  ASSUME NEW sid \in DOMAIN HkSid, NEW data, data # <<>>, data[1] = HkSid[sid],
         NEW rows, rows = TELEMETRY[sid].fields, NEW n \in Nat, n = Len(rows),
         NEW size \in Nat, size = Len(data), Offsets(rows)[n] = size
  PROVE  DecodeHousekeeping(data) = [name |-> sid, fields |-> FieldsShown(rows, data)]
<1>1. PICK found : found = {m \in DOMAIN TELEMETRY : TELEMETRY[m].sid = data[1]}
  BY Zenon
<1>2. found = {sid}
  <2>1. {m \in DOMAIN TELEMETRY : TELEMETRY[m].sid = HkSid[sid]} = {sid}
    BY StructuresNumbered
  <2> QED
    BY <1>1, <2>1, Zenon
<1>3. (CHOOSE m \in found : TRUE) = sid /\ found # {}
  BY <1>2
<1>4. ~(Offsets(rows)[Len(rows)] > Len(data))
  <2>1. ~(size > size)
    OBVIOUS
  <2> QED
    BY <2>1, Zenon
<1> QED
  BY <1>1, <1>3, <1>4, Zenon DEF DecodeHousekeeping

\* What has an octet is not empty.
LEMMA SizeIsPositive ==
  ASSUME NEW data, NEW size \in Nat, size = Len(data), 1 <= size
  PROVE  data # <<>>
<1>1. Len(<<>>) = 0
  OBVIOUS
<1> QED
  BY <1>1

EnumeratedIn(values) ==
  \A f \in DOMAIN values \cap DOMAIN Enumeration :
    \E m \in DOMAIN Enumeration[f] : values[f] = Enumeration[f][m]

HkShown(shown, values) ==
  DOMAIN shown = DOMAIN values /\ \A f \in DOMAIN values : ShownAs(f, values[f], shown[f])

\* A housekeeping report is read as its structure, field by field.
LEMMA HkIsRead ==
  ASSUME NEW stamp, IsStamp(stamp), NEW sid \in DOMAIN HkSid, NEW values,
         DOMAIN values = {HkLayout(sid)[k][1] : k \in DOMAIN HkLayout(sid)},
         \A k \in DOMAIN HkLayout(sid) : values[HkLayout(sid)[k][1]] \in Values(HkLayout(sid)[k][2]),
         EnumeratedIn(values), NEW r, r = ParseTm(HkReport(sid, values, stamp))
  PROVE  HeaderOf(r, ApidOfHk[sid], stamp) /\ r.name = sid /\ HkShown(r.fields, values)
<1>1. PICK all, v, n : n \in Nat /\ HkCarried(all, v, n, sid, values, stamp)
  BY HkCarries
<1>2. PICK layout, rows : layout = HkLayout(sid) /\ rows = TELEMETRY[sid].fields
  BY Zenon
<1>3. /\ n = Len(layout) /\ all \in Layouts(Named(layout) \cup {"sid"}) /\ Len(all) = n + 1
      /\ all[1] = <<"sid", "uint8">> /\ \A k \in 1 .. n : all[k + 1] = layout[k]
      /\ v["sid"] = HkSid[sid] /\ \A x \in Named(layout) : v[x] = values[x]
      /\ Fits(all, v)
      /\ Carries(HkReport(sid, values, stamp), ApidOfHk[sid], Service.Housekeeping, 25, stamp, all, v, n + 1)
  BY <1>1, <1>2, Zenon DEF HkCarried
<1>4. layout \in Layouts(Named(layout)) /\ DOMAIN layout = 1 .. n
  BY <1>2, <1>3, TheHkLayout
<1>5. PICK N : Paired(rows, layout, N, n)
  <2>1. PICK N : \E m \in 0 .. 22 : Paired(rows, layout, N, m)
    BY <1>2, AllInStep, Zenon DEF InStep
  <2>2. PICK m \in 0 .. 22 : Paired(rows, layout, N, m)
    BY <2>1
  <2>3. m = Len(layout)
    BY <2>2, Zenon DEF Paired
  <2> QED
    BY <1>3, <2>2, <2>3, Zenon
<1>6. PICK m \in Nat : m = n + 1
  BY <1>1
<1>7. PICK data, at : /\ Unpacked(data, all, v, at, m)
                      /\ ReadAs(r, ApidOfHk[sid], stamp, DecodePayload(Service.Housekeeping, 25, data))
  <2>1. ApidOfHk[sid] \in Nat /\ ApidOfHk[sid] = ApidMask(ApidOfHk[sid])
    BY SmallNumbers, Zenon
  <2>2. PICK apid \in Nat : apid = ApidOfHk[sid] /\ apid = ApidMask(apid)
    BY <2>1
  <2>3. m = Len(all) /\ Carries(HkReport(sid, values, stamp), apid, Service.Housekeeping, 25, stamp, all, v,
        m)
    BY <1>3, <1>6, <2>2, Zenon
  <2>4. \E data, at : /\ Unpacked(data, all, v, at, m)
                      /\ ReadAs(ParseTm(HkReport(sid, values, stamp)), apid, stamp,
                                DecodePayload(Service.Housekeeping, 25, data))
    BY <1>3, <2>2, <2>3, CarriedIsRead
  <2> QED
    BY <2>2, <2>4, Zenon
<1>8. /\ Places(at, all, 0) /\ Len(data) = at[m]
      /\ \A k \in 1 .. m : UnpackFrom(STRUCT_CODES[all[k][2]], data, at[k - 1]) = v[all[k][1]]
  BY <1>7, Zenon DEF Unpacked
<1>9. PICK places : places = Offsets(rows) /\ Places(places, layout, 1)
  BY <1>1, <1>5, OffsetsArePlaces
<1>10. at[0] = 0 /\ \A j \in 0 .. n : at[j + 1] = places[j]
  <2>1. n \in Nat /\ n = Len(layout) /\ Len(all) = n + 1
    BY <1>1, <1>3
  <2>2. 0 \in 0 .. n
    BY <2>1
  <2>3. \A j \in 0 .. n : at[j + 1] = places[j] /\ at[0] = 0
    <3>1. HasNumber(all, layout, n)
      BY <1>3, <2>1, Zenon DEF HasNumber
    <3> QED
      BY <1>4, <1>8, <1>9, <3>1, NumberInFront
  <2> QED
    BY <2>2, <2>3, Zenon
<1>11. data[1] = HkSid[sid]
  <2>1. UnpackFrom(STRUCT_CODES[all[1][2]], data, at[1 - 1]) = v[all[1][1]]
    <3>1. 1 \in 1 .. m
      BY <1>1, <1>6
    <3> QED
      BY <1>8, <3>1
  <2>2. all[1][2] = "uint8" /\ all[1][1] = "sid" /\ 1 - 1 = 0
    BY <1>3
  <2>3. STRUCT_CODES["uint8"] = "B"
    BY DEF STRUCT_CODES
  <2>4. UnpackFrom("B", data, 0) = v["sid"]
    BY <1>10, <2>1, <2>2, <2>3, Zenon
  <2>5. UnpackFrom("B", data, 0) = data[0 + 1]
    BY Zenon DEF UnpackFrom
  <2> QED
    BY <1>3, <2>4, <2>5
<1>12. PICK size \in Nat : size = Len(data) /\ places[n] = size /\ 1 <= size
  <2>1. n \in 0 .. n /\ 0 \in 0 .. n /\ 1 \in Nat
    BY <1>1
  <2>2. places[n] = Len(data)
    BY <1>6, <1>8, <1>10, <2>1
  <2>3. places[0] <= places[n]
    <3>1. \A j \in 0 .. n : places[0] <= places[j]
      BY <1>1, <1>3, <1>4, <1>9, <2>1, PlacesGrow
    <3> QED
      BY <2>1, <3>1, Zenon
  <2>4. places[0] = 1 /\ places[n] \in Nat
    BY <1>3, <1>9, <2>1 DEF Places
  <2> QED
    BY <2>2, <2>3, <2>4
<1>13. DecodeHousekeeping(data) = [name |-> sid, fields |-> FieldsShown(rows, data)]
  <2>1. data # <<>>
    BY <1>12, SizeIsPositive
  <2>2. n = Len(rows)
    BY <1>5, Zenon DEF Paired
  <2>3. Offsets(rows)[n] = size
    BY <1>9, <1>12
  <2> QED
    BY <1>1, <1>2, <1>11, <1>12, <2>1, <2>2, <2>3, StructureIsDecoded
<1>14. StructureShown(rows, FieldsShown(rows, data), layout, values)
  <2>1. ASSUME NEW k \in 1 .. n
        PROVE  UnpackFrom(STRUCT_CODES[layout[k][2]], data, Offsets(rows)[k - 1]) = values[layout[k][1]]
    <3>1. k + 1 \in 1 .. m /\ (k + 1) - 1 = k /\ k - 1 \in 0 .. n /\ (k - 1) + 1 = k
      BY <1>1, <1>6
    <3>2. UnpackFrom(STRUCT_CODES[all[k + 1][2]], data, at[(k + 1) - 1]) = v[all[k + 1][1]]
      BY <1>8, <3>1
    <3>3. all[k + 1] = layout[k] /\ at[k] = places[k - 1]
      BY <1>3, <1>10, <3>1
    <3>4. layout[k][1] \in Named(layout)
      <4>1. 1 .. Len(layout) = 1 .. n
        BY <1>3
      <4>2. Named(layout) = {layout[j][1] : j \in 1 .. Len(layout)}
        BY DEF Named
      <4> QED
        BY <4>1, <4>2, Zenon
    <3>5. v[layout[k][1]] = values[layout[k][1]]
      BY <1>3, <3>4
    <3> QED
      BY <1>9, <3>1, <3>2, <3>3, <3>5, Zenon
  <2>2. ASSUME NEW k \in 1 .. n, layout[k][1] \in DOMAIN Enumeration
        PROVE  \E j \in DOMAIN Enumeration[layout[k][1]] : values[layout[k][1]] = Enumeration[layout[k][1]][j]
    <3>1. layout[k][1] \in DOMAIN values
      BY <1>2, <1>4
    <3> QED
      BY <2>2, <3>1, Zenon DEF EnumeratedIn
  <2> QED
    BY <1>1, <1>5, <2>1, <2>2, StructureIsShown
<1>15. PICK shown : shown = FieldsShown(rows, data)
  BY Zenon
<1>16. r.name = sid /\ r.fields = shown /\ HeaderOf(r, ApidOfHk[sid], stamp)
  <2>1. DecodePayload(Service.Housekeeping, 25, data) = DecodeHousekeeping(data)
    <3>1. DecodePayload(3, 25, data) = DecodeHousekeeping(data)
      BY DEF DecodePayload
    <3> QED
      BY <3>1, Numbers, Zenon
  <2>2. PICK decoded : decoded = [name |-> sid, fields |-> shown]
    BY Zenon
  <2>3. ReadAs(r, ApidOfHk[sid], stamp, decoded)
    BY <1>7, <1>13, <1>15, <2>1, <2>2, Zenon
  <2>4. decoded.name = sid /\ decoded.fields = shown
    BY <2>2
  <2> QED
    BY <2>3, <2>4, Zenon DEF ReadAs
<1>17. HkShown(shown, values)
  <2>1. /\ DOMAIN shown = {layout[k][1] : k \in DOMAIN layout}
        /\ \A f \in DOMAIN shown : ShownAs(f, values[f], shown[f])
    BY <1>14, <1>15, Zenon DEF StructureShown
  <2>2. DOMAIN shown = DOMAIN values
    BY <1>2, <2>1, Zenon
  <2> QED
    BY <2>1, <2>2, Zenon DEF HkShown
<1> QED
  BY <1>16, <1>17, Zenon

-----------------------------------------------------------------------------
\* The downlink: a report is understood.

\* The answers that handle_tc() gives.
Answered(r) ==
  /\ r.kind = "verification" /\ r.request.apid \in Word /\ r.request.seq \in Word
  /\ r.subtype \in {1, 2, 7, 8} /\ r.failure \in DOMAIN FailureCode
  /\ r.failure = "Ok" <=> r.subtype \in {1, 7}

\* Every verification report is one of these.
LEMMA AnswersAreAnswered ==
  ASSUME NEW o, Answerable(o), NEW r \in Verifications(o)
  PROVE  Answered(r)
<1>1. /\ o.parsed
      /\ \E subtype \in {1, 2, 7, 8}, failure \in {"Ok", o.verdict, "UnknownService", "BadLength",
           "IllegalArg"} :
           /\ r = [kind |-> "verification", request |-> [apid |-> o.apid, seq |-> o.seq],
                   subtype |-> subtype, failure |-> failure]
           /\ failure = "Ok" <=> subtype \in {1, 7}
  BY DEF Verifications, Wants
<1>2. PICK subtype \in {1, 2, 7, 8}, failure \in {"Ok", o.verdict, "UnknownService", "BadLength",
      "IllegalArg"} :
           /\ r = [kind |-> "verification", request |-> [apid |-> o.apid, seq |-> o.seq],
                   subtype |-> subtype, failure |-> failure]
           /\ failure = "Ok" <=> subtype \in {1, 7}
  BY <1>1
<1>3. o.apid \in Word /\ o.seq \in Word /\ failure \in DOMAIN FailureCode
  BY <1>1 DEF Answerable, FailureCode
<1>4. PICK request : request = [apid |-> o.apid, seq |-> o.seq]
  OBVIOUS
<1>5. /\ r.kind = "verification" /\ r.request = request /\ r.subtype = subtype /\ r.failure = failure
      /\ request.apid = o.apid /\ request.seq = o.seq
  BY <1>2, <1>4
<1> QED
  BY <1>2, <1>3, <1>5, Zenon DEF Answered

\* What is read of a report says what the report does.
Stamped(r, stamp) == \E apid : HeaderOf(r, apid, stamp)
Says(read, r) ==
  CASE r.kind = "hk"           -> read.name = r.sid /\ read.apid = ApidOfHk[r.sid] /\ HkShown(read.fields,
        r.values)
    [] r.kind = "event"        -> /\ read.fields.event_name = r.event
                                  /\ Severity[read.name[2]] = EventSeverity(r.event) /\ read.name[1] = "EVENT"
                                  /\ AuxShown(r.event, r.aux, read.fields.aux)
    [] r.kind = "verification" -> /\ read.name = VERIF_NAMES[r.subtype] /\ FailureShown(r.failure,
                                       read.fields)
                                  /\ RequestShown(r.request, read.fields)
    [] r.kind = "test"         -> read.name = "TEST_REPORT"
    [] r.kind = "param"        -> read.name = "PARAM_REPORT"
                                  /\ read.fields.param_name = r.param /\ read.fields.value = r.value

\* Housekeeping reports,
LEMMA HkSays ==
  ASSUME NEW r, r.kind = "hk", IsReport(r), NEW stamp, IsStamp(stamp),
         NEW read, read = ParseTm(Built(r, stamp))
  PROVE  Stamped(read, stamp) /\ Says(read, r)
<1>1. PICK sid, values : sid = r.sid /\ values = r.values
  BY Zenon
<1>2. /\ sid \in DOMAIN HkSid
      /\ DOMAIN values = {HkLayout(sid)[k][1] : k \in DOMAIN HkLayout(sid)}
      /\ \A k \in DOMAIN HkLayout(sid) : values[HkLayout(sid)[k][1]] \in Values(HkLayout(sid)[k][2])
      /\ \A f \in DOMAIN values \cap DOMAIN Enumeration :
           \E m \in DOMAIN Enumeration[f] : values[f] = Enumeration[f][m]
  <2>1. r.kind # "test" /\ r.kind # "param" /\ r.kind # "event"
    OBVIOUS
  <2> QED
    BY <1>1, <2>1, Zenon DEF IsReport
<1>3. Built(r, stamp) = HkReport(sid, values, stamp)
  BY <1>1 DEF Built
<1>4. EnumeratedIn(values)
  BY <1>2, Zenon DEF EnumeratedIn
<1>5. read = ParseTm(HkReport(sid, values, stamp))
  BY <1>3, Zenon
<1>6. HeaderOf(read, ApidOfHk[sid], stamp) /\ read.name = sid /\ HkShown(read.fields, values)
  BY <1>2, <1>4, <1>5, HkIsRead
<1>7. read.apid = ApidOfHk[sid]
  BY <1>6, Zenon DEF HeaderOf
<1>8. Says(read, r) <=> read.name = r.sid /\ read.apid = ApidOfHk[r.sid] /\ HkShown(read.fields, r.values)
  BY DEF Says
<1> QED
  BY <1>1, <1>6, <1>7, <1>8, Zenon DEF Stamped

\* Event reports,
LEMMA EventSays ==
  ASSUME NEW r, r.kind = "event", IsReport(r), NEW stamp, IsStamp(stamp),
         NEW read, read = ParseTm(Built(r, stamp))
  PROVE  Stamped(read, stamp) /\ Says(read, r)
<1>1. PICK event, aux : event = r.event /\ aux = r.aux
  BY Zenon
<1>2. /\ event \in DOMAIN EventId /\ aux \in Values("uint32")
      /\ event = "TC_REJECTED" => \E f \in DOMAIN FailureCode : aux = <<0, FailureCode[f]>>
  <2>1. r.kind # "test" /\ r.kind # "param" /\ r.kind # "hk"
    OBVIOUS
  <2> QED
    BY <1>1, <2>1, Zenon DEF IsReport
<1>3. Built(r, stamp) = EventReport(event, aux, stamp)
  BY <1>1 DEF Built
<1>5. read = ParseTm(EventReport(event, aux, stamp))
  BY <1>3, Zenon
<1>6. /\ HeaderOf(read, Apid.TTC, stamp) /\ read.fields.event_name = event
      /\ Severity[read.name[2]] = EventSeverity(event) /\ read.name[1] = "EVENT"
      /\ AuxShown(event, aux, read.fields.aux)
  BY <1>2, <1>5, EventIsRead
<1>8. Says(read, r) <=> /\ read.fields.event_name = r.event
                        /\ Severity[read.name[2]] = EventSeverity(r.event) /\ read.name[1] = "EVENT"
                        /\ AuxShown(r.event, r.aux, read.fields.aux)
  BY DEF Says
<1> QED
  BY <1>1, <1>6, <1>8, Zenon DEF Stamped

\* test and parameter reports,
LEMMA OthersSay ==
  ASSUME NEW r, r.kind = "test" \/ r.kind = "param", IsReport(r), NEW stamp, IsStamp(stamp),
         NEW read, read = ParseTm(Built(r, stamp))
  PROVE  Stamped(read, stamp) /\ Says(read, r)
<1>1. CASE r.kind = "test"
  <2>1. Built(r, stamp) = TestReport(stamp)
    BY <1>1 DEF Built
  <2>2. read = ParseTm(TestReport(stamp))
    BY <2>1, Zenon
  <2>3. HeaderOf(read, Apid.TTC, stamp) /\ read.name = "TEST_REPORT"
    BY <2>2, TestIsRead
  <2>4. Says(read, r) <=> read.name = "TEST_REPORT"
    BY <1>1 DEF Says
  <2> QED
    BY <2>3, <2>4, Zenon DEF Stamped
<1>2. CASE r.kind = "param"
  <2>1. PICK param, value : param = r.param /\ value = r.value
    BY Zenon
  <2>2. param \in DOMAIN ParamId /\ value \in Values("float64")
    <3>1. r.kind # "test" /\ r.kind # "hk" /\ r.kind # "event"
      BY <1>2
    <3> QED
      BY <2>1, <3>1, Zenon DEF IsReport
  <2>3. Built(r, stamp) = ParamReport(param, value, stamp)
    BY <1>2, <2>1 DEF Built
  <2>4. read = ParseTm(ParamReport(param, value, stamp))
    BY <2>3, Zenon
  <2>5. /\ HeaderOf(read, Apid.TTC, stamp) /\ read.name = "PARAM_REPORT"
        /\ read.fields.param_name = param /\ read.fields.value = value
    BY <2>2, <2>4, ParamIsRead
  <2>6. Says(read, r) <=> read.name = "PARAM_REPORT" /\ read.fields.param_name = r.param /\
        read.fields.value = r.value
    BY <1>2 DEF Says
  <2> QED
    BY <2>1, <2>5, <2>6, Zenon DEF Stamped
<1> QED
  BY <1>1, <1>2

\* and verification reports say what was meant.
LEMMA AnswerSays ==
  ASSUME NEW r, Answered(r), NEW stamp, IsStamp(stamp), NEW read, read = ParseTm(Built(r, stamp))
  PROVE  Stamped(read, stamp) /\ Says(read, r)
<1>1. PICK request, subtype, failure : request = r.request /\ subtype = r.subtype /\ failure = r.failure
  BY Zenon
<1>2. /\ r.kind = "verification" /\ request.apid \in Word /\ request.seq \in Word
      /\ subtype \in {1, 2, 7, 8} /\ failure \in DOMAIN FailureCode
      /\ failure = "Ok" <=> subtype \in {1, 7}
  BY <1>1, Zenon DEF Answered
<1>3. Built(r, stamp) = Verification(request, subtype, failure, stamp)
  BY <1>1, <1>2 DEF Built
<1>4. read = ParseTm(Verification(request, subtype, failure, stamp))
  BY <1>3, Zenon
<1>5. /\ HeaderOf(read, Apid.TTC, stamp) /\ read.name = VERIF_NAMES[subtype]
      /\ FailureShown(failure, read.fields) /\ RequestShown(request, read.fields)
  BY <1>2, <1>4, VerificationIsRead
<1>6. Says(read, r) <=> read.name = VERIF_NAMES[r.subtype] /\ FailureShown(r.failure, read.fields)
                     /\ RequestShown(r.request, read.fields)
  BY <1>2 DEF Says
<1> QED
  BY <1>1, <1>5, <1>6, Zenon DEF Stamped

\* Every packet that comes down is read as what it says.
THEOREM EveryReportSays ==
  ASSUME NEW r, IsReport(r) \/ Answered(r), NEW stamp, IsStamp(stamp), NEW read, read = ParseTm(Built(r,
        stamp))
  PROVE  Stamped(read, stamp) /\ Says(read, r)
<1>1. CASE Answered(r)
  BY <1>1, AnswerSays
<1>2. CASE IsReport(r)
  <2>1. r.kind = "test" \/ r.kind = "param" \/ r.kind = "event" \/ r.kind = "hk"
    BY <1>2, Zenon DEF IsReport
  <2> QED
    BY <1>2, <2>1, HkSays, EventSays, OthersSay
<1> QED
  BY <1>1, <1>2

\* What comes down is a report, and what was read of it whole is what parse_tm()
\* makes of it.
ReportInv ==
  /\ stage = "down" \/ stage = "read" => (IsReport(report) \/ Answered(report)) /\ IsStamp(stamped)
  /\ stage = "down" /\ intact => octets = Built(report, stamped)
  /\ stage = "read" /\ intact => reading = ParseTm(Built(report, stamped))

\* What is sent is what it says.
LEMMA SendingReports ==
  ASSUME NEW r, NEW stamp, IsReport(r) \/ Answered(r), IsStamp(stamp), FlightSends(r, stamp)
  PROVE  ReportInv'
<1>1. PICK p : p = Built(r, stamp)
  BY Zenon
<1>2. stage' = "down" /\ report' = r /\ stamped' = stamp /\ octets' = p
  BY <1>1, Zenon DEF FlightSends
<1>3. stage' # "read"
  BY <1>2
<1> QED
  BY <1>1, <1>2, <1>3, Zenon DEF ReportInv

\* ReportInv is an invariant: what is on the wire is the report with its stamp.
THEOREM ReportInvHolds == Spec => []ReportInv
<1>1. Init => ReportInv
  BY DEF Init, ReportInv
<1>2. WireInv /\ ReportInv /\ [Next]_vars => ReportInv'
  <2> SUFFICES ASSUME WireInv, ReportInv, [Next]_vars PROVE ReportInv'
    OBVIOUS
  <2>1. ASSUME NEW k \in DOMAIN Orders, NEW count \in Counts, GroundSends(k, count) PROVE ReportInv'
    BY <2>1 DEF GroundSends, ReportInv
  <2>2. ASSUME NEW burst \in Bursts, NEW at \in 0 .. Len(octets), Damage(burst, at) PROVE ReportInv'
    BY <2>2 DEF Damage, ReportInv
  <2>3. CASE DrainOne
    BY <2>3 DEF DrainOne, ReportInv
  <2>4. CASE FlightTakes
    BY <2>4 DEF FlightTakes, ReportInv
  <2>5. CASE Echo
    BY <2>5 DEF Echo, ReportInv
  <2>6. CASE GroundReads
    BY <2>6 DEF GroundReads, ReportInv
  <2>7. CASE Again
    BY <2>7 DEF Again, ReportInv
  <2>8. ASSUME NEW stamp \in Stamps, NEW k \in DOMAIN taken, FlightAnswers(k, stamp) PROVE ReportInv'
    <3>1. PICK r \in Verifications(taken[k]) : FlightSends(r, stamp)
      BY <2>8 DEF FlightAnswers
    <3>2. IsStamp(stamp)
      BY WireAssumption
    <3>3. Answerable(taken[k])
      BY DEF WireInv
    <3>4. Answered(r)
      BY <3>3, AnswersAreAnswered
    <3> QED
      BY <3>1, <3>2, <3>4, SendingReports
  <2>9. ASSUME NEW stamp \in Stamps, NEW k \in DOMAIN Reports, FlightReports(k, stamp) PROVE ReportInv'
    <3>1. FlightSends(Reports[k], stamp) /\ IsReport(Reports[k]) /\ IsStamp(stamp)
      BY <2>9, WireAssumption DEF FlightReports
    <3> QED
      BY <3>1, SendingReports
  <2>10. CASE UNCHANGED vars
    BY <2>10 DEF vars, ReportInv
  <2> QED
    BY <2>1, <2>2, <2>3, <2>4, <2>5, <2>6, <2>7, <2>8, <2>9, <2>10 DEF Next
<1> QED
  BY <1>1, <1>2, WireInvHolds, PTL DEF Spec

\* What is said is understood: the structure,
LEMMA HkUnderstood ==
  ASSUME report.kind = "hk", Says(reading, report)
  PROVE  HkIsUnderstood
<1>1. reading.name = report.sid /\ reading.apid = ApidOfHk[report.sid] /\ HkShown(reading.fields,
      report.values)
  BY DEF Says
<1>2. ASSUME NEW f \in DOMAIN report.values
      PROVE  IF f \in DOMAIN Enumeration THEN Enumeration[f][reading.fields[f]] = report.values[f]
                                         ELSE reading.fields[f] = report.values[f]
  BY <1>1, Zenon DEF HkShown, ShownAs
<1>3. DOMAIN reading.fields = DOMAIN report.values
  BY <1>1, Zenon DEF HkShown
<1> QED
  BY <1>1, <1>2, <1>3, Zenon DEF HkIsUnderstood

\* The event,
LEMMA EventUnderstood ==
  ASSUME report.kind = "event", Says(reading, report)
  PROVE  EventIsUnderstood
<1>1. /\ reading.fields.event_name = report.event
      /\ Severity[reading.name[2]] = EventSeverity(report.event) /\ reading.name[1] = "EVENT"
      /\ AuxShown(report.event, report.aux, reading.fields.aux)
  BY DEF Says
<1> QED
  BY <1>1, Zenon DEF EventIsUnderstood, AuxShown

\* and the verification.
LEMMA VerificationUnderstood ==
  ASSUME report.kind = "verification", Says(reading, report)
  PROVE  VerificationIsUnderstood
<1>1. reading.name = VERIF_NAMES[report.subtype] /\ FailureShown(report.failure, reading.fields)
  BY DEF Says
<1> QED
  BY <1>1, Zenon DEF VerificationIsUnderstood, FailureShown

\* Every report of the flight software that arrives whole is read by the ground
\* as what it meant.
THEOREM TmIsUnderstoodAlways == Spec => []TmIsUnderstood
<1>1. ReportInv => TmIsUnderstood
  <2> SUFFICES ASSUME ReportInv, stage = "read", intact
               PROVE  /\ reading.sequence_count = stamped.seq /\ reading.message_count = stamped.count
                      /\ TimeIsUnderstood
                      /\ CASE report.kind = "hk"           -> HkIsUnderstood
                           [] report.kind = "event"        -> EventIsUnderstood
                           [] report.kind = "verification" -> VerificationIsUnderstood
                           [] report.kind = "test"         -> reading.name = "TEST_REPORT"
                           [] report.kind = "param"        -> reading.name = "PARAM_REPORT"
                                                              /\ reading.fields.param_name = report.param
                                                              /\ reading.fields.value = report.value
    BY Zenon DEF TmIsUnderstood
  <2>1. /\ IsReport(report) \/ Answered(report)
        /\ IsStamp(stamped) /\ reading = ParseTm(Built(report, stamped))
    BY DEF ReportInv
  <2>2. Stamped(reading, stamped) /\ Says(reading, report)
    BY <2>1, EveryReportSays
  <2>3. PICK apid : HeaderOf(reading, apid, stamped)
    BY <2>2 DEF Stamped
  <2>4. reading.sequence_count = stamped.seq /\ reading.message_count = stamped.count
    BY <2>3 DEF HeaderOf
  <2>5. TimeIsUnderstood
    BY <2>1, <2>3, TimeIsRead
  <2>6. \/ report.kind = "hk" \/ report.kind = "event" \/ report.kind = "verification"
        \/ report.kind = "test" \/ report.kind = "param"
    BY <2>1, Zenon DEF IsReport, Answered
  <2>7. CASE report.kind = "hk"
    BY <2>2, <2>4, <2>5, <2>7, HkUnderstood
  <2>8. CASE report.kind = "event"
    BY <2>2, <2>4, <2>5, <2>8, EventUnderstood
  <2>9. CASE report.kind = "verification"
    BY <2>2, <2>4, <2>5, <2>9, VerificationUnderstood
  <2>10. CASE report.kind = "test"
    BY <2>2, <2>4, <2>5, <2>10 DEF Says
  <2>11. CASE report.kind = "param"
    BY <2>2, <2>4, <2>5, <2>11 DEF Says
  <2> QED
    BY <2>6, <2>7, <2>8, <2>9, <2>10, <2>11
<1> QED
  BY <1>1, ReportInvHolds, PTL

-----------------------------------------------------------------------------
\* The uplink: nothing but an order is taken.

\* What is refused is not handled.
LEMMA RefusedIsNotParsed == \A code : Refused(code).parsed = FALSE
  BY Zenon DEF Refused

\* What is damaged but for its length, and what is telemetry, is refused as a whole.
THEOREM OthersAreRefused ==
  ASSUME NEW d, Framed(d), Crc(d) # 0 \/ IsTelemetry(d)
  PROVE  /\ Drainable(d) /\ Outcome(d).parsed = FALSE
         /\ SubSeq(d, Consumed(d) + 1, Len(d)) = <<>>
<1>1. d \in Seq(Octet) /\ 13 <= Len(d)
  BY Zenon DEF Framed
<1>2. PICK primary : primary = PrimaryOf(ReadFields(Reader(d), PrimaryLayout))
  OBVIOUS
<1>3. primary.type = (WordAt(d, 1) \div 4096) % 2
  <2>1. 6 <= Len(d)
    BY <1>1
  <2>2. primary = Decode(<<WordAt(d, 1), WordAt(d, 3), WordAt(d, 5)>>)
    BY <1>1, <1>2, <2>1, HeaderDecoded
  <2> QED
    BY <2>2 DEF Decode
<1>4. ~CrcCheck(d) \/ primary.type # Telecommand
  <2>1. CASE Crc(d) # 0
    BY <2>1 DEF CrcCheck
  <2>2. CASE IsTelemetry(d)
    BY <1>3, <2>2 DEF IsTelemetry, Telemetry, Telecommand
  <2> QED
    BY <2>1, <2>2
<1>5. \E code : ParseTc(d) = Refused(code)
  BY <1>2, <1>4, Zenon DEF ParseTc
<1>6. ParseTc(d).parsed = FALSE
  BY <1>5, RefusedIsNotParsed
<1> QED
  BY <1>6, FramedIsDrained

\* The octets of a length are not hit.
LengthArrives == intact /\ ~intact' => octets'[5] = octets[5] /\ octets'[6] = octets[6]

\* What is on the wire has its length, and its CRC tells whether it was hit.
OnTheWay == Framed(octets) /\ (intact <=> Crc(octets) = 0)

Taken == \E k \in DOMAIN taken : taken[k].parsed

\* What is on the wire is an order or telemetry, or it was hit; what has been taken
\* was an order that was not.
TakenInv ==
  /\ stage = "idle" => order = NoOrder /\ taken = <<>> /\ intact
  /\ stage = "down" => OnTheWay /\ (intact => IsTelemetry(octets))
  /\ stage = "up" => \/ taken = <<>> /\ OnTheWay /\ (intact => order # NoOrder \/ IsTelemetry(octets))
                     \/ octets = <<>> /\ (Taken => intact /\ order # NoOrder)
  /\ stage = "taken" => (Taken => intact /\ order # NoOrder)

\* The length of a packet that is hit elsewhere.
LEMMA FramedStill ==
  ASSUME NEW p, Framed(p), NEW q \in Seq(Octet), Len(q) = Len(p), q[5] = p[5], q[6] = p[6]
  PROVE  Framed(q)
<1>1. WordAt(q, 5) = WordAt(p, 5)
  <2>1. q[5 + 1] = p[5 + 1]
    OBVIOUS
  <2> QED
    BY <2>1 DEF WordAt
<1> QED
  BY <1>1, Zenon DEF Framed

\* One of one outcome.
LEMMA OneTaken ==
  ASSUME NEW o, NEW k \in DOMAIN Append(<<>>, o)
  PROVE  Append(<<>>, o)[k] = o
  OBVIOUS

\* A packet goes down, and is what it should be.
LEMMA SendingFramed ==
  ASSUME NEW r, NEW stamp, WholePacket(Built(r, stamp)), FlightSends(r, stamp)
  PROVE  TakenInv'
<1>1. PICK p : p = Built(r, stamp)
  OBVIOUS
<1>2. Framed(p) /\ IsTelemetry(p) /\ Crc(p) = 0
  BY <1>1, Zenon DEF WholePacket
<1>3. octets' = p /\ intact' = TRUE /\ stage' = "down"
  BY <1>1 DEF FlightSends
<1>4. stage' # "idle" /\ stage' # "up" /\ stage' # "taken"
  BY <1>3
<1> QED
  BY <1>2, <1>3, <1>4, Zenon DEF TakenInv, OnTheWay

\* TakenInv is an invariant if bursts do not hit a length.
LEMMA TakenInvHolds == Spec /\ [][LengthArrives]_vars => []TakenInv
<1>1. Init => TakenInv
  BY DEF Init, TakenInv
<1>2. WireInv /\ OrderInv /\ TakenInv /\ [Next]_vars /\ [LengthArrives]_vars => TakenInv'
  <2> SUFFICES ASSUME WireInv, OrderInv, TakenInv, [Next]_vars, [LengthArrives]_vars PROVE TakenInv'
    OBVIOUS
  <2>1. ASSUME NEW k \in DOMAIN Orders, NEW count \in Counts, GroundSends(k, count) PROVE TakenInv'
    <3>1. IsOrder(Orders[k]) /\ count \in Nat
      BY <2>1, WireAssumption
    <3>2. PICK o : o = order' /\ o = [name |-> Orders[k].name, args |-> Orders[k].args, seq |-> count]
      BY <2>1 DEF GroundSends
    <3>3. o.name = Orders[k].name /\ o.args = Orders[k].args /\ o.seq = count
      BY <3>2
    <3>4. IsOrder(o)
      BY <3>1, <3>3, SameOrder
    <3>5. PICK d : d = BuildTc(o.name, o.seq, o.args) /\ Framed(d) /\ Crc(d) = 0
      BY <3>1, <3>3, <3>4, OrderIsUnderstood
    <3>6. /\ stage = "idle" /\ stage' = "up" /\ octets' = d /\ taken' = taken /\ intact' = intact
      BY <2>1, <3>3, <3>5, Zenon DEF GroundSends
    <3>7. taken = <<>> /\ stage' # "idle" /\ stage' # "taken" /\ stage' # "down"
      BY <3>6 DEF TakenInv
    <3>8. o # NoOrder
      <4>1. o.name \in DOMAIN COMMANDS
        BY <3>4, Zenon DEF IsOrder
      <4>2. NoOrder.name \notin DOMAIN COMMANDS
        BY DEF NoOrder, COMMANDS
      <4> QED
        BY <4>1, <4>2
    <3>9. intact
      BY <3>6 DEF TakenInv
    <3> QED
      BY <3>2, <3>5, <3>6, <3>7, <3>8, <3>9, Zenon DEF TakenInv, OnTheWay
  <2>2. ASSUME NEW burst \in Bursts, NEW at \in 0 .. Len(octets), Damage(burst, at) PROVE TakenInv'
    <3>1. IsBurst(burst) /\ at \in Nat /\ at + Len(burst) <= Len(octets) /\ octets \in Seq(Octet)
      BY <2>2, WireAssumption DEF Damage, WireInv
    <3>2. PICK d : /\ d = Hit(octets, burst, at) /\ d \in Seq(Octet) /\ Len(d) = Len(octets)
                   /\ Crc(octets) # Crc(d)
      BY <3>1, BurstsChangeTheCrc
    <3>3. octets' = d /\ intact' = FALSE /\ intact /\ UNCHANGED <<stage, order, taken>>
          /\ (stage = "down" \/ (stage = "up" /\ taken = <<>>))
      BY <2>2, <3>2 DEF Damage
    <3>4. vars' # vars
      BY <3>3 DEF vars
    <3>5. d[5] = octets[5] /\ d[6] = octets[6]
      BY <3>3, <3>4 DEF LengthArrives
    <3>6. stage # "idle" /\ stage # "taken"
      BY <3>3
    <3>7. OnTheWay
      <4>1. octets # <<>>
        BY <3>1 DEF IsBurst
      <4> QED
        BY <3>3, <4>1, Zenon DEF TakenInv
    <3>8. Framed(d)
      BY <3>2, <3>5, <3>7, FramedStill, Zenon DEF OnTheWay
    <3>9. Crc(d) # 0
      BY <3>2, <3>3, <3>7, Zenon DEF OnTheWay
    <3>10. stage = "up" => taken = <<>>
      BY <3>3
    <3> QED
      BY <3>3, <3>6, <3>8, <3>9, <3>10, Zenon DEF TakenInv, OnTheWay
  <2>3. CASE DrainOne
    <3>1. /\ stage = "up" /\ Drainable(octets) /\ taken' = Append(taken, Outcome(octets))
          /\ octets' = SubSeq(octets, Consumed(octets) + 1, Len(octets))
          /\ UNCHANGED <<stage, order, intact>>
      BY <2>3 DEF DrainOne
    <3>2. stage # "idle" /\ stage # "taken" /\ stage # "down"
      BY <3>1
    <3>3. taken = <<>> /\ OnTheWay /\ (intact => order # NoOrder \/ IsTelemetry(octets))
      BY <3>1, NothingToDrain DEF TakenInv
    <3>4. octets' = <<>>
      BY <3>1, <3>3, FramedIsDrained, Zenon DEF OnTheWay
    <3>5. ASSUME ~(intact /\ order # NoOrder) PROVE ~Taken'
      <4>1. Crc(octets) # 0 \/ IsTelemetry(octets)
        BY <3>3, <3>5 DEF OnTheWay
      <4>2. Outcome(octets).parsed = FALSE
        BY <3>3, <4>1, OthersAreRefused, Zenon DEF OnTheWay
      <4>3. PICK o : o = Outcome(octets) /\ o.parsed = FALSE
        BY <4>2
      <4>4. taken' = Append(<<>>, o)
        BY <3>1, <3>3, <4>3, Zenon
      <4>5. \A k \in DOMAIN taken' : taken'[k] = o
        BY <4>4, OneTaken
      <4> QED
        BY <4>3, <4>5 DEF Taken
    <3> QED
      BY <3>1, <3>2, <3>4, <3>5, Zenon DEF TakenInv
  <2>4. CASE FlightTakes
    <3>1. stage = "up" /\ ~Drainable(octets) /\ stage' = "taken" /\ UNCHANGED <<order, octets, intact, taken>>
      BY <2>4 DEF FlightTakes
    <3>2. ~Framed(octets)
      BY <3>1, FramedIsDrained
    <3>3. Taken => intact /\ order # NoOrder
      BY <3>1, <3>2, Zenon DEF TakenInv, OnTheWay
    <3>4. stage' # "idle" /\ stage' # "up" /\ stage' # "down"
      BY <3>1
    <3>5. Taken' <=> Taken
      BY <3>1, Zenon DEF Taken
    <3> QED
      BY <3>1, <3>3, <3>4, <3>5, Zenon DEF TakenInv
  <2>5. CASE Echo
    <3>1. stage = "down" /\ stage' = "up" /\ taken' = <<>> /\ UNCHANGED <<octets, intact>>
      BY <2>5 DEF Echo
    <3>2. stage' # "idle" /\ stage' # "taken" /\ stage' # "down"
      BY <3>1
    <3> QED
      BY <3>1, <3>2, Zenon DEF TakenInv, OnTheWay
  <2>6. CASE GroundReads
    <3>1. stage' # "idle" /\ stage' # "up" /\ stage' # "taken" /\ stage' # "down"
      BY <2>6 DEF GroundReads
    <3> QED
      BY <3>1, Zenon DEF TakenInv
  <2>7. CASE Again
    <3>1. stage' # "up" /\ stage' # "taken" /\ stage' # "down" /\ order' = NoOrder /\ taken' = <<>> /\ intact'
      BY <2>7 DEF Again
    <3> QED
      BY <3>1, Zenon DEF TakenInv
  <2>8. ASSUME NEW stamp \in Stamps, NEW k \in DOMAIN taken, FlightAnswers(k, stamp) PROVE TakenInv'
    <3>1. PICK r \in Verifications(taken[k]) : FlightSends(r, stamp)
      BY <2>8 DEF FlightAnswers
    <3>2. IsStamp(stamp) /\ Answerable(taken[k])
      BY WireAssumption DEF WireInv
    <3>3. WholePacket(Built(r, stamp))
      BY <3>2, AnswerIsWhole
    <3> QED
      BY <3>1, <3>3, SendingFramed
  <2>9. ASSUME NEW stamp \in Stamps, NEW k \in DOMAIN Reports, FlightReports(k, stamp) PROVE TakenInv'
    <3>1. FlightSends(Reports[k], stamp) /\ IsReport(Reports[k]) /\ IsStamp(stamp)
      BY <2>9, WireAssumption DEF FlightReports
    <3>2. WholePacket(Built(Reports[k], stamp))
      BY <3>1, ReportIsWhole
    <3> QED
      BY <3>1, <3>2, SendingFramed
  <2>10. CASE UNCHANGED vars
    <3>1. UNCHANGED <<stage, order, octets, intact, taken>>
      BY <2>10 DEF vars
    <3> QED
      BY <3>1, Zenon DEF TakenInv, OnTheWay, Taken
  <2> QED
    BY <2>1, <2>2, <2>3, <2>4, <2>5, <2>6, <2>7, <2>8, <2>9, <2>10 DEF Next
<1> QED
  BY <1>1, <1>2, WireInvHolds, OrderInvHolds, PTL DEF Spec

\* Nothing but an order that arrived undamaged is acted on or answered, as long as
\* no burst hits the two octets of a length (TtcApp::drain_rx_buffer, CcsdsPacketParser).
THEOREM OnlyOrdersAreTakenIfLengthsArrive == Spec /\ [][LengthArrives]_vars => []OnlyOrdersAreTaken
<1>1. TakenInv => OnlyOrdersAreTaken
  BY Zenon DEF TakenInv, Taken, OnlyOrdersAreTaken
<1> QED
  BY <1>1, TakenInvHolds, PTL

\* The source and the count of an order.
Names(request, o) == request.apid = Apid.GND /\ request.seq = SeqCountMask(o.seq)

\* What is on its way after an order is an answer to it.
AnswerInv ==
  (stage = "down" \/ stage = "read") /\ order # NoOrder =>
    report.kind = "verification" /\ Names(report.request, order)

\* An answer has the source and the count of what it answers.
LEMMA AnswersName ==
  ASSUME NEW o, NEW r \in Verifications(o)
  PROVE  o.parsed /\ r.kind = "verification" /\ r.request.apid = o.apid /\ r.request.seq = o.seq
<1>1. /\ o.parsed
      /\ \E subtype, failure :
           r = [kind |-> "verification", request |-> [apid |-> o.apid, seq |-> o.seq],
                subtype |-> subtype, failure |-> failure]
  BY DEF Verifications, Wants
<1>2. PICK subtype, failure :
           r = [kind |-> "verification", request |-> [apid |-> o.apid, seq |-> o.seq],
                subtype |-> subtype, failure |-> failure]
  BY <1>1
<1>3. PICK request : request = [apid |-> o.apid, seq |-> o.seq]
  OBVIOUS
<1>4. r.kind = "verification" /\ r.request = request /\ request.apid = o.apid /\ request.seq = o.seq
  BY <1>2, <1>3
<1> QED
  BY <1>1, <1>4

\* AnswerInv is an invariant if bursts do not hit a length.
LEMMA AnswerInvHolds == Spec /\ [][LengthArrives]_vars => []AnswerInv
<1>1. Init => AnswerInv
  BY DEF Init, AnswerInv
<1>2. OrderInv /\ TakenInv /\ AnswerInv /\ [Next]_vars => AnswerInv'
  <2> SUFFICES ASSUME OrderInv, TakenInv, AnswerInv, [Next]_vars PROVE AnswerInv'
    OBVIOUS
  <2>1. ASSUME NEW k \in DOMAIN Orders, NEW count \in Counts, GroundSends(k, count) PROVE AnswerInv'
    <3>1. stage' # "down" /\ stage' # "read"
      BY <2>1 DEF GroundSends
    <3> QED
      BY <3>1, Zenon DEF AnswerInv
  <2>2. ASSUME NEW burst \in Bursts, NEW at \in 0 .. Len(octets), Damage(burst, at) PROVE AnswerInv'
    <3>1. UNCHANGED <<stage, order, report>>
      BY <2>2 DEF Damage
    <3> QED
      BY <3>1, Zenon DEF AnswerInv
  <2>3. CASE DrainOne
    <3>1. stage' # "down" /\ stage' # "read"
      BY <2>3 DEF DrainOne
    <3> QED
      BY <3>1, Zenon DEF AnswerInv
  <2>4. CASE FlightTakes
    <3>1. stage' # "down" /\ stage' # "read"
      BY <2>4 DEF FlightTakes
    <3> QED
      BY <3>1, Zenon DEF AnswerInv
  <2>5. CASE Echo
    <3>1. stage' # "down" /\ stage' # "read"
      BY <2>5 DEF Echo
    <3> QED
      BY <3>1, Zenon DEF AnswerInv
  <2>6. CASE GroundReads
    <3>1. stage = "down" /\ UNCHANGED <<order, report>>
      BY <2>6 DEF GroundReads
    <3> QED
      BY <3>1, Zenon DEF AnswerInv
  <2>7. CASE Again
    <3>1. stage' # "down" /\ stage' # "read"
      BY <2>7 DEF Again
    <3> QED
      BY <3>1, Zenon DEF AnswerInv
  <2>8. ASSUME NEW stamp \in Stamps, NEW k \in DOMAIN taken, FlightAnswers(k, stamp) PROVE AnswerInv'
    <3>1. PICK r \in Verifications(taken[k]) : FlightSends(r, stamp)
      BY <2>8 DEF FlightAnswers
    <3>2. stage = "taken" /\ report' = r /\ order' = order
      BY <2>8, <3>1 DEF FlightAnswers, FlightSends
    <3>3. /\ taken[k].parsed /\ r.kind = "verification"
          /\ r.request.apid = taken[k].apid /\ r.request.seq = taken[k].seq
      BY AnswersName
    <3>4. intact /\ order # NoOrder
      BY <3>2, <3>3, Zenon DEF TakenInv, Taken
    <3>5. Len(taken) = 1 /\ Understood(taken[1], order)
      BY <3>2, <3>4, Zenon DEF OrderInv
    <3>6. k = 1
      BY <2>8, <3>5
    <3>7. Names(r.request, order)
      BY <3>3, <3>5, <3>6, Zenon DEF Understood, Names
    <3> QED
      BY <3>2, <3>3, <3>7, Zenon DEF AnswerInv
  <2>9. ASSUME NEW stamp \in Stamps, NEW k \in DOMAIN Reports, FlightReports(k, stamp) PROVE AnswerInv'
    <3>1. stage = "idle" /\ order' = order
      BY <2>9 DEF FlightReports, FlightSends
    <3>2. order' = NoOrder
      BY <3>1 DEF TakenInv
    <3> QED
      BY <3>2, Zenon DEF AnswerInv
  <2>10. CASE UNCHANGED vars
    <3>1. UNCHANGED <<stage, order, report>>
      BY <2>10 DEF vars
    <3> QED
      BY <3>1, Zenon DEF AnswerInv
  <2> QED
    BY <2>1, <2>2, <2>3, <2>4, <2>5, <2>6, <2>7, <2>8, <2>9, <2>10 DEF Next
<1> QED
  BY <1>1, <1>2, OrderInvHolds, TakenInvHolds, PTL DEF Spec

\* The ground finds the sequence count it sent in every answer it reads, over both
\* directions of the link, as long as no burst hits the two octets of a length
\* (parse_tc, handle_tc, parse_tm).
THEOREM AnswersNameIfLengthsArrive == Spec /\ [][LengthArrives]_vars => []AnswerNamesItsRequest
<1>1. ReportInv /\ OrderInv /\ AnswerInv => AnswerNamesItsRequest
  <2> SUFFICES ASSUME ReportInv, OrderInv, AnswerInv, stage = "read", intact, order # NoOrder
               PROVE  reading.fields.req_apid = APIDS.GND /\ reading.fields.req_seqcnt = order.seq % 16384
    BY DEF AnswerNamesItsRequest
  <2>1. report.kind = "verification" /\ Names(report.request, order)
    BY Zenon DEF AnswerInv
  <2>2. /\ IsReport(report) \/ Answered(report)
        /\ IsStamp(stamped) /\ reading = ParseTm(Built(report, stamped))
    BY Zenon DEF ReportInv
  <2>3. Says(reading, report)
    BY <2>2, EveryReportSays
  <2>4. RequestShown(report.request, reading.fields)
    BY <2>1, <2>3 DEF Says
  <2>5. reading.fields.req_apid = Apid.GND /\ reading.fields.req_seqcnt = SeqCountMask(order.seq)
    BY <2>1, <2>4, Zenon DEF Names, RequestShown
  <2>6. Apid.GND = APIDS.GND
    BY DEF Apid, APIDS
  <2>7. SeqCountMask(order.seq) = order.seq % 16384
    BY DEF SeqCountMask
  <2> QED
    BY <2>5, <2>6, <2>7
<1> QED
  BY <1>1, ReportInvHolds, OrderInvHolds, AnswerInvHolds, PTL
=============================================================================
