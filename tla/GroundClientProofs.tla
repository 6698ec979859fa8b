-------------------------- MODULE GroundClientProofs --------------------------
(***************************************************************************)
(* Theorems about GroundClient, for any number of parameters, any sizes of *)
(* telemetry packets and any cut of the stream: the ground is handed the   *)
(* packets that were queued, and no value answers for another parameter    *)
(* before a wait has timed out.                                            *)
(***************************************************************************)
EXTENDS GroundClient, SequenceTheorems, TLAPS

Names  == {"PARAM_REPORT", "OTHER"}
Fields == [version : Nat, type : Nat, secondary_hdr : Nat, apid : Nat, sequence_flags : Nat,
           sequence_count : Nat, data_length : Nat]
Packet == [header : Fields, words : Nat \X Nat \X Nat, size : Nat, name : Names, param : Int]
Shown  == [apid : Nat, seq : Nat, name : Names, param : Int, crc_ok : BOOLEAN]

TypeInv ==
  /\ count \in Nat /\ count <= 16383
  /\ log \in Seq(Packet) /\ queued \in Seq(Nat) /\ stream \in Seq(Nat \X Nat)
  /\ yielded \in Seq(Shown) /\ answers \in Seq(Int)
  /\ arrived \in Nat /\ taken \in Nat
  /\ client \in {"ready", "waiting", "done", "failed"}

-----------------------------------------------------------------------------
\* The k-th packet the link took, and what the ground has to make of a packet.
Sent(k) == log[queued[k]]
AsBuilt(p) == [apid |-> p.header.apid, seq |-> p.header.sequence_count,
               name |-> p.name, param |-> p.param, crc_ok |-> TRUE]
WellFormed(p) ==
  /\ kTmMinimum <= p.size /\ p.size <= kMaxPacket
  /\ p.words[3] = p.size - kHeaderBytes - 1
  /\ Decoded(p) = AsBuilt(p)
QueueInv == \A k \in DOMAIN queued : queued[k] \in DOMAIN log /\ WellFormed(Sent(k))

\* The places in the stream where its packets begin, and the place after the last.
Cuts(pos) ==
  /\ pos \in [1 .. Len(queued) + 1 -> Nat]
  /\ pos[1] = 0 /\ pos[Len(queued) + 1] = Len(stream)
  /\ \A k \in 1 .. Len(queued) + 1 : pos[k] <= Len(stream)
  /\ \A k \in DOMAIN queued :
       /\ pos[k + 1] = pos[k] + Sent(k).size
       /\ \A i \in 1 .. Sent(k).size : stream[pos[k] + i] = <<queued[k], i>>

\* _rx begins where a packet does, the one after those that were yielded.
FramingInv ==
  /\ taken <= arrived /\ arrived <= Len(stream) /\ Len(yielded) <= Len(queued)
  /\ \E pos \in [1 .. Len(queued) + 1 -> Nat] : Cuts(pos) /\ pos[Len(yielded) + 1] = taken

StreamInv == TypeInv /\ QueueInv /\ FramingInv /\ FramedExactly

-----------------------------------------------------------------------------
\* The parameters asked for; the reports the ground has yet to take.
Asked  == IF client \in {"waiting", "failed"} THEN Len(answers) + 1 ELSE Len(answers)
Unread == {k \in Len(yielded) + 1 .. Len(queued) : Sent(k).name = "PARAM_REPORT"}

\* Nothing reports a parameter that was not asked for.
AskedInv ==
  /\ uplink \in Seq(Nat) /\ \A i \in DOMAIN uplink : uplink[i] \in 1 .. Asked
  /\ \A j \in DOMAIN log : log[j].name = "PARAM_REPORT" => log[j].param \in 1 .. Asked

\* While no wait has timed out, one request at most is on its way, up or down,
\* and it is the one the client waits for.
NoneLate == \A j \in DOMAIN answers : answers[j] # None
OneInv ==
  NoneLate =>
    /\ \A i \in DOMAIN uplink : i = 1 /\ uplink[i] = Len(answers) + 1
    /\ \A k \in Unread : Sent(k).param = Len(answers) + 1 /\ uplink = <<>>
    /\ \A k, m \in Unread : k = m
    /\ client \in {"ready", "done"} => uplink = <<>> /\ Unread = {}

\* The inductive invariant of GroundClient.
GroundInv == StreamInv /\ AskedInv /\ OneInv /\ AnswersMatchUntilATimeout

-----------------------------------------------------------------------------
\* The header of a packet that fits, encoded by the flight software and decoded by
\* the ground's own arithmetic.
LEMMA HeadersAgree ==
  ASSUME NEW h, h.version = 0, h.type = Telemetry, h.secondary_hdr = 1,
         h.sequence_flags = kUnsegmented, h.data_length \in Nat,
         h.apid \in Nat, h.apid <= 2047, h.sequence_count \in Nat, h.sequence_count <= 16383
  PROVE  /\ Encode(h) \in Nat \X Nat \X Nat /\ Encode(h)[3] = h.data_length
         /\ Encode(h)[1] % 2048 = h.apid /\ Encode(h)[2] % 16384 = h.sequence_count
<1>1. PICK apid \in Nat, n \in Nat, octets \in Nat :
        /\ apid = h.apid /\ n = h.sequence_count /\ octets = h.data_length
        /\ apid <= 2047 /\ n <= 16383
  OBVIOUS
<1>2. /\ Encode(h)[1] = 2048 + apid /\ Encode(h)[2] = 49152 + n /\ Encode(h)[3] = octets
      /\ Encode(h) \in Nat \X Nat \X Nat
  BY <1>1 DEF Encode, Telemetry, kUnsegmented, ApidMask, SeqCountMask
<1>3. (2048 + apid) % 2048 = apid /\ (49152 + n) % 16384 = n
  BY <1>1
<1> QED
  BY <1>1, <1>2, <1>3

LEMMA DecodedAsBuilt ==
  ASSUME NEW p, ApidIn(p.words[1]) = p.header.apid, SeqIn(p.words[2]) = p.header.sequence_count
  PROVE  Decoded(p) = AsBuilt(p)
BY Zenon DEF Decoded, AsBuilt

LEMMA PayloadsAreSizes == Payloads \cup {ReportPayload} \subseteq Nat
<1>1. Payloads \subseteq Nat \ {0}
  BY SpacePacketAssumption
<1>2. ReportPayload \in Nat
  BY GroundAssumption
<1> QED
  BY <1>1, <1>2

\* What Build makes: a packet that fits is well formed, and a sequence count is
\* taken in any case.
LEMMA BuildsWell ==
  ASSUME NEW apid \in Apids, NEW payload \in Payloads \cup {ReportPayload},
         NEW name \in Names, NEW param \in Int,
         count \in Nat, count <= 16383, Build(apid, payload),
         NEW p, p = [header |-> sent', words |-> words', size |-> size',
                     name |-> name, param |-> param]
  PROVE  /\ count' \in Nat /\ count' <= 16383 /\ p \in Packet
         /\ p.size # 0 => WellFormed(p)
<1> DEFINE total == kHeaderBytes + payload + kCrcBytes
<1>0. apid \in Nat /\ apid <= 2047
  BY SpacePacketAssumption
<1>1. payload \in Nat /\ payload >= 13
  <2>1. payload >= 13
    BY GroundAssumption DEF kTmSecondary
  <2> QED
    BY <2>1, PayloadsAreSizes
<1>2. count' \in Nat /\ count' <= 16383
  BY DEF Build, SeqCountMask
<1>3. CASE total <= kMaxPacket
  <2>1. PICK octets \in Nat : octets = payload + 1
    BY <1>1
  <2>2. /\ payload + kCrcBytes - 1 = octets /\ total \in Nat
        /\ kTmMinimum <= total /\ octets = total - kHeaderBytes - 1
    BY <1>1, <1>3, <2>1 DEF kTmMinimum, kTmSecondary, kHeaderBytes, kCrcBytes, kMaxPacket
  <2>3. PICK h, w, n : h = sent' /\ w = words' /\ n = size'
    OBVIOUS
  <2>4. h = [version |-> 0, type |-> Telemetry, secondary_hdr |-> 1, apid |-> apid,
             sequence_flags |-> kUnsegmented, sequence_count |-> count, data_length |-> octets]
    BY <1>3, <2>2, <2>3 DEF Build
  <2>5. w = Encode(h) /\ n = total
    BY <1>3, <2>3 DEF Build
  <2>6. /\ h.version = 0 /\ h.type = Telemetry /\ h.secondary_hdr = 1
        /\ h.sequence_flags = kUnsegmented /\ h.data_length = octets
        /\ h.apid \in Nat /\ h.apid <= 2047
        /\ h.sequence_count \in Nat /\ h.sequence_count <= 16383
    BY <1>0, <2>4
  <2>7. /\ w \in Nat \X Nat \X Nat /\ w[3] = octets
        /\ w[1] % 2048 = h.apid /\ w[2] % 16384 = h.sequence_count
    BY <2>5, <2>6, HeadersAgree
  <2>8. h \in Fields
    BY <1>0, <2>4 DEF Fields, Telemetry, kUnsegmented
  <2>9. p = [header |-> h, words |-> w, size |-> n, name |-> name, param |-> param]
    BY <2>3
  <2>10. p \in Packet
    BY <2>2, <2>5, <2>7, <2>8, <2>9 DEF Packet
  <2>11. Decoded(p) = AsBuilt(p)
    <3>1. p.words = w /\ p.header = h
      BY <2>9
    <3>2. p.words[1] % 2048 = p.header.apid /\ p.words[2] % 16384 = p.header.sequence_count
      BY <2>7, <3>1
    <3>3. ApidIn(p.words[1]) = p.header.apid /\ SeqIn(p.words[2]) = p.header.sequence_count
      BY <3>2 DEF ApidIn, SeqIn
    <3> QED
      BY <3>3, DecodedAsBuilt
  <2>12. p.words[3] = p.size - kHeaderBytes - 1 /\ kTmMinimum <= p.size /\ p.size <= kMaxPacket
    BY <1>3, <2>2, <2>5, <2>7, <2>9
  <2>13. WellFormed(p)
    BY <2>11, <2>12 DEF WellFormed
  <2> QED
    BY <1>2, <2>10, <2>13
<1>4. CASE ~ (total <= kMaxPacket)
  <2>1. sent' = NoHeader /\ words' = Encode(NoHeader) /\ size' = 0
    BY <1>4 DEF Build
  <2>2. NoHeader \in Fields
    BY DEF NoHeader, Fields
  <2>3. Encode(NoHeader) \in Nat \X Nat \X Nat
    BY DEF NoHeader, Encode, ApidMask, SeqCountMask
  <2> QED
    BY <1>2, <2>1, <2>2, <2>3, p.size = 0 DEF Packet
<1> QED
  BY <1>3, <1>4
-----------------------------------------------------------------------------
LEMMA OctetsAre ==
  ASSUME NEW k \in Nat, NEW n \in Nat
  PROVE  /\ Octets(k, n) \in Seq(Nat \X Nat) /\ Len(Octets(k, n)) = n
         /\ \A i \in 1 .. n : Octets(k, n)[i] = <<k, i>>
BY DEF Octets

\* What a packet does to its counter: it stays in its 14 bits.
LEMMA EmitCounts ==
  ASSUME TypeInv, NEW apid \in Apids, NEW payload \in Payloads \cup {ReportPayload},
         NEW name \in Names, NEW param \in Int, Emit(name, param, apid, payload)
  PROVE  count' \in Nat /\ count' <= 16383
<1>1. PICK p : p = [header |-> sent', words |-> words', size |-> size',
                    name |-> name, param |-> param]
  OBVIOUS
<1> QED
  BY <1>1, BuildsWell DEF TypeInv, Emit

\* What a packet adds: to the log always, to the stream if the link takes it.
LEMMA EmitEffect ==
  ASSUME TypeInv, NEW apid \in Apids, NEW payload \in Payloads \cup {ReportPayload},
         NEW name \in Names, NEW param \in Int, Emit(name, param, apid, payload)
  PROVE  /\ log' \in Seq(Packet)
         /\ Len(log') = Len(log) + 1
         /\ \A j \in 1 .. Len(log) : log'[j] = log[j]
         /\ log'[Len(log) + 1].name = name /\ log'[Len(log) + 1].param = param
         /\ \/ UNCHANGED <<queued, stream>>
            \/ /\ WellFormed(log'[Len(log) + 1])
               /\ queued' = Append(queued, Len(log) + 1)
               /\ stream' = stream \o Octets(Len(log) + 1, log'[Len(log) + 1].size)
<1>1. PICK p : p = [header |-> sent', words |-> words', size |-> size',
                    name |-> name, param |-> param]
  OBVIOUS
<1>2. /\ p \in Packet
      /\ p.size # 0 => WellFormed(p)
  BY <1>1, BuildsWell DEF TypeInv, Emit
<1>3. log' = Append(log, p)
  BY <1>1 DEF Emit
<1>4. /\ log' \in Seq(Packet) /\ Len(log') = Len(log) + 1
      /\ \A j \in 1 .. Len(log) : log'[j] = log[j]
      /\ log'[Len(log) + 1] = p
  BY <1>2, <1>3 DEF TypeInv
<1>5. p.name = name /\ p.param = param /\ p.size = size'
  BY <1>1
<1>6. \/ UNCHANGED <<queued, stream>>
      \/ /\ p.size # 0 /\ queued' = Append(queued, Len(log) + 1)
         /\ stream' = stream \o Octets(Len(log) + 1, p.size)
  BY <1>5 DEF Emit
<1> QED
  BY <1>2, <1>4, <1>5, <1>6
\* The packets already queued are the same in a log that has grown.
LEMMA QueuedStay ==
  ASSUME TypeInv, QueueInv, log' \in Seq(Packet), Len(log') = Len(log) + 1,
         \A j \in 1 .. Len(log) : log'[j] = log[j]
  PROVE  \A k \in 1 .. Len(queued) :
           queued[k] \in 1 .. Len(log) /\ log'[queued[k]] = log[queued[k]]
<1>1. DOMAIN queued = 1 .. Len(queued) /\ DOMAIN log = 1 .. Len(log)
  BY DEF TypeInv
<1>2. ASSUME NEW k \in 1 .. Len(queued) PROVE queued[k] \in 1 .. Len(log)
  BY <1>1, <1>2 DEF QueueInv
<1> QED
  BY <1>2, Zenon

\* A packet built leaves the invariant of the stream, whether the link takes it.
LEMMA EmitKeepsStream ==
  ASSUME StreamInv, NEW apid \in Apids, NEW payload \in Payloads \cup {ReportPayload},
         NEW name \in Names, NEW param \in Int, Emit(name, param, apid, payload)
  PROVE  StreamInv'
<1> USE DEF StreamInv
<1>0. TypeInv
  OBVIOUS
<1>1. /\ count' \in Nat /\ count' <= 16383 /\ log' \in Seq(Packet)
      /\ Len(log') = Len(log) + 1
      /\ \A j \in 1 .. Len(log) : log'[j] = log[j]
  <2>1. count' \in Nat /\ count' <= 16383
    BY <1>0, EmitCounts
  <2>2. /\ log' \in Seq(Packet) /\ Len(log') = Len(log) + 1
        /\ \A j \in 1 .. Len(log) : log'[j] = log[j]
    BY <1>0, EmitEffect, Zenon
  <2> QED
    BY <2>1, <2>2
<1>2. \/ UNCHANGED <<queued, stream>>
      \/ /\ WellFormed(log'[Len(log) + 1])
         /\ queued' = Append(queued, Len(log) + 1)
         /\ stream' = stream \o Octets(Len(log) + 1, log'[Len(log) + 1].size)
  BY <1>0, EmitEffect, Zenon
<1>3. UNCHANGED <<yielded, taken, arrived, answers, client>>
  BY DEF Emit, ground
<1>4. \A k \in 1 .. Len(queued) : queued[k] \in 1 .. Len(log) /\ log'[queued[k]] = log[queued[k]]
  BY <1>1, QueuedStay
<1>5. /\ DOMAIN log = 1 .. Len(log) /\ DOMAIN queued = 1 .. Len(queued) /\ Len(log) \in Nat
      /\ DOMAIN yielded = 1 .. Len(yielded) /\ Len(yielded) \in Nat /\ Len(queued) \in Nat
      /\ DOMAIN log' = 1 .. Len(log) + 1 /\ Len(stream) \in Nat
  BY <1>1 DEF TypeInv
<1>6. PICK pos \in [1 .. Len(queued) + 1 -> Nat] : Cuts(pos) /\ pos[Len(yielded) + 1] = taken
  BY DEF FramingInv
<1>7. taken <= arrived /\ arrived <= Len(stream) /\ Len(yielded) <= Len(queued)
  BY DEF FramingInv
<1>8. CASE UNCHANGED <<queued, stream>>
  <2>1. TypeInv'
    BY <1>1, <1>3, <1>8 DEF TypeInv
  <2>2. QueueInv'
    BY <1>4, <1>5, <1>8 DEF QueueInv, Sent
  <2>3. Cuts(pos)'
    <3>1. /\ pos[1] = 0 /\ pos[Len(queued) + 1] = Len(stream)
          /\ \A k \in 1 .. Len(queued) + 1 : pos[k] <= Len(stream)
      BY <1>6 DEF Cuts
    <3>2. \A k \in DOMAIN queued :
            /\ pos[k + 1] = pos[k] + log'[queued[k]].size
            /\ \A i \in 1 .. log'[queued[k]].size : stream[pos[k] + i] = <<queued[k], i>>
      BY <1>4, <1>5, <1>6 DEF Cuts, Sent
    <3> QED
      BY <1>8, <3>1, <3>2 DEF Cuts, Sent
  <2>4. FramingInv'
    BY <1>3, <1>6, <1>7, <1>8, <2>3 DEF FramingInv
  <2>5. FramedExactly'
    BY <1>3, <1>4, <1>5, <1>7, <1>8 DEF FramedExactly
  <2> QED
    BY <2>1, <2>2, <2>4, <2>5
<1>9. CASE /\ WellFormed(log'[Len(log) + 1])
           /\ queued' = Append(queued, Len(log) + 1)
           /\ stream' = stream \o Octets(Len(log) + 1, log'[Len(log) + 1].size)
  <2>1. PICK n \in Nat : n = log'[Len(log) + 1].size
    <3>1. Len(log) + 1 \in DOMAIN log'
      BY <1>5
    <3>2. log'[Len(log) + 1] \in Packet
      BY <1>1, <3>1
    <3>3. log'[Len(log) + 1].size \in Nat
      BY <3>2 DEF Packet
    <3> QED
      BY <3>3, Zenon
  <2>2. /\ \E q \in Nat : q = Len(queued)
        /\ \E m \in Nat : m = Len(log) + 1
        /\ \E t \in Nat : t = Len(stream)
    <3>1. Len(queued) \in Nat /\ Len(log) + 1 \in Nat /\ Len(stream) \in Nat
      BY <1>5
    <3> QED
      BY <3>1, Zenon
  <2>20. PICK q \in Nat : q = Len(queued)
    BY <2>2
  <2>21. PICK m \in Nat : m = Len(log) + 1
    BY <2>2
  <2>22. PICK t \in Nat : t = Len(stream)
    BY <2>2
  <2>3. /\ queued' \in Seq(Nat) /\ Len(queued') = q + 1 /\ DOMAIN queued' = 1 .. q + 1
        /\ \A k \in 1 .. q : queued'[k] = queued[k]
        /\ queued'[q + 1] = m
    BY <1>5, <1>9, <2>20, <2>21, <2>22 DEF TypeInv
  <2>4. /\ Octets(m, n) \in Seq(Nat \X Nat) /\ Len(Octets(m, n)) = n
        /\ \A i \in 1 .. n : Octets(m, n)[i] = <<m, i>>
    BY OctetsAre
  <2>5. stream' = stream \o Octets(m, n)
    BY <1>9, <2>1, <2>20, <2>21, <2>22
  <2>6. /\ stream' \in Seq(Nat \X Nat) /\ Len(stream') = t + n
        /\ \A i \in 1 .. t : stream'[i] = stream[i]
        /\ \A i \in 1 .. n : stream'[t + i] = Octets(m, n)[i]
    <3>1. stream \in Seq(Nat \X Nat)
      BY DEF TypeInv
    <3>2. PICK o \in Seq(Nat \X Nat) : o = Octets(m, n)
      BY <2>4
    <3>3. stream' = stream \o o /\ Len(o) = n
      BY <2>4, <2>5, <3>2
    <3>4. stream' \in Seq(Nat \X Nat) /\ Len(stream') = t + n
      BY <2>22, <3>1, <3>3, ConcatProperties
    <3>5. ASSUME NEW i \in 1 .. t PROVE stream'[i] = stream[i]
      BY <2>22, <3>1, <3>3, <3>5
    <3>6. ASSUME NEW i \in 1 .. n PROVE stream'[t + i] = o[i]
      <4>1. t + i \in 1 .. t + n /\ ~ (t + i <= t) /\ (t + i) - t = i
        BY <3>6
      <4> QED
        BY <2>22, <3>1, <3>3, <4>1
    <3> QED
      BY <3>2, <3>4, <3>5, <3>6
  <2>7. \A i \in 1 .. n : stream'[t + i] = <<m, i>>
    BY <2>4, <2>6
  <2>8. TypeInv'
    BY <1>1, <1>3, <2>3, <2>6 DEF TypeInv
  <2>9. QueueInv'
    <3>1. ASSUME NEW k \in 1 .. q + 1
          PROVE  queued'[k] \in 1 .. Len(log) + 1 /\ WellFormed(log'[queued'[k]])
      <4>1. CASE k = q + 1
        BY <1>5, <1>9, <2>20, <2>21, <2>22, <2>3, <4>1
      <4>2. CASE k # q + 1
        <5>1. k \in 1 .. q
          BY <4>2
        <5>2. queued[k] \in 1 .. Len(log) /\ log'[queued[k]] = log[queued[k]] /\ queued'[k] = queued[k]
          BY <1>4, <2>20, <2>21, <2>22, <2>3, <5>1
        <5>3. WellFormed(log[queued[k]])
          BY <1>5, <2>20, <2>21, <2>22, <5>1 DEF QueueInv, Sent
        <5> QED
          BY <1>5, <5>2, <5>3
      <4> QED
        BY <4>1, <4>2
    <3> QED
      BY <1>5, <2>3, <3>1 DEF QueueInv, Sent
  <2>10. /\ pos \in [1 .. q + 1 -> Nat] /\ pos[1] = 0 /\ pos[q + 1] = t
         /\ \A k \in 1 .. q + 1 : pos[k] <= t
         /\ \A k \in 1 .. q :
              /\ pos[k + 1] = pos[k] + log[queued[k]].size
              /\ \A i \in 1 .. log[queued[k]].size : stream[pos[k] + i] = <<queued[k], i>>
    BY <1>5, <1>6, <2>20, <2>21, <2>22 DEF Cuts, Sent
  <2>11. PICK new \in [1 .. q + 2 -> Nat] :
           new[q + 2] = pos[q + 1] + n /\ \A k \in 1 .. q + 1 : new[k] = pos[k]
    <3>1. pos \in [1 .. q + 1 -> Nat]
      BY <2>10
    <3> DEFINE grown == [k \in 1 .. q + 2 |-> IF k = q + 2 THEN pos[q + 1] + n ELSE pos[k]]
    <3>2. q + 1 \in 1 .. q + 1 /\ q + 2 \in 1 .. q + 2
      OBVIOUS
    <3>3. \A k \in 1 .. q + 2 : k # q + 2 => k \in 1 .. q + 1
      OBVIOUS
    <3>4. \A k \in 1 .. q + 1 : k # q + 2 /\ k \in 1 .. q + 2
      OBVIOUS
    <3>5. grown \in [1 .. q + 2 -> Nat]
      BY <3>1, <3>2, <3>3
    <3>6. grown[q + 2] = pos[q + 1] + n /\ \A k \in 1 .. q + 1 : grown[k] = pos[k]
      BY <3>2, <3>4
    <3> QED
      BY <3>5, <3>6, Zenon
  <2>12. Cuts(new)'
    <3>1. new \in [1 .. Len(queued') + 1 -> Nat] /\ new[1] = 0 /\ new[Len(queued') + 1] = Len(stream')
      <4>1. 1 \in 1 .. q + 1 /\ Len(queued') + 1 = q + 2
        BY <2>3
      <4>2. new[1] = 0
        BY <2>10, <2>11, <4>1
      <4>3. new[q + 2] = t + n
        BY <2>10, <2>11
      <4> QED
        BY <2>6, <2>11, <4>1, <4>2, <4>3
    <3>2. ASSUME NEW k \in 1 .. q + 1
          PROVE  /\ new[k + 1] = new[k] + log'[queued'[k]].size
                 /\ \A i \in 1 .. log'[queued'[k]].size : stream'[new[k] + i] = <<queued'[k], i>>
      <4>1. CASE k = q + 1
        <5>1. new[k] = t /\ new[k + 1] = t + n /\ queued'[k] = m /\ log'[m].size = n
          BY <2>1, <2>3, <2>10, <2>11, <2>21, <4>1
        <5> QED
          BY <2>7, <5>1
      <4>2. CASE k # q + 1
        <5>1. k \in 1 .. q /\ k \in 1 .. q + 1 /\ k + 1 \in 1 .. q + 1
          BY <4>2
        <5>2. new[k] = pos[k] /\ new[k + 1] = pos[k + 1]
          BY <2>11, <5>1
        <5>3. queued'[k] = queued[k] /\ log'[queued'[k]] = log[queued[k]]
          BY <1>4, <2>3, <2>20, <5>1
        <5>4. /\ pos[k + 1] = pos[k] + log[queued[k]].size
              /\ \A i \in 1 .. log[queued[k]].size : stream[pos[k] + i] = <<queued[k], i>>
          BY <2>10, <5>1
        <5>5. ASSUME NEW i \in 1 .. log[queued[k]].size
              PROVE  pos[k] + i \in 1 .. t
          <6>1. PICK a \in Nat, b \in Nat : a = pos[k] /\ b = pos[k + 1]
            BY <2>10, <5>1
          <6>2. PICK z \in Nat : z = log[queued[k]].size
            <7>1. queued[k] \in DOMAIN log
              BY <1>4, <1>5, <2>20, <5>1
            <7>2. log[queued[k]] \in Packet
              BY <7>1 DEF TypeInv
            <7>3. log[queued[k]].size \in Nat
              BY <7>2 DEF Packet
            <7> QED
              BY <7>3, Zenon
          <6>3. b = a + z /\ b <= t
            BY <2>10, <5>1, <5>4, <6>1, <6>2
          <6>4. a + i \in 1 .. t
            <7>1. i \in 1 .. z
              BY <5>5, <6>2
            <7> QED
              BY <6>3, <7>1
          <6> QED
            BY <6>1, <6>4
        <5> QED
          BY <2>6, <5>2, <5>3, <5>4, <5>5
      <4> QED
        BY <4>1, <4>2
    <3>3. DOMAIN queued' = 1 .. q + 1
      BY <2>3
    <3>4. ASSUME NEW k \in 1 .. q + 2 PROVE new[k] <= t + n
      BY <2>10, <2>11
    <3>5. Len(queued') + 1 = q + 2 /\ Len(stream') = t + n
      BY <2>3, <2>6
    <3> QED
      BY <3>1, <3>2, <3>3, <3>4, <3>5 DEF Cuts, Sent
  <2>13. FramingInv'
    <3>1. PICK y \in Nat : y = Len(yielded)
      BY <1>5
    <3>2. y <= q /\ pos[y + 1] = taken /\ y + 1 \in 1 .. q + 1
      BY <1>6, <1>7, <2>20, <2>21, <2>22, <3>1
    <3>3. new[y + 1] = taken
      BY <2>11, <3>2
    <3>4. taken' <= arrived' /\ arrived' <= Len(stream')
      BY <1>3, <1>5, <1>7, <2>6, <2>22 DEF TypeInv
    <3>5. Len(yielded') = y /\ y <= Len(queued')
      BY <1>3, <2>3, <3>1, <3>2
    <3>6. Len(queued') + 1 = q + 2
      BY <2>3
    <3>7. new \in [1 .. Len(queued') + 1 -> Nat] /\ new[Len(yielded') + 1] = taken'
      BY <1>3, <2>11, <3>3, <3>5, <3>6
    <3> QED
      BY <2>12, <3>4, <3>5, <3>7 DEF FramingInv
  <2>14. FramedExactly'
    <3>1. \A k \in 1 .. q : log'[queued'[k]] = log[queued[k]]
      BY <1>4, <2>20, <2>21, <2>22, <2>3
    <3>2. \A k \in 1 .. Len(yielded) : k \in 1 .. q
      BY <1>5, <1>7, <2>20, <2>21, <2>22
    <3>3. \A k \in DOMAIN yielded : AsBuilt(log[queued[k]]) = AsBuilt(log'[queued'[k]])
      BY <1>5, <3>1, <3>2
    <3>4. \A k \in DOMAIN yielded : yielded[k] = AsBuilt(log[queued[k]])
      BY Zenon DEF FramedExactly, AsBuilt
    <3>5. \A k \in DOMAIN yielded' : yielded'[k] = AsBuilt(log'[queued'[k]])
      BY <1>3, <3>3, <3>4
    <3>6. Len(yielded') <= Len(queued')
      BY <1>3, <1>5, <1>7, <2>3, <2>20
    <3> QED
      BY <3>5, <3>6, Zenon DEF FramedExactly, AsBuilt
  <2> QED
    BY <2>8, <2>9, <2>13, <2>14
<1> QED
  BY <1>2, <1>8, <1>9
-----------------------------------------------------------------------------
\* A header in _rx is the header of the packet after those that were yielded; its
\* length is read as the size it was built with, and it is decoded as it was built.
LEMMA FrontIsAPacket ==
  ASSUME StreamInv, Available >= kHeaderBytes
  PROVE  /\ Len(yielded) + 1 \in DOMAIN queued
         /\ FrontTotals = {Sent(Len(yielded) + 1).size}
         /\ Whole(Sent(Len(yielded) + 1).size) =>
              ParseTm(Sent(Len(yielded) + 1).size) = AsBuilt(Sent(Len(yielded) + 1))
         /\ \E pos \in [1 .. Len(queued) + 1 -> Nat] :
              /\ Cuts(pos) /\ pos[Len(yielded) + 1] = taken
              /\ pos[Len(yielded) + 2] = taken + Sent(Len(yielded) + 1).size
<1> USE DEF StreamInv
<1>1. PICK pos \in [1 .. Len(queued) + 1 -> Nat] : Cuts(pos) /\ pos[Len(yielded) + 1] = taken
  BY DEF FramingInv
<1>2. PICK y \in Nat : y = Len(yielded)
  BY DEF TypeInv
<1>3. PICK q \in Nat : q = Len(queued) /\ DOMAIN queued = 1 .. q
  BY DEF TypeInv
<1>4. PICK t \in Nat : t = Len(stream)
  BY DEF TypeInv
<1>5. PICK b \in Nat, c \in Nat : b = taken /\ c = arrived
  BY DEF TypeInv
<1>6. c <= t /\ y <= q /\ c - b >= 6
  BY <1>2, <1>3, <1>4, <1>5 DEF FramingInv, Available, kHeaderBytes
<1>7. y # q
  <2>1. ASSUME y = q PROVE FALSE
    <3>1. pos[q + 1] = t
      BY <1>1, <1>3, <1>4 DEF Cuts
    <3>2. b = t
      BY <1>1, <1>2, <1>5, <2>1, <3>1
    <3> QED
      BY <1>6, <3>2
  <2> QED
    BY <2>1
<1>8. PICK k \in 1 .. q : k = y + 1
  BY <1>6, <1>7
<1>9. PICK j : j = queued[k]
  OBVIOUS
<1>10. PICK p : p = log[j] /\ p = Sent(k)
  BY <1>9 DEF Sent
<1>11. j \in DOMAIN log /\ WellFormed(p) /\ p \in Packet
  <2>1. j \in DOMAIN log /\ WellFormed(p)
    BY <1>3, <1>9, <1>10 DEF QueueInv
  <2>2. log \in Seq(Packet)
    BY DEF TypeInv
  <2>3. log[j] \in Packet
    BY <2>1, <2>2
  <2> QED
    BY <1>10, <2>1, <2>3
<1>12. PICK z \in Nat : z = p.size
  BY <1>11 DEF Packet
<1>13. 21 <= z /\ p.words[3] = z - 7
  BY <1>11, <1>12 DEF WellFormed, kTmMinimum, kTmSecondary, kHeaderBytes, kCrcBytes
<1>14. pos[k + 1] = b + z
  BY <1>1, <1>2, <1>3, <1>5, <1>8, <1>10, <1>12 DEF Cuts
<1>15. \A i \in 1 .. z : stream[b + i] = <<j, i>>
  BY <1>1, <1>2, <1>3, <1>5, <1>8, <1>9, <1>10, <1>12 DEF Cuts
<1>16. \A i \in 1 .. 6 : Octet(i) = <<j, i>>
  BY <1>5, <1>13, <1>15 DEF Octet
<1>17. Octet(1)[1] = j
  BY <1>16
<1>18. FrontTotals = {z}
  <2>1. HeaderInFront
    BY <1>16, <1>17 DEF HeaderInFront, kHeaderBytes
  <2>2. GroundTotal(log[Octet(1)[1]].words[3]) = z
    <3>1. log[Octet(1)[1]].words[3] = z - 7
      BY <1>10, <1>13, <1>17
    <3> QED
      BY <3>1 DEF GroundTotal, kHeaderBytes
  <2> QED
    BY <2>1, <2>2 DEF FrontTotals
<1>19. ASSUME z <= c - b PROVE SubSeq(stream, b + 1, b + z) = Octets(j, z)
  <2>1. j \in Nat
    BY <1>11 DEF TypeInv
  <2>2. PICK o \in Seq(Nat \X Nat) : o = Octets(j, z) /\ Len(o) = z /\ \A i \in 1 .. z : o[i] = <<j, i>>
    BY <2>1, OctetsAre
  <2>3. PICK r : r = SubSeq(stream, b + 1, b + z)
    OBVIOUS
  <2>4. b + z <= t
    BY <1>6, <1>19
  <2>5. stream \in Seq(Nat \X Nat)
    BY DEF TypeInv
  <2>6. r \in Seq(Nat \X Nat) /\ Len(r) = z
    <3>1. b + 1 \in Int /\ b + z \in Int /\ \A i \in b + 1 .. b + z : stream[i] \in Nat \X Nat
      BY <1>4, <2>4, <2>5
    <3>2. /\ SubSeq(stream, b + 1, b + z) \in Seq(Nat \X Nat)
          /\ Len(SubSeq(stream, b + 1, b + z))
               = IF b + 1 <= b + z THEN b + z - (b + 1) + 1 ELSE 0
      BY <3>1, SubSeqProperties, SMTT(30)
    <3>3. (IF b + 1 <= b + z THEN b + z - (b + 1) + 1 ELSE 0) = z
      OBVIOUS
    <3> QED
      BY <2>3, <3>2, <3>3
  <2>7. ASSUME NEW i \in 1 .. z PROVE r[i] = o[i]
    <3>1. r[i] = stream[b + i]
      BY <1>4, <2>3, <2>4, <2>5, SubSeqProperties
    <3> QED
      BY <1>15, <2>2, <3>1
  <2>8. r = o
    BY <2>2, <2>6, <2>7, SeqEqual
  <2> QED
    BY <2>2, <2>3, <2>8
<1>20. ASSUME Whole(z) PROVE ParseTm(z) = AsBuilt(p)
  <2>1. z >= kTmMinimum
    BY <1>13 DEF kTmMinimum, kTmSecondary, kHeaderBytes, kCrcBytes
  <2>2. ParseTm(z) = Decoded(p)
    <3>1. SubSeq(stream, b + 1, b + z) = Octets(j, z)
      BY <1>5, <1>19, <1>20 DEF Whole, Available
    <3> QED
      BY <1>5, <1>10, <1>12, <1>17, <2>1, <3>1 DEF ParseTm
  <2> QED
    BY <1>11, <2>2 DEF WellFormed
<1>21. Sent(Len(yielded) + 1) = p /\ Len(yielded) + 1 \in DOMAIN queued
  BY <1>2, <1>3, <1>8, <1>10
<1>22. pos[Len(yielded) + 2] = taken + p.size
  BY <1>2, <1>5, <1>8, <1>12, <1>14
<1> QED
  BY <1>1, <1>12, <1>18, <1>20, <1>21, <1>22
\* What a packet out of _drain is to the client.
LEMMA TakeEffect ==
  ASSUME StreamInv, TakePacket, NEW p, p = Sent(Len(yielded) + 1)
  PROVE  /\ Len(yielded) + 1 \in DOMAIN queued /\ Whole(p.size)
         /\ taken' = taken + p.size /\ yielded' = Append(yielded, AsBuilt(p))
         /\ \/ /\ p.name = "PARAM_REPORT"
               /\ client' = "ready" /\ answers' = Append(answers, p.param)
            \/ p.name # "PARAM_REPORT" /\ UNCHANGED <<client, answers>>
<1>1. /\ Len(yielded) + 1 \in DOMAIN queued /\ FrontTotals = {p.size}
      /\ Whole(p.size) => ParseTm(p.size) = AsBuilt(p)
  BY FrontIsAPacket DEF TakePacket
<1>2. PICK z : z = p.size
  OBVIOUS
<1>3. PICK tm : tm = AsBuilt(p)
  OBVIOUS
<1>4. tm.name = p.name /\ tm.param = p.param
  BY <1>3 DEF AsBuilt
<1>5. /\ Whole(z) /\ taken' = taken + z /\ yielded' = Append(yielded, tm)
      /\ IF Wanted(tm) THEN client' = "ready" /\ answers' = Append(answers, tm.param)
                       ELSE UNCHANGED <<client, answers>>
  BY <1>1, <1>2, <1>3, Zenon DEF TakePacket
<1> QED
  BY <1>1, <1>2, <1>3, <1>4, <1>5 DEF Wanted

LEMMA TakeKeepsStream ==
  ASSUME StreamInv, TakePacket
  PROVE  StreamInv' /\ Len(yielded') = Len(yielded) + 1
<1> USE DEF StreamInv
<1>1. Available >= kHeaderBytes
  BY DEF TakePacket
<1>2. PICK pos \in [1 .. Len(queued) + 1 -> Nat] :
        /\ Cuts(pos) /\ pos[Len(yielded) + 1] = taken
        /\ pos[Len(yielded) + 2] = taken + Sent(Len(yielded) + 1).size
  BY <1>1, FrontIsAPacket
<1>3. PICK p : p = Sent(Len(yielded) + 1)
  OBVIOUS
<1>4. /\ Len(yielded) + 1 \in DOMAIN queued /\ Whole(p.size)
      /\ taken' = taken + p.size /\ yielded' = Append(yielded, AsBuilt(p))
      /\ \/ client' = "ready" /\ answers' = Append(answers, p.param)
         \/ UNCHANGED <<client, answers>>
  BY <1>3, TakeEffect
<1>5. UNCHANGED <<count, log, queued, stream, arrived>>
  BY DEF TakePacket, craft
<1>6. p \in Packet
  <2>1. queued[Len(yielded) + 1] \in DOMAIN log
    BY <1>4 DEF QueueInv
  <2>2. log \in Seq(Packet)
    BY DEF TypeInv
  <2> QED
    BY <1>3, <2>1, <2>2 DEF Sent
<1>7. p.param \in Int /\ p.size \in Nat
  BY <1>6 DEF Packet
<1>8. AsBuilt(p) \in Shown
  <2>1. p.header.apid \in Nat /\ p.header.sequence_count \in Nat /\ p.name \in Names
    BY <1>6 DEF Packet, Fields
  <2> QED
    BY <1>7, <2>1, Zenon DEF AsBuilt, Shown
<1>9. PICK y \in Nat, q \in Nat : y = Len(yielded) /\ q = Len(queued)
  BY DEF TypeInv
<1>10. DOMAIN queued = 1 .. q /\ DOMAIN yielded = 1 .. y /\ y + 1 \in 1 .. q
  BY <1>4, <1>9 DEF TypeInv
<1>11. /\ yielded' \in Seq(Shown) /\ Len(yielded') = y + 1 /\ DOMAIN yielded' = 1 .. y + 1
       /\ \A k \in 1 .. y : yielded'[k] = yielded[k]
       /\ yielded'[y + 1] = AsBuilt(p)
  <2>1. yielded \in Seq(Shown) /\ Len(yielded) = y /\ y \in Nat
    BY <1>9 DEF TypeInv
  <2>2. PICK r : r = AsBuilt(p) /\ r \in Shown
    BY <1>8
  <2>3. yielded' = Append(yielded, r)
    BY <1>4, <2>2
  <2> QED
    BY <2>1, <2>2, <2>3
<1>12. TypeInv'
  <2>1. taken' \in Nat
    <3>1. taken \in Nat
      BY DEF TypeInv
    <3> QED
      BY <1>4, <1>7, <3>1
  <2>2. answers' \in Seq(Int) /\ client' \in {"ready", "waiting", "done", "failed"}
    <3>1. answers \in Seq(Int) /\ client \in {"ready", "waiting", "done", "failed"}
      BY DEF TypeInv
    <3>2. PICK v \in Int : v = p.param
      BY <1>7
    <3>3. Append(answers, v) \in Seq(Int)
      BY <3>1, <3>2
    <3>4. \/ client' = "ready" /\ answers' = Append(answers, v)
          \/ UNCHANGED <<client, answers>>
      BY <1>4, <3>2
    <3> QED
      BY <3>1, <3>3, <3>4
  <2> QED
    BY <1>5, <1>11, <2>1, <2>2 DEF TypeInv
<1>13. QueueInv'
  BY <1>5 DEF QueueInv, Sent
<1>14. FramingInv'
  <2>1. Cuts(pos)'
    BY <1>2, <1>5 DEF Cuts, Sent
  <2>2. taken' <= arrived'
    BY <1>4, <1>5, <1>7, SMTT(30) DEF Whole, Available, TypeInv
  <2>3. arrived' <= Len(stream')
    BY <1>5 DEF FramingInv
  <2>4. Len(yielded') <= Len(queued')
    BY <1>5, <1>9, <1>10, <1>11
  <2>5. pos[y + 2] = taken'
    BY <1>2, <1>3, <1>4, <1>9
  <2>6. pos[Len(yielded') + 1] = taken'
    BY <1>11, <2>5
  <2>7. pos \in [1 .. Len(queued') + 1 -> Nat]
    BY <1>5
  <2> QED
    BY <2>1, <2>2, <2>3, <2>4, <2>6, <2>7 DEF FramingInv
<1>15. FramedExactly'
  <2>1. \A k \in 1 .. y : yielded[k] = AsBuilt(Sent(k))
    BY <1>10, Zenon DEF FramedExactly, AsBuilt, Sent
  <2>2. ASSUME NEW k \in 1 .. y + 1 PROVE yielded'[k] = AsBuilt(Sent(k))
    BY <1>3, <1>9, <1>11, <2>1, <2>2
  <2>3. \A k \in DOMAIN yielded' : yielded'[k] = AsBuilt(log'[queued'[k]])
    BY <1>5, <1>11, <2>2 DEF Sent
  <2>4. Len(yielded') <= Len(queued')
    BY <1>5, <1>9, <1>10, <1>11
  <2> QED
    BY <2>3, <2>4, Zenon DEF FramedExactly, AsBuilt
<1> QED
  BY <1>9, <1>11, <1>12, <1>13, <1>14, <1>15

\* Steps that move no packet.
LEMMA StreamStays ==
  ASSUME StreamInv, UNCHANGED <<count, log, queued, stream, yielded, taken>>,
         arrived' \in Nat, arrived <= arrived', arrived' <= Len(stream),
         answers' \in Seq(Int), client' \in {"ready", "waiting", "done", "failed"}
  PROVE  StreamInv'
<1> USE DEF StreamInv
<1>1. TypeInv'
  BY DEF TypeInv
<1>2. QueueInv' /\ FramedExactly'
  BY DEF QueueInv, Sent, FramedExactly
<1>3. FramingInv'
  <2>1. PICK pos \in [1 .. Len(queued) + 1 -> Nat] : Cuts(pos) /\ pos[Len(yielded) + 1] = taken
    BY DEF FramingInv
  <2>2. Cuts(pos)'
    BY <2>1 DEF Cuts, Sent
  <2>3. taken <= arrived'
    BY DEF TypeInv, FramingInv
  <2> QED
    BY <2>1, <2>2, <2>3 DEF FramingInv
<1> QED
  BY <1>1, <1>2, <1>3
-----------------------------------------------------------------------------
\* The client's own steps, and what they leave alone.
Quiet ==
  /\ UNCHANGED <<count, log, queued, stream, yielded, taken>>
  /\ arrived' \in Nat /\ arrived <= arrived' /\ arrived' <= Len(stream)

LEMMA QuietSteps ==
  ASSUME StreamInv, Ask \/ Receive \/ GiveUp \/ Finish \/ CloseLink \/ LinkReset
  PROVE  /\ Quiet
         /\ \/ client = "ready" /\ client' \in {"waiting", "failed"} /\ UNCHANGED answers
               /\ uplink' \in {uplink, Append(uplink, Len(answers) + 1)}
            \/ client = "ready" /\ client' = "done" /\ UNCHANGED <<answers, uplink>>
            \/ client = "waiting" /\ client' = "failed" /\ UNCHANGED <<answers, uplink>>
            \/ client = "waiting" /\ client' = "ready" /\ answers' = Append(answers, None)
               /\ UNCHANGED uplink
            \/ UNCHANGED <<client, answers, uplink>>
<1>1. arrived \in Nat /\ arrived <= Len(stream) /\ Len(stream) \in Nat
  BY DEF StreamInv, TypeInv, FramingInv
<1>2. CASE Ask
  BY <1>1, <1>2 DEF Ask, Quiet, craft, ground
<1>3. CASE Receive
  <2>1. PICK n \in 1 .. Len(stream) - arrived : arrived' = arrived + n
    BY <1>3 DEF Receive
  <2>2. arrived' \in Nat /\ arrived <= arrived' /\ arrived' <= Len(stream)
    BY <1>1, <2>1
  <2> QED
    BY <1>3, <2>2 DEF Receive, Quiet, craft, ground
<1>4. CASE GiveUp
  BY <1>1, <1>4 DEF GiveUp, Quiet, craft
<1>5. CASE Finish
  BY <1>1, <1>5 DEF Finish, Quiet, craft, ground
<1>6. CASE CloseLink
  BY <1>1, <1>6 DEF CloseLink, Quiet, craft, ground
<1>7. CASE LinkReset
  BY <1>1, <1>7 DEF LinkReset, Quiet, craft, ground
<1> QED
  BY <1>2, <1>3, <1>4, <1>5, <1>6, <1>7

LEMMA StreamInductive ==
  ASSUME StreamInv, uplink \in Seq(Nat), [GroundNext]_groundVars
  PROVE  StreamInv'
<1>1. CASE ReportParam
  <2>1. PICK apid \in Apids : Emit("PARAM_REPORT", Head(uplink), apid, ReportPayload)
    BY <1>1 DEF ReportParam
  <2>2. "PARAM_REPORT" \in Names
    BY DEF Names
  <2>3. Head(uplink) \in Int
    BY <1>1 DEF ReportParam
  <2>4. ReportPayload \in Payloads \cup {ReportPayload}
    OBVIOUS
  <2> QED
    BY <2>1, <2>2, <2>3, <2>4, EmitKeepsStream
<1>2. CASE OtherTelemetry
  <2>1. PICK apid \in Apids, payload \in Payloads : Emit("OTHER", Nothing, apid, payload)
    BY <1>2 DEF OtherTelemetry
  <2>2. "OTHER" \in Names /\ Nothing \in Int
    BY DEF Names, Nothing
  <2> QED
    BY <2>1, <2>2, EmitKeepsStream
<1>3. CASE TakePacket
  BY <1>3, TakeKeepsStream
<1>4. CASE Ask \/ Receive \/ GiveUp \/ Finish \/ CloseLink \/ LinkReset
  <2>1. Quiet
    BY <1>4, QuietSteps
  <2>2. answers \in Seq(Int) /\ client \in {"ready", "waiting", "done", "failed"}
    BY DEF StreamInv, TypeInv
  <2>3. Append(answers, None) \in Seq(Int)
    BY <2>2 DEF None
  <2>4. /\ answers' \in {answers, Append(answers, None)}
        /\ client' \in {client, "waiting", "failed", "done", "ready"}
    BY <1>4, QuietSteps
  <2>5. answers' \in Seq(Int) /\ client' \in {"ready", "waiting", "done", "failed"}
    BY <2>2, <2>3, <2>4
  <2> QED
    BY <2>1, <2>5, StreamStays DEF Quiet
<1>5. CASE UNCHANGED groundVars
  <2>1. /\ UNCHANGED <<count, log, queued, stream, yielded, taken, arrived, answers, client>>
    BY <1>5 DEF groundVars, craft, ground
  <2>2. /\ arrived \in Nat /\ arrived <= Len(stream)
        /\ answers \in Seq(Int) /\ client \in {"ready", "waiting", "done", "failed"}
    BY DEF StreamInv, TypeInv, FramingInv
  <2>3. /\ arrived' \in Nat /\ arrived <= arrived' /\ arrived' <= Len(stream)
        /\ answers' \in Seq(Int) /\ client' \in {"ready", "waiting", "done", "failed"}
    BY <2>1, <2>2
  <2> QED
    BY <2>1, <2>3, StreamStays
<1> QED
  BY <1>1, <1>2, <1>3, <1>4, <1>5 DEF GroundNext, Client
-----------------------------------------------------------------------------
\* A packet built is the only one that may be new among the unread ones, and it is
\* the last.
LEMMA EmitUnread ==
  ASSUME StreamInv, NEW apid \in Apids, NEW payload \in Payloads \cup {ReportPayload},
         NEW name \in Names, NEW param \in Int, Emit(name, param, apid, payload)
  PROVE  /\ UNCHANGED <<answers, client>>
         /\ \A j \in DOMAIN log' : \/ j \in DOMAIN log /\ log'[j] = log[j]
                                   \/ log'[j].name = name /\ log'[j].param = param
         /\ \A k \in Unread' :
              \/ k \in Unread /\ Sent(k)' = Sent(k)
              \/ /\ k = Len(queued) + 1
                 /\ name = "PARAM_REPORT" /\ Sent(k)'.param = param
<1>1. /\ log' \in Seq(Packet) /\ Len(log') = Len(log) + 1
      /\ \A j \in 1 .. Len(log) : log'[j] = log[j]
      /\ log'[Len(log) + 1].name = name /\ log'[Len(log) + 1].param = param
  <2>1. TypeInv
    BY DEF StreamInv
  <2>2. /\ log' \in Seq(Packet) /\ Len(log') = Len(log) + 1
        /\ log'[Len(log) + 1].name = name /\ log'[Len(log) + 1].param = param
    BY <2>1, EmitEffect, Zenon
  <2>3. \A j \in 1 .. Len(log) : log'[j] = log[j]
    BY <2>1, EmitEffect, Zenon
  <2> QED
    BY <2>2, <2>3
<1>2. queued' = queued \/ queued' = Append(queued, Len(log) + 1)
  BY DEF Emit
<1>3. /\ DOMAIN log = 1 .. Len(log) /\ DOMAIN log' = 1 .. Len(log) + 1 /\ Len(log) \in Nat
      /\ queued \in Seq(Nat) /\ Len(queued) \in Nat /\ Len(yielded) \in Nat
  BY <1>1 DEF StreamInv, TypeInv
<1>4. UNCHANGED <<answers, client, yielded>>
  BY DEF Emit, ground
<1>5. ASSUME NEW j \in DOMAIN log'
      PROVE  \/ j \in DOMAIN log /\ log'[j] = log[j]
             \/ log'[j].name = name /\ log'[j].param = param
  <2>1. j \in 1 .. Len(log) \/ j = Len(log) + 1
    BY <1>3
  <2> QED
    BY <1>1, <1>3, <2>1
<1>6. \A k \in 1 .. Len(queued) : queued[k] \in 1 .. Len(log) /\ log'[queued[k]] = log[queued[k]]
  BY <1>1, QueuedStay DEF StreamInv
<1>7. ASSUME NEW k \in Unread'
      PROVE  \/ k \in Unread /\ Sent(k)' = Sent(k)
             \/ /\ k = Len(queued) + 1
                /\ name = "PARAM_REPORT" /\ Sent(k)'.param = param
  <2>1. k \in Len(yielded') + 1 .. Len(queued') /\ log'[queued'[k]].name = "PARAM_REPORT"
    BY <1>7 DEF Unread, Sent
  <2>2. CASE k \in 1 .. Len(queued)
    <3>1. queued'[k] = queued[k]
      <4>1. PICK m \in Nat : m = Len(log) + 1
        BY <1>3
      <4>2. Append(queued, m)[k] = queued[k]
        BY <1>3, <2>2
      <4> QED
        BY <1>2, <4>1, <4>2
    <3>2. Sent(k)' = Sent(k)
      BY <1>6, <2>2, <3>1 DEF Sent
    <3>3. k \in Len(yielded) + 1 .. Len(queued) /\ Sent(k).name = "PARAM_REPORT"
      BY <1>3, <1>4, <1>6, <2>1, <2>2, <3>1 DEF Sent
    <3> QED
      BY <3>2, <3>3 DEF Unread
  <2>3. CASE k \notin 1 .. Len(queued)
    <3>1. queued' = Append(queued, Len(log) + 1) /\ k = Len(queued) + 1
      <4>1. Len(queued') \in {Len(queued), Len(queued) + 1}
        BY <1>3, <1>2
      <4>2. k >= 1 /\ k <= Len(queued')
        BY <1>3, <1>4, <2>1
      <4>3. k \in Nat /\ k = Len(queued) + 1
        BY <1>3, <1>4, <2>1, <2>3, <4>1, <4>2
      <4>4. queued' # queued
        BY <1>3, <4>2, <4>3
      <4> QED
        BY <1>2, <4>3, <4>4
    <3>2. queued'[k] = Len(log) + 1
      BY <1>3, <3>1
    <3> QED
      BY <1>1, <2>1, <3>1, <3>2 DEF Sent
  <2> QED
    BY <2>2, <2>3
<1> QED
  BY <1>4, <1>5, <1>7

LEMMA OtherKeepsAsked ==
  ASSUME StreamInv, AskedInv, OneInv, OtherTelemetry
  PROVE  AskedInv' /\ OneInv'
<1>1. PICK apid \in Apids, payload \in Payloads : Emit("OTHER", Nothing, apid, payload)
  BY DEF OtherTelemetry
<1>2. "OTHER" \in Names /\ Nothing \in Int
  BY DEF Names, Nothing
<1>3. /\ UNCHANGED <<answers, client>>
      /\ \A j \in DOMAIN log' : \/ j \in DOMAIN log /\ log'[j] = log[j]
                                \/ log'[j].name = "OTHER" /\ log'[j].param = Nothing
      /\ \A k \in Unread' :
           \/ k \in Unread /\ Sent(k)' = Sent(k)
           \/ /\ k = Len(queued) + 1
              /\ "OTHER" = "PARAM_REPORT" /\ Sent(k)'.param = Nothing
  BY <1>1, <1>2, EmitUnread
<1>4. uplink' = uplink
  BY DEF OtherTelemetry
<1>5. \A k \in Unread' : k \in Unread /\ Sent(k)' = Sent(k)
  BY <1>3
<1>6. AskedInv'
  BY <1>3, <1>4 DEF AskedInv, Asked
<1>7. OneInv'
  BY <1>3, <1>4, <1>5 DEF OneInv, NoneLate
<1> QED
  BY <1>6, <1>7
LEMMA ReportKeepsAsked ==
  ASSUME StreamInv, AskedInv, OneInv, ReportParam
  PROVE  AskedInv' /\ OneInv'
<1>1. PICK apid \in Apids : Emit("PARAM_REPORT", Head(uplink), apid, ReportPayload)
  BY DEF ReportParam
<1>2. uplink \in Seq(Nat) /\ uplink # <<>> /\ uplink' = Tail(uplink)
  BY DEF ReportParam, AskedInv
<1>3. PICK h \in Nat : h = Head(uplink)
  BY <1>2
<1>4. /\ "PARAM_REPORT" \in Names /\ h \in Int
      /\ ReportPayload \in Payloads \cup {ReportPayload}
      /\ Emit("PARAM_REPORT", h, apid, ReportPayload)
  BY <1>1, <1>3 DEF Names
<1>5. /\ UNCHANGED <<answers, client>>
      /\ \A j \in DOMAIN log' : \/ j \in DOMAIN log /\ log'[j] = log[j]
                                \/ log'[j].name = "PARAM_REPORT" /\ log'[j].param = h
      /\ \A k \in Unread' :
           \/ k \in Unread /\ Sent(k)' = Sent(k)
           \/ k = Len(queued) + 1 /\ Sent(k)'.param = h
  BY <1>4, EmitUnread
<1>6. 1 \in DOMAIN uplink /\ h = uplink[1]
  BY <1>2, <1>3
<1>7. /\ uplink' \in Seq(Nat) /\ Len(uplink') = Len(uplink) - 1
      /\ \A i \in DOMAIN uplink' : i + 1 \in DOMAIN uplink /\ uplink'[i] = uplink[i + 1]
  BY <1>2
<1>8. AskedInv'
  <2>1. h \in 1 .. Asked
    BY <1>6 DEF AskedInv
  <2>2. Asked' = Asked
    BY <1>5 DEF Asked
  <2>3. \A i \in DOMAIN uplink' : uplink'[i] \in 1 .. Asked
    BY <1>7 DEF AskedInv
  <2>4. \A j \in DOMAIN log' : log'[j].name = "PARAM_REPORT" => log'[j].param \in 1 .. Asked
    BY <1>5, <2>1 DEF AskedInv
  <2> QED
    BY <1>7, <2>2, <2>3, <2>4 DEF AskedInv
<1>9. ASSUME NoneLate'
      PROVE  /\ uplink' = <<>> /\ client \notin {"ready", "done"}
             /\ \A k \in Unread' : k = Len(queued) + 1 /\ Sent(k)'.param = Len(answers) + 1
  <2>1. NoneLate
    BY <1>5, <1>9 DEF NoneLate
  <2>2. Len(uplink) = 1 /\ h = Len(answers) + 1
    <3>1. /\ \A i \in DOMAIN uplink : i = 1 /\ uplink[i] = Len(answers) + 1
      BY <2>1 DEF OneInv
    <3>2. Len(uplink) \in DOMAIN uplink
      BY <1>2
    <3> QED
      BY <1>6, <3>1, <3>2
  <2>3. uplink' = <<>>
    BY <1>7, <2>2
  <2>4. client \notin {"ready", "done"} /\ \A k \in Unread : FALSE
    BY <1>2, <2>1 DEF OneInv
  <2> QED
    BY <1>5, <2>2, <2>3, <2>4
<1>10. OneInv'
  <2>1. ASSUME NoneLate'
        PROVE  /\ \A i \in DOMAIN uplink' : i = 1 /\ uplink'[i] = Len(answers') + 1
               /\ \A k \in Unread' : Sent(k)'.param = Len(answers') + 1 /\ uplink' = <<>>
               /\ \A k, m \in Unread' : k = m
               /\ client' \notin {"ready", "done"}
    <3>1. /\ uplink' = <<>> /\ client \notin {"ready", "done"}
          /\ \A k \in Unread' : k = Len(queued) + 1 /\ Sent(k)'.param = Len(answers) + 1
      BY <1>9, <2>1
    <3>2. \A i \in DOMAIN uplink' : FALSE
      BY <3>1
    <3> QED
      BY <1>5, <3>1, <3>2
  <2> QED
    BY <2>1 DEF OneInv
<1> QED
  BY <1>8, <1>10
LEMMA TakeKeepsAsked ==
  ASSUME StreamInv, AskedInv, OneInv, AnswersMatchUntilATimeout, TakePacket
  PROVE  AskedInv' /\ OneInv' /\ AnswersMatchUntilATimeout'
<1>1. PICK y \in Nat, q \in Nat, n \in Nat : y = Len(yielded) /\ q = Len(queued) /\ n = Len(answers)
  BY DEF StreamInv, TypeInv
<1>2. answers \in Seq(Int) /\ DOMAIN answers = 1 .. n /\ DOMAIN queued = 1 .. q
  BY <1>1 DEF StreamInv, TypeInv
<1>3. PICK p : p = Sent(y + 1)
  OBVIOUS
<1>4. /\ y + 1 \in DOMAIN queued /\ yielded' = Append(yielded, AsBuilt(p))
      /\ \/ /\ p.name = "PARAM_REPORT"
            /\ client' = "ready" /\ answers' = Append(answers, p.param)
         \/ p.name # "PARAM_REPORT" /\ UNCHANGED <<client, answers>>
  BY <1>1, <1>3, TakeEffect
<1>5. client = "waiting" /\ UNCHANGED <<log, queued, uplink>>
  BY DEF TakePacket, craft
<1>6. Len(yielded') = y + 1
  BY <1>1, TakeKeepsStream
<1>7. Asked = n + 1
  BY <1>1, <1>5 DEF Asked
<1>8. \A k \in Unread' : k \in Unread /\ k # y + 1 /\ Sent(k)' = Sent(k)
  BY <1>1, <1>5, <1>6 DEF Unread, Sent
<1>9. CASE p.name # "PARAM_REPORT" /\ UNCHANGED <<client, answers>>
  <2>1. AskedInv'
    BY <1>5, <1>9 DEF AskedInv, Asked
  <2>2. OneInv'
    BY <1>5, <1>8, <1>9 DEF OneInv, NoneLate
  <2>3. AnswersMatchUntilATimeout'
    BY <1>9 DEF AnswersMatchUntilATimeout
  <2> QED
    BY <2>1, <2>2, <2>3
<1>10. CASE /\ p.name = "PARAM_REPORT"
            /\ client' = "ready" /\ answers' = Append(answers, p.param)
  <2>1. y + 1 \in Unread
    BY <1>1, <1>2, <1>3, <1>4, <1>10 DEF Unread
  <2>2. PICK v \in 1 .. n + 1 : v = p.param
    <3>1. queued[y + 1] \in DOMAIN log
      BY <1>4 DEF StreamInv, QueueInv
    <3>2. p.param \in 1 .. n + 1
      BY <1>3, <1>7, <1>10, <3>1 DEF AskedInv, Sent
    <3> QED
      BY <3>2, Zenon
  <2>3. /\ answers' \in Seq(Int) /\ Len(answers') = n + 1 /\ DOMAIN answers' = 1 .. n + 1
        /\ \A k \in 1 .. n : answers'[k] = answers[k]
        /\ answers'[n + 1] = v
    BY <1>1, <1>2, <1>10, <2>2
  <2>4. AskedInv'
    <3>1. Asked' = Asked
      BY <1>7, <1>10, <2>3 DEF Asked
    <3> QED
      BY <1>5, <3>1 DEF AskedInv
  <2>5. ASSUME NoneLate PROVE v = n + 1 /\ uplink = <<>> /\ \A k \in Unread : k = y + 1
    BY <1>1, <1>3, <2>1, <2>2, <2>5 DEF OneInv
  <2>6. ASSUME NoneLate' PROVE NoneLate
    BY <1>2, <2>3, <2>6 DEF NoneLate
  <2>7. OneInv'
    <3>1. ASSUME NoneLate' PROVE uplink' = <<>> /\ Unread' = {}
      BY <1>5, <1>8, <2>5, <2>6, <3>1
    <3>2. \A i \in DOMAIN <<>> : FALSE
      OBVIOUS
    <3> QED
      BY <3>1, <3>2 DEF OneInv
  <2>8. AnswersMatchUntilATimeout'
    <3>1. \A k \in 1 .. n : /\ answers[k] \in 0 .. k
                            /\ (\A j \in 1 .. k - 1 : answers[j] # None) => answers[k] \in {None, k}
      BY <1>2 DEF AnswersMatchUntilATimeout
    <3>2. ASSUME NEW k \in 1 .. n + 1
          PROVE  /\ answers'[k] \in 0 .. k
                 /\ (\A j \in 1 .. k - 1 : answers'[j] # None) => answers'[k] \in {None, k}
      <4>1. \A j \in 1 .. k - 1 : j \in 1 .. n /\ answers'[j] = answers[j]
        BY <2>3
      <4>2. CASE k = n + 1
        <5>1. answers'[k] = v /\ v \in 0 .. k
          BY <2>3, <4>2
        <5>2. ASSUME \A j \in 1 .. k - 1 : answers'[j] # None PROVE v = k
          <6>1. \A j \in DOMAIN answers : j \in 1 .. k - 1
            BY <1>2, <4>2
          <6>2. NoneLate
            BY <4>1, <5>2, <6>1 DEF NoneLate
          <6> QED
            BY <2>5, <4>2, <6>2
        <5> QED
          BY <5>1, <5>2
      <4>3. CASE k # n + 1
        <5>1. k \in 1 .. n /\ answers'[k] = answers[k]
          BY <2>3, <4>3
        <5> QED
          BY <3>1, <4>1, <5>1
      <4> QED
        BY <4>2, <4>3
    <3> QED
      BY <2>3, <3>2 DEF AnswersMatchUntilATimeout
  <2> QED
    BY <2>4, <2>7, <2>8
<1> QED
  BY <1>4, <1>9, <1>10
LEMMA QuietKeepsAsked ==
  ASSUME StreamInv, AskedInv, OneInv, AnswersMatchUntilATimeout,
         Ask \/ Receive \/ GiveUp \/ Finish \/ CloseLink \/ LinkReset
  PROVE  AskedInv' /\ OneInv' /\ AnswersMatchUntilATimeout'
<1>1. UNCHANGED <<log, queued, yielded>>
  BY QuietSteps DEF Quiet
<1>2. Unread' = Unread /\ \A k \in Unread : Sent(k)' = Sent(k)
  BY <1>1 DEF Unread, Sent
<1>3. PICK n \in Nat : n = Len(answers)
  BY DEF StreamInv, TypeInv
<1>4. answers \in Seq(Int) /\ DOMAIN answers = 1 .. n
  BY <1>3 DEF StreamInv, TypeInv
<1>5. uplink \in Seq(Nat) /\ \A i \in DOMAIN uplink : uplink[i] \in 1 .. Asked
  BY DEF AskedInv
<1>6. \/ /\ client = "ready" /\ client' \in {"waiting", "failed"} /\ UNCHANGED answers
         /\ uplink' \in {uplink, Append(uplink, n + 1)}
      \/ client = "ready" /\ client' = "done" /\ UNCHANGED <<answers, uplink>>
      \/ client = "waiting" /\ client' = "failed" /\ UNCHANGED <<answers, uplink>>
      \/ /\ client = "waiting" /\ client' = "ready" /\ answers' = Append(answers, None)
         /\ UNCHANGED uplink
      \/ UNCHANGED <<client, answers, uplink>>
  BY <1>3, QuietSteps
<1>7. CASE /\ client = "ready" /\ client' \in {"waiting", "failed"} /\ UNCHANGED answers
           /\ uplink' \in {uplink, Append(uplink, n + 1)}
  <2>1. Asked = n /\ Asked' = n + 1
    BY <1>3, <1>7 DEF Asked
  <2>2. PICK u \in Nat : u = Len(uplink)
    BY <1>5
  <2>3. DOMAIN uplink = 1 .. u
    BY <1>5, <2>2
  <2>4. CASE uplink' = uplink
    <3>1. AskedInv'
      BY <1>1, <1>5, <2>1, <2>4 DEF AskedInv
    <3>2. OneInv'
      BY <1>2, <1>7, <2>4 DEF OneInv, NoneLate
    <3> QED
      BY <1>7, <3>1, <3>2 DEF AnswersMatchUntilATimeout
  <2>5. CASE uplink' = Append(uplink, n + 1)
    <3>1. PICK m \in Nat : m = n + 1
      OBVIOUS
    <3>2. /\ uplink' \in Seq(Nat) /\ DOMAIN uplink' = 1 .. u + 1
          /\ \A i \in 1 .. u : uplink'[i] = uplink[i]
          /\ uplink'[u + 1] = m
      BY <1>5, <2>2, <2>5, <3>1
    <3>3. ASSUME NEW i \in 1 .. u + 1 PROVE uplink'[i] \in 1 .. m
      <4>1. CASE i = u + 1
        BY <3>1, <3>2, <4>1
      <4>2. CASE i # u + 1
        <5>1. i \in 1 .. u
          BY <4>2
        <5>2. uplink[i] \in 1 .. n
          BY <1>5, <2>1, <2>3, <5>1
        <5> QED
          BY <3>1, <3>2, <5>1, <5>2
      <4> QED
        BY <4>1, <4>2
    <3>4. \A j \in DOMAIN log : log[j].name = "PARAM_REPORT" => log[j].param \in 1 .. n
      BY <2>1 DEF AskedInv
    <3>5. AskedInv'
      BY <1>1, <2>1, <3>1, <3>2, <3>3, <3>4 DEF AskedInv
    <3>6. ASSUME NoneLate' PROVE u = 0 /\ Unread' = {}
      <4>1. NoneLate
        BY <1>7, <3>6 DEF NoneLate
      <4>2. uplink = <<>> /\ Unread = {}
        BY <1>7, <4>1 DEF OneInv
      <4> QED
        BY <1>2, <2>2, <4>2
    <3>7. ASSUME NoneLate', NEW i \in DOMAIN uplink' PROVE i = 1 /\ uplink'[i] = Len(answers') + 1
      BY <1>3, <1>7, <3>1, <3>2, <3>6, <3>7
    <3>8. OneInv'
      BY <1>7, <3>6, <3>7 DEF OneInv
    <3> QED
      BY <1>7, <3>5, <3>8 DEF AnswersMatchUntilATimeout
  <2> QED
    BY <1>7, <2>4, <2>5
<1>8. CASE client = "ready" /\ client' = "done" /\ UNCHANGED <<answers, uplink>>
  BY <1>1, <1>2, <1>8 DEF AskedInv, Asked, OneInv, NoneLate, AnswersMatchUntilATimeout
<1>9. CASE client = "waiting" /\ client' = "failed" /\ UNCHANGED <<answers, uplink>>
  BY <1>1, <1>2, <1>9 DEF AskedInv, Asked, OneInv, NoneLate, AnswersMatchUntilATimeout
<1>10. CASE /\ client = "waiting" /\ client' = "ready" /\ answers' = Append(answers, None)
            /\ UNCHANGED uplink
  <2>1. None \in Int /\ None = 0
    BY DEF None
  <2>2. /\ Len(answers') = n + 1 /\ DOMAIN answers' = 1 .. n + 1
        /\ \A k \in 1 .. n : answers'[k] = answers[k]
        /\ answers'[n + 1] = None
    BY <1>3, <1>4, <1>10, <2>1
  <2>3. AskedInv'
    <3>1. Asked' = Asked
      BY <1>3, <1>10, <2>2 DEF Asked
    <3> QED
      BY <1>1, <1>10, <3>1 DEF AskedInv
  <2>4. ~ NoneLate'
    <3>1. n + 1 \in DOMAIN answers'
      BY <2>2
    <3> QED
      BY <2>2, <3>1 DEF NoneLate
  <2>5. OneInv'
    BY <2>4 DEF OneInv
  <2>6. AnswersMatchUntilATimeout'
    <3>1. \A k \in 1 .. n : /\ answers[k] \in 0 .. k
                            /\ (\A j \in 1 .. k - 1 : answers[j] # None) => answers[k] \in {None, k}
      BY <1>4 DEF AnswersMatchUntilATimeout
    <3>2. ASSUME NEW k \in 1 .. n + 1
          PROVE  /\ answers'[k] \in 0 .. k
                 /\ (\A j \in 1 .. k - 1 : answers'[j] # None) => answers'[k] \in {None, k}
      <4>1. \A j \in 1 .. k - 1 : j \in 1 .. n /\ answers'[j] = answers[j]
        BY <2>2
      <4>2. CASE k = n + 1
        BY <2>1, <2>2, <4>2
      <4>3. CASE k # n + 1
        <5>1. k \in 1 .. n /\ answers'[k] = answers[k]
          BY <2>2, <4>3
        <5> QED
          BY <3>1, <4>1, <5>1
      <4> QED
        BY <4>2, <4>3
    <3> QED
      BY <2>2, <3>2 DEF AnswersMatchUntilATimeout
  <2> QED
    BY <2>3, <2>5, <2>6
<1>11. CASE UNCHANGED <<client, answers, uplink>>
  BY <1>1, <1>2, <1>11 DEF AskedInv, Asked, OneInv, NoneLate, AnswersMatchUntilATimeout
<1> QED
  BY <1>6, <1>7, <1>8, <1>9, <1>10, <1>11

-----------------------------------------------------------------------------
LEMMA InitInv == GroundInit => GroundInv
<1> SUFFICES ASSUME GroundInit PROVE GroundInv
  OBVIOUS
<1>1. <<>> \in Seq(Packet) /\ <<>> \in Seq(Nat) /\ <<>> \in Seq(Nat \X Nat)
      /\ <<>> \in Seq(Shown) /\ <<>> \in Seq(Int)
  OBVIOUS
<1>2. Len(<<>>) = 0 /\ DOMAIN <<>> = {}
  OBVIOUS
<1>3. count \in Nat /\ count <= 16383
  <2>1. \A s \in Starts : s \in Nat /\ s <= 16383
    BY GroundAssumption
  <2>2. count \in Starts
    BY DEF GroundInit
  <2> QED
    BY <2>1, <2>2
<1>4. TypeInv
  BY <1>1, <1>3 DEF GroundInit, TypeInv
<1>5. QueueInv /\ FramedExactly
  BY <1>2 DEF GroundInit, QueueInv, FramedExactly
<1>6. FramingInv
  <2>1. [k \in {1} |-> 0] \in [1 .. 0 + 1 -> Nat]
    OBVIOUS
  <2>2. \A k \in 1 .. 0 + 1 : k = 1
    OBVIOUS
  <2>3. Cuts([k \in {1} |-> 0])
    BY <1>2, <2>1, <2>2 DEF GroundInit, Cuts
  <2> QED
    BY <1>2, <2>1, <2>3 DEF GroundInit, FramingInv
<1>7. AskedInv
  BY <1>1, <1>2 DEF GroundInit, AskedInv
<1>8. OneInv
  <2>1. Unread = {}
    BY <1>2 DEF GroundInit, Unread
  <2> QED
    BY <1>2, <2>1 DEF GroundInit, OneInv
<1>9. AnswersMatchUntilATimeout
  BY <1>2 DEF GroundInit, AnswersMatchUntilATimeout
<1> QED
  BY <1>4, <1>5, <1>6, <1>7, <1>8, <1>9 DEF GroundInv, StreamInv

LEMMA Step == GroundInv /\ [GroundNext]_groundVars => GroundInv'
<1> SUFFICES ASSUME GroundInv, [GroundNext]_groundVars PROVE GroundInv'
  OBVIOUS
<1> USE DEF GroundInv
<1>1. StreamInv'
  BY StreamInductive DEF AskedInv
<1>2. CASE ReportParam
  <2>1. answers' = answers
    BY <1>2 DEF ReportParam, Emit, ground
  <2> QED
    BY <1>1, <1>2, <2>1, ReportKeepsAsked DEF AnswersMatchUntilATimeout
<1>3. CASE OtherTelemetry
  <2>1. answers' = answers
    BY <1>3 DEF OtherTelemetry, Emit, ground
  <2> QED
    BY <1>1, <1>3, <2>1, OtherKeepsAsked DEF AnswersMatchUntilATimeout
<1>4. CASE TakePacket
  BY <1>1, <1>4, TakeKeepsAsked
<1>5. CASE Ask \/ Receive \/ GiveUp \/ Finish \/ CloseLink \/ LinkReset
  BY <1>1, <1>5, QuietKeepsAsked
<1>6. CASE UNCHANGED groundVars
  <2>1. UNCHANGED <<log, queued, yielded, client, answers, uplink>>
    BY <1>6 DEF groundVars, craft, ground
  <2>2. AskedInv'
    BY <2>1 DEF AskedInv, Asked
  <2>3. Unread' = Unread /\ \A k \in Unread : Sent(k)' = Sent(k)
    BY <2>1 DEF Unread, Sent
  <2>4. OneInv'
    BY <2>1, <2>3 DEF OneInv, NoneLate
  <2> QED
    BY <1>1, <2>1, <2>2, <2>4 DEF AnswersMatchUntilATimeout
<1> QED
  BY <1>2, <1>3, <1>4, <1>5, <1>6 DEF GroundNext, Client

\* The invariant of the ground's session holds throughout: _rx always begins at a
\* packet, and before a wait times out one request at most is on its way.
THEOREM Inductive == GroundSpec => []GroundInv
  BY InitInv, Step, PTL DEF GroundSpec

\* However the stream is cut up, whichever packets the link refused, and wherever a
\* wait ended in the middle of one: _drain and parse_tm yield exactly the packets
\* that finish() built and the link took, in order, with the headers they were
\* built with, for every size that fits and through the wrap of the sequence count.
THEOREM FramesAreExact == GroundSpec => []FramedExactly
<1>1. GroundInv => FramedExactly
  BY DEF GroundInv, StreamInv
<1> QED
  BY <1>1, Inductive, PTL

\* For any number of parameters, cmd_params shows a value against the parameter it
\* was read from until a wait_for has timed out, and after that never one that was
\* not asked for yet.
THEOREM AnswersMatch == GroundSpec => []AnswersMatchUntilATimeout
<1>1. GroundInv => AnswersMatchUntilATimeout
  BY DEF GroundInv
<1> QED
  BY <1>1, Inductive, PTL

-----------------------------------------------------------------------------
\* The first two words of a header, taken apart: bit fields do not overlap.
LEMMA FirstWord ==
  ASSUME NEW v \in Nat, v < 8, NEW t \in Nat, t < 2, NEW s \in Nat, s < 2,
         NEW a \in Nat, a < 2048, NEW w, w = (v * 8192) + (t * 4096) + (s * 2048) + a
  PROVE  /\ w \in Nat /\ w < 65536 /\ (w \div 8192) % 8 = v /\ (w \div 4096) % 2 = t
         /\ (w \div 2048) % 2 = s /\ w % 2048 = a
<1>1. w \in Nat /\ w < 65536
  OBVIOUS
<1>2. w \div 8192 = v /\ w \div 4096 = (2 * v) + t /\ w \div 2048 = (4 * v) + (2 * t) + s
  OBVIOUS
<1>3. v % 8 = v /\ ((2 * v) + t) % 2 = t /\ ((4 * v) + (2 * t) + s) % 2 = s
  OBVIOUS
<1>4. w % 2048 = a
  OBVIOUS
<1> QED
  BY <1>1, <1>2, <1>3, <1>4

LEMMA SecondWord ==
  ASSUME NEW f \in Nat, f < 4, NEW c \in Nat, c < 16384, NEW w, w = (f * 16384) + c
  PROVE  w \in Nat /\ w < 65536 /\ (w \div 16384) % 4 = f /\ w % 16384 = c
OBVIOUS

\* SpacePacketHeader::decode reads back every header that encode can be given, and
\* the words it is written in fit their 16 bits.
THEOREM HeadersReadBack ==
  \A h \in Header :
    /\ Decode(Encode(h)) = h
    /\ \A i \in 1 .. 3 : Encode(h)[i] \in Nat /\ Encode(h)[i] < 65536
<1> SUFFICES ASSUME NEW h \in Header
             PROVE  /\ Decode(Encode(h)) = h
                    /\ \A i \in 1 .. 3 : Encode(h)[i] \in Nat /\ Encode(h)[i] < 65536
  OBVIOUS
<1>1. /\ h = [version |-> h.version, type |-> h.type, secondary_hdr |-> h.secondary_hdr,
              apid |-> h.apid, sequence_flags |-> h.sequence_flags,
              sequence_count |-> h.sequence_count, data_length |-> h.data_length]
      /\ h.version \in Nat /\ h.type \in Nat /\ h.secondary_hdr \in Nat /\ h.apid \in Nat
      /\ h.sequence_flags \in Nat /\ h.sequence_count \in Nat /\ h.data_length \in Nat
  <2>1. h \in [version : Nat, type : Nat, secondary_hdr : Nat, apid : Nat,
                sequence_flags : Nat, sequence_count : Nat, data_length : Nat]
    BY DEF Header
  <2> QED
    BY <2>1
<1>2. /\ h.version < 8 /\ h.type < 2 /\ h.secondary_hdr < 2 /\ h.apid < 2048
      /\ h.sequence_flags < 4 /\ h.sequence_count < 16384 /\ h.data_length < 65536
  BY DEF Header
<1>3. PICK v : v = h.version /\ v \in Nat /\ v < 8
  BY <1>1, <1>2
<1>4. PICK t : t = h.type /\ t \in Nat /\ t < 2
  BY <1>1, <1>2
<1>5. PICK s : s = h.secondary_hdr /\ s \in Nat /\ s < 2
  BY <1>1, <1>2
<1>6. PICK a : a = h.apid /\ a \in Nat /\ a < 2048
  BY <1>1, <1>2
<1>7. PICK f : f = h.sequence_flags /\ f \in Nat /\ f < 4
  BY <1>1, <1>2
<1>8. PICK c : c = h.sequence_count /\ c \in Nat /\ c < 16384
  BY <1>1, <1>2
<1>9. PICK n : n = h.data_length /\ n \in Nat /\ n < 65536
  BY <1>1, <1>2
<1>10. PICK w1 : w1 = (v * 8192) + (t * 4096) + (s * 2048) + a
  OBVIOUS
<1>11. PICK w2 : w2 = (f * 16384) + c
  OBVIOUS
<1>12. v % 8 = v /\ a % 2048 = a /\ f % 4 = f /\ c % 16384 = c
  BY <1>3, <1>6, <1>7, <1>8
<1>13. Encode(h) = <<w1, w2, n>>
  BY <1>3, <1>4, <1>5, <1>6, <1>7, <1>8, <1>9, <1>10, <1>11, <1>12
     DEF Encode, ApidMask, SeqCountMask
<1>14. /\ w1 \in Nat /\ w1 < 65536 /\ (w1 \div 8192) % 8 = v /\ (w1 \div 4096) % 2 = t
       /\ (w1 \div 2048) % 2 = s /\ w1 % 2048 = a
  <2>1. v \in Nat /\ v < 8 /\ t \in Nat /\ t < 2 /\ s \in Nat /\ s < 2 /\ a \in Nat /\ a < 2048
    BY <1>3, <1>4, <1>5, <1>6
  <2> QED
    BY <2>1, <1>10, FirstWord
<1>15. w2 \in Nat /\ w2 < 65536 /\ (w2 \div 16384) % 4 = f /\ w2 % 16384 = c
  <2>1. f \in Nat /\ f < 4 /\ c \in Nat /\ c < 16384
    BY <1>7, <1>8
  <2> QED
    BY <2>1, <1>11, SecondWord
<1>16. Decode(<<w1, w2, n>>) = [version |-> v, type |-> t, secondary_hdr |-> s, apid |-> a,
                               sequence_flags |-> f, sequence_count |-> c, data_length |-> n]
  BY <1>14, <1>15 DEF Decode, ApidMask, SeqCountMask
<1>17. Decode(<<w1, w2, n>>) = h
  BY <1>1, <1>3, <1>4, <1>5, <1>6, <1>7, <1>8, <1>9, <1>16
<1>18. \A i \in 1 .. 3 : <<w1, w2, n>>[i] \in Nat /\ <<w1, w2, n>>[i] < 65536
  BY <1>9, <1>14, <1>15
<1> QED
  BY <1>13, <1>17, <1>18

\* The receiver's 16-bit sum and the ground's sum without a width frame a packet
\* alike, for every length field but the largest, which the receiver takes for a
\* packet of a header alone (data_field_bytes and total_size, _drain).
THEOREM SizesAgreeButOnce ==
  \A length \in Nat : length < 65536 =>
    TotalSize(length) = IF length = 65535 THEN kHeaderBytes ELSE GroundTotal(length)
BY DEF TotalSize, DataFieldBytes, GroundTotal, kHeaderBytes
=============================================================================
