--------------------------- MODULE FlightPackets ----------------------------
(***************************************************************************)
(* The flight software's side of the wire, octet by octet: TmBuilder with  *)
(* the source data of every telemetry packet, and the way of a telecommand *)
(* from the receive buffer through parse_tc and find_command to the        *)
(* argument block of its handler.                                          *)
(***************************************************************************)
EXTENDS PrimaryHeader, Octets, Crc16, Dictionary, CucTime

kPusVersion       == 2
kPusTcHeaderBytes == 5

Service == [Verification |-> 1, Housekeeping |-> 3, Event |-> 5, Function |-> 8,
            Test |-> 17, Parameter |-> 20]

PrimaryLayout == Fields("uint16", <<"word0", "word1", "data_length">>)

\* PusTmHeader and PusTcHeader: the version shares its octet with the time
\* status or the acknowledgement flags.
TmLayout ==
  Fields("uint8", <<"byte0", "service", "subtype">>)
  \o Fields("uint16", <<"message_count", "destination">>)
  \o <<<<"coarse", "uint32">>, <<"fine", "uint16">>>>
TcLayout == Fields("uint8", <<"byte0", "service", "subtype">>) \o <<<<"source_id", "uint16">>>>

-----------------------------------------------------------------------------
\* Telemetry.  A stamp is what every packet takes when it is begun: a sequence
\* count, a message count and the mission time in microseconds.

TmPrimary(apid, stamp) ==
  LET words == Encode([version |-> 0, type |-> Telemetry, secondary_hdr |-> 1, apid |-> apid,
                       sequence_flags |-> kUnsegmented, sequence_count |-> stamp.seq,
                       data_length |-> 0])
  IN [word0 |-> words[1], word1 |-> words[2], data_length |-> words[3]]

TmSecondary(service, subtype, stamp) ==
  [byte0 |-> kPusVersion * 16, service |-> service, subtype |-> subtype,
   message_count |-> stamp.count, destination |-> 0,
   coarse |-> LongWords(Coarse(stamp.us)), fine |-> Fine(stamp.us)]

Begin(apid, service, subtype, stamp) ==
  LET primary == WriteFields(Writer(kMaxPacket), PrimaryLayout, TmPrimary(apid, stamp))
  IN WriteFields(primary, TmLayout, TmSecondary(service, subtype, stamp))

\* Mutant of Finish: the length is patched in after the CRC is taken.
FinishPatchingLate(w) ==
  LET length == WordOctets(Len(w.data) - kHeaderBytes + kCrcBytes - 1)
      closed == WriteRaw(w, WordOctets(Crc(w.data)))
  IN IF w.ok /\ closed.ok THEN [closed.data EXCEPT ![5] = length[1], ![6] = length[2]] ELSE <<>>

\* The length is patched in before the CRC is taken; <<>> is finish()'s 0.
Finish(w) ==
  LET length  == WordOctets(Len(w.data) - kHeaderBytes + kCrcBytes - 1)
      patched == [w EXCEPT !.data = [@ EXCEPT ![5] = length[1], ![6] = length[2]]]
      closed  == WriteRaw(patched, WordOctets(Crc(patched.data)))
  IN IF w.ok /\ closed.ok THEN closed.data ELSE <<>>

Packet(apid, service, subtype, stamp, layout, values) ==
  Finish(WriteFields(Begin(apid, service, subtype, stamp), layout, values))

\* Mutant of Verification: it quotes its own sequence count.
VerificationOfItself(request, subtype, failure, stamp) ==
  Packet(Apid.TTC, Service.Verification, subtype, stamp,
         Fields("uint16", <<"req_apid", "req_seqcnt">> \o (IF subtype \in {2, 8} THEN <<"failure">> ELSE <<>>)),
         [req_apid |-> request.apid, req_seqcnt |-> stamp.seq, failure |-> FailureCode[failure]])

\* A report of failure, and no other, carries the reason.
Verification(request, subtype, failure, stamp) ==
  Packet(Apid.TTC, Service.Verification, subtype, stamp,
         Fields("uint16", <<"req_apid", "req_seqcnt">> \o (IF subtype \in {2, 8} THEN <<"failure">> ELSE <<>>)),
         [req_apid |-> request.apid, req_seqcnt |-> request.seq, failure |-> FailureCode[failure]])

TestReport(stamp) == Packet(Apid.TTC, Service.Test, 2, stamp, <<>>, <<>>)

ParamReport(param, value, stamp) ==
  Packet(Apid.TTC, Service.Parameter, 2, stamp,
         <<<<"param_id", "uint16">>, <<"value", "float64">>>>,
         [param_id |-> ParamId[param], value |-> value])

EventReport(event, aux, stamp) ==
  Packet(Apid.TTC, Service.Event, EventSeverity(event), stamp,
         <<<<"event_id", "uint16">>, <<"aux", "uint32">>>>,
         [event_id |-> EventId[event], aux |-> aux])

ApidOfHk == [SYS_HK |-> Apid.TTC, ADCS_HK |-> Apid.ADCS, EPS_HK |-> Apid.EPS]

HkReport(sid, values, stamp) ==
  Packet(ApidOfHk[sid], Service.Housekeeping, 25, stamp,
         <<<<"sid", "uint8">>>> \o HkLayout(sid), With(values, "sid", HkSid[sid]))

-----------------------------------------------------------------------------
\* Telecommands.

\* What became of one framed packet.  A verdict other than "Ok" is answered
\* with a verification report when the packet was parsed.
Refused(code) == [verdict |-> code, parsed |-> FALSE, name |-> "none", apid |-> 0, seq |-> 0,
                  acks |-> 0, args |-> <<>>]

\* handle_tc() up to its dispatch, and the fields its service handler reads.
HandleTc(primary, secondary, octets) ==
  LET info == FindCommand(secondary.service, secondary.subtype)
      tc   == [verdict |-> "Ok", parsed |-> TRUE, name |-> "none", apid |-> primary.apid,
               seq |-> primary.sequence_count, acks |-> secondary.byte0 % 16, args |-> <<>>]
      c    == CHOOSE c \in info : TRUE
      read == ReadFields(Reader(octets), ArgsLayout(c.name))
  IN IF info = {} THEN [tc EXCEPT !.verdict = "UnknownService"]
     ELSE IF Len(octets) # c.arg_bytes THEN [tc EXCEPT !.verdict = "BadLength"]
     ELSE [tc EXCEPT !.name = c.name, !.args = read.fields]

PrimaryOf(r) == Decode(<<r.fields.word0, r.fields.word1, r.fields.data_length>>)

\* Integrity first, then structure, then meaning.
ParseTc(data) ==
  LET minimum   == kHeaderBytes + kPusTcHeaderBytes + kCrcBytes
      header    == ReadFields(Reader(data), PrimaryLayout)
      primary   == PrimaryOf(header)
      secondary == ReadFields(header, TcLayout)
  IN IF Len(data) < minimum \/ Len(data) > kMaxPacket              THEN Refused("BadLength")
     ELSE IF ~CrcCheck(data)                                       THEN Refused("BadCrc")
     ELSE IF TotalSize(primary.data_length) # Len(data)            THEN Refused("BadLength")
     ELSE IF primary.type # Telecommand \/ primary.secondary_hdr = 0 THEN Refused("BadLength")
     ELSE IF secondary.fields.byte0 \div 16 # kPusVersion          THEN Refused("UnknownService")
     ELSE HandleTc(primary, secondary.fields,
                   SubSeq(data, minimum - kCrcBytes + 1, Len(data) - kCrcBytes))

\* One turn of drain_rx_buffer(): what the header in front claims, whether the
\* loop goes on with it, the outcome, and the octets it consumes.
ClaimedSize(buffer) ==
  TotalSize(PrimaryOf(ReadFields(Reader(SubSeq(buffer, 1, kHeaderBytes)), PrimaryLayout)).data_length)

Drainable(buffer) ==
  /\ Len(buffer) >= kHeaderBytes
  /\ ClaimedSize(buffer) > kMaxPacket \/ Len(buffer) >= ClaimedSize(buffer)

Outcome(buffer) ==
  IF ClaimedSize(buffer) > kMaxPacket THEN Refused("BadLength")
                                      ELSE ParseTc(SubSeq(buffer, 1, ClaimedSize(buffer)))
Consumed(buffer) == IF ClaimedSize(buffer) > kMaxPacket THEN 1 ELSE ClaimedSize(buffer)
=============================================================================
