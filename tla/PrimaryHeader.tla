---------------------------- MODULE PrimaryHeader ----------------------------
(***************************************************************************)
(* The CCSDS primary header as three 16-bit words: how SpacePacketHeader   *)
(* writes and reads it, and the size the receiver frames a packet by.      *)
(***************************************************************************)
EXTENDS Integers

kHeaderBytes  == 6
kCrcBytes     == 2
kMaxPacket    == 1024
Telemetry     == 0
Telecommand   == 1
kUnsegmented  == 3
ApidMask(n) == n % 2048

SeqCountMask(n) == n % 16384

\* A header whose fields fit the bits they have on the wire.
Header ==
  {h \in [version : Nat, type : Nat, secondary_hdr : Nat, apid : Nat,
          sequence_flags : Nat, sequence_count : Nat, data_length : Nat] :
     /\ h.version < 8 /\ h.type < 2 /\ h.secondary_hdr < 2 /\ h.apid < 2048
     /\ h.sequence_flags < 4 /\ h.sequence_count < 16384 /\ h.data_length < 65536}

\* SpacePacketHeader::encode, a field to a bit range.
Encode(h) ==
  <<(h.version % 8) * 8192 + h.type * 4096 + h.secondary_hdr * 2048 + ApidMask(h.apid),
    (h.sequence_flags % 4) * 16384 + SeqCountMask(h.sequence_count),
    h.data_length>>

\* SpacePacketHeader::decode.
Decode(w) ==
  [version |-> (w[1] \div 8192) % 8, type |-> (w[1] \div 4096) % 2,
   secondary_hdr |-> (w[1] \div 2048) % 2, apid |-> ApidMask(w[1]),
   sequence_flags |-> (w[2] \div 16384) % 4, sequence_count |-> SeqCountMask(w[2]),
   data_length |-> w[3]]

\* Mutant of DataFieldBytes: the field holds the octets, not one less.
DataFieldIsLength(length) == length

\* data_field_bytes() returns a uint16_t.
DataFieldBytes(length) == (length + 1) % 65536
TotalSize(length)      == kHeaderBytes + DataFieldBytes(length)
=============================================================================
