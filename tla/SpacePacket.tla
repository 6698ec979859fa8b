----------------------------- MODULE SpacePacket -----------------------------
(***************************************************************************)
(* TmBuilder as far as the size and the primary header of a packet go: the *)
(* sequence counter of an application process, the length field and the    *)
(* limit of the scratch buffer.                                            *)
(***************************************************************************)
EXTENDS PrimaryHeader

CONSTANTS
  Apids,      \* application process identifiers, 11 bits
  Payloads    \* octets between the primary header and the CRC

ASSUME SpacePacketAssumption ==
  /\ Apids \subseteq 0 .. 2047
  /\ Payloads \subseteq Nat \ {0}

VARIABLES
  count,    \* count_ of the SequenceCounter
  sent,     \* the header of the last packet built
  words,    \* its first three words on the wire
  size      \* what finish() returned: its octets on the wire, CRC included

NoHeader == [version |-> 0, type |-> 0, secondary_hdr |-> 0, apid |-> 0,
             sequence_flags |-> 0, sequence_count |-> 0, data_length |-> 0]

\* A sequence count is taken in any case; finish() back-patches the length, and
\* gives 0 for a packet that does not fit the scratch buffer.
Build(apid, payload) ==
  LET h == [version |-> 0, type |-> Telemetry, secondary_hdr |-> 1, apid |-> apid,
            sequence_flags |-> kUnsegmented, sequence_count |-> count,
            data_length |-> payload + kCrcBytes - 1]
      fits == kHeaderBytes + payload + kCrcBytes <= kMaxPacket
  IN /\ count' = SeqCountMask(count + 1)
     /\ sent'  = IF fits THEN h ELSE NoHeader
     /\ words' = Encode(sent')
     /\ size'  = IF fits THEN kHeaderBytes + payload + kCrcBytes ELSE 0
=============================================================================
