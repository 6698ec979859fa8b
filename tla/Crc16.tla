-------------------------------- MODULE Crc16 --------------------------------
(***************************************************************************)
(* crc16_update and crc16: polynomial 0x1021 and seed 0xFFFF, bit by bit.  *)
(* The eight shifts of an octet only move the low octet of the CRC up and  *)
(* depend on nothing but the high one, so they are tabulated.              *)
(***************************************************************************)
EXTENDS Bits, Sequences

kCrcPolynomial == 4129
kCrcSeed       == 65535

ShiftOnce(crc) ==
  IF crc >= 32768 THEN Xor((2 * crc) % 65536, kCrcPolynomial) ELSE 2 * crc

ShiftTwice(crc) == ShiftOnce(ShiftOnce(crc))

EightShifts == [high \in Octet |-> ShiftTwice(ShiftTwice(ShiftTwice(ShiftTwice(high * 256))))]

CrcUpdate(octet) == [crc \in Word |->
  LET shifted == EightShifts[XorOctet[crc \div 256][octet]]
  IN XorOctet[crc % 256][shifted \div 256] * 256 + (shifted % 256)]

\* The CRC after each octet.
Crcs(data) ==
  LET crc[n \in 0 .. Len(data)] ==
        IF n = 0 THEN kCrcSeed ELSE CrcUpdate(data[n])[crc[n - 1]]
  IN crc

Crc(data) == Crcs(data)[Len(data)]

\* Mutant of CrcCheck: whatever it comes out as.
CrcCheckOfAny(packet) == Len(packet) >= 2

CrcCheck(packet) == Len(packet) >= 2 /\ Crc(packet) = 0
=============================================================================
