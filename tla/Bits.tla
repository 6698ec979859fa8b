-------------------------------- MODULE Bits --------------------------------
(***************************************************************************)
(* The exclusive or, by weights of bits: of two octets as a table, and of  *)
(* two numbers of up to 24 bits, octet by octet.                           *)
(***************************************************************************)
EXTENDS Integers

Octet == 0 .. 255
Word  == {n \in Nat : n < 65536}

\* The bit of that weight.
Bit(a, weight) == (a \div weight) % 2

XorOctet == [a \in Octet |-> [b \in Octet |->
  LET xor(weight) == weight * ((Bit(a, weight) + Bit(b, weight)) % 2)
  IN xor(1) + xor(2) + xor(4) + xor(8) + xor(16) + xor(32) + xor(64) + xor(128)]]

Xor(a, b) ==
  XorOctet[a \div 65536][b \div 65536] * 65536
  + XorOctet[(a \div 256) % 256][(b \div 256) % 256] * 256
  + XorOctet[a % 256][b % 256]
=============================================================================
