---------------------------- MODULE PacketProofs ----------------------------
(***************************************************************************)
(* Theorems about the octets of a packet, for every packet: the two ends   *)
(* compute one CRC, it seals a packet in one way and misses no burst of up *)
(* to sixteen bits; the time code loses less than one unit; telemetry and  *)
(* telecommands are built with their fields where the dictionary has them, *)
(* and the two dictionaries are in step.                                   *)
(***************************************************************************)
EXTENDS Wire, NaturalsInduction, WellFoundedInduction, SequenceTheorems, TLAPS

-----------------------------------------------------------------------------
\* Octets and words.

\* The high and the low octet of a word.
Hi(c) == c \div 256
Lo(c) == c % 256

Weights == {1, 2, 4, 8, 16, 32, 64, 128}

\* A bit is 0 or 1.
LEMMA BitIsABit == ASSUME NEW a \in Octet, NEW w \in Weights PROVE Bit(a, w) \in 0 .. 1
  BY DEF Octet, Weights, Bit

\* An octet is the sum of its bits.
LEMMA OctetOfBits ==
  ASSUME NEW a \in Octet
  PROVE  a = Bit(a, 1) + 2 * Bit(a, 2) + 4 * Bit(a, 4) + 8 * Bit(a, 8)
             + 16 * Bit(a, 16) + 32 * Bit(a, 32) + 64 * Bit(a, 64) + 128 * Bit(a, 128)
  BY DEF Octet, Bit

\* A sum of weighted bits is the octet that has them.
LEMMA BitsOfSum ==
  ASSUME NEW b1 \in 0 .. 1, NEW b2 \in 0 .. 1, NEW b3 \in 0 .. 1, NEW b4 \in 0 .. 1,
         NEW b5 \in 0 .. 1, NEW b6 \in 0 .. 1, NEW b7 \in 0 .. 1, NEW b8 \in 0 .. 1, NEW a,
         a = b1 + 2 * b2 + 4 * b3 + 8 * b4 + 16 * b5 + 32 * b6 + 64 * b7 + 128 * b8
  PROVE  /\ a \in Octet
         /\ Bit(a, 1) = b1 /\ Bit(a, 2) = b2 /\ Bit(a, 4) = b3 /\ Bit(a, 8) = b4
         /\ Bit(a, 16) = b5 /\ Bit(a, 32) = b6 /\ Bit(a, 64) = b7 /\ Bit(a, 128) = b8
  BY SMTT(30) DEF Octet, Bit

\* The exclusive or of two octets, bit by bit.
LEMMA XorOctetBits ==
  ASSUME NEW a \in Octet, NEW b \in Octet
  PROVE  /\ XorOctet[a][b] \in Octet
         /\ \A w \in Weights : Bit(XorOctet[a][b], w) = (Bit(a, w) + Bit(b, w)) % 2
<1> DEFINE xor(w) == (Bit(a, w) + Bit(b, w)) % 2
<1>1. XorOctet[a][b] = 1 * xor(1) + 2 * xor(2) + 4 * xor(4) + 8 * xor(8) + 16 * xor(16) + 32 * xor(32) +
      64 * xor(64) + 128 * xor(128)
  BY DEF XorOctet
<1>2. \A w \in Weights : xor(w) \in 0 .. 1
  BY BitIsABit
<1> HIDE DEF xor
<1>3. \A w \in Weights : xor(w) = (Bit(a, w) + Bit(b, w)) % 2
  BY DEF xor
<1>4. /\ xor(1) \in 0 .. 1 /\ xor(2) \in 0 .. 1 /\ xor(4) \in 0 .. 1 /\ xor(8) \in 0 .. 1
      /\ xor(16) \in 0 .. 1 /\ xor(32) \in 0 .. 1 /\ xor(64) \in 0 .. 1 /\ xor(128) \in 0 .. 1
  BY <1>2 DEF Weights
<1>5. XorOctet[a][b] = xor(1) + 2 * xor(2) + 4 * xor(4) + 8 * xor(8) + 16 * xor(16) + 32 * xor(32) +
      64 * xor(64) + 128 * xor(128)
  BY <1>1, <1>4
<1>6. PICK x : x = XorOctet[a][b]
  OBVIOUS
<1>7. /\ x \in Octet
      /\ Bit(x, 1) = xor(1) /\ Bit(x, 2) = xor(2) /\ Bit(x, 4) = xor(4) /\ Bit(x, 8) = xor(8)
      /\ Bit(x, 16) = xor(16) /\ Bit(x, 32) = xor(32) /\ Bit(x, 64) = xor(64) /\ Bit(x, 128) = xor(128)
  <2>1. x = xor(1) + 2 * xor(2) + 4 * xor(4) + 8 * xor(8) + 16 * xor(16) + 32 * xor(32) + 64 * xor(64) +
        128 * xor(128)
    BY <1>5, <1>6
  <2> HIDE <1>5
  <2> QED
    BY <1>4, <2>1, BitsOfSum
<1>8. \A w \in Weights : Bit(x, w) = xor(w)
  BY <1>7, Zenon DEF Weights
<1> QED
  BY <1>3, <1>6, <1>7, <1>8

\* An octet is told by its bits.
LEMMA SameBits ==
  ASSUME NEW a \in Octet, NEW b \in Octet, \A w \in Weights : Bit(a, w) = Bit(b, w)
  PROVE  a = b
<1>1. /\ Bit(a, 1) = Bit(b, 1) /\ Bit(a, 2) = Bit(b, 2) /\ Bit(a, 4) = Bit(b, 4) /\ Bit(a, 8) = Bit(b, 8)
      /\ Bit(a, 16) = Bit(b, 16) /\ Bit(a, 32) = Bit(b, 32) /\ Bit(a, 64) = Bit(b, 64) /\ Bit(a,
           128) = Bit(b, 128)
  BY DEF Weights
<1> QED
  BY <1>1, OctetOfBits, SMTT(30)

\* Exclusive or of octets is commutative,
LEMMA XorCommutes ==
  ASSUME NEW a \in Octet, NEW b \in Octet PROVE XorOctet[a][b] = XorOctet[b][a]
<1>1. \A w \in Weights : Bit(XorOctet[a][b], w) = Bit(XorOctet[b][a], w)
  BY XorOctetBits, BitIsABit
<1> QED
  BY <1>1, XorOctetBits, SameBits

\* It is associative,
LEMMA XorAssociates ==
  ASSUME NEW a \in Octet, NEW b \in Octet, NEW c \in Octet
  PROVE  XorOctet[XorOctet[a][b]][c] = XorOctet[a][XorOctet[b][c]]
<1>1. XorOctet[a][b] \in Octet /\ XorOctet[b][c] \in Octet
  BY XorOctetBits
<1>2. ASSUME NEW w \in Weights
      PROVE Bit(XorOctet[XorOctet[a][b]][c], w) = Bit(XorOctet[a][XorOctet[b][c]], w)
  <2>1. /\ Bit(XorOctet[XorOctet[a][b]][c], w) = (((Bit(a, w) + Bit(b, w)) % 2) + Bit(c, w)) % 2
        /\ Bit(XorOctet[a][XorOctet[b][c]], w) = (Bit(a, w) + ((Bit(b, w) + Bit(c, w)) % 2)) % 2
    BY <1>1, XorOctetBits
  <2>2. Bit(a, w) \in 0 .. 1 /\ Bit(b, w) \in 0 .. 1 /\ Bit(c, w) \in 0 .. 1
    BY BitIsABit
  <2> QED
    BY <2>1, <2>2
<1> QED
  BY <1>1, <1>2, XorOctetBits, SameBits

\* zero is its unit,
LEMMA XorWithZero ==
  ASSUME NEW a \in Octet PROVE 0 \in Octet /\ XorOctet[a][0] = a /\ XorOctet[0][a] = a
<1>1. 0 \in Octet /\ \A w \in Weights : Bit(0, w) = 0
  BY DEF Octet, Weights, Bit
<1>2. \A w \in Weights : Bit(XorOctet[a][0], w) = Bit(a, w)
  BY <1>1, XorOctetBits, BitIsABit
<1> QED
  BY <1>1, <1>2, XorOctetBits, SameBits, XorCommutes

\* every octet is its own inverse,
LEMMA XorWithItself ==
  ASSUME NEW a \in Octet, NEW b \in Octet PROVE XorOctet[a][b] = 0 <=> a = b
<1>1. 0 \in Octet /\ \A w \in Weights : Bit(0, w) = 0
  BY DEF Octet, Weights, Bit
<1>2. ASSUME a = b PROVE XorOctet[a][b] = 0
  <2>1. \A w \in Weights : Bit(XorOctet[a][b], w) = Bit(0, w)
    BY <1>1, <1>2, XorOctetBits, BitIsABit
  <2> QED
    BY <1>1, <2>1, XorOctetBits, SameBits
<1>3. ASSUME XorOctet[a][b] = 0 PROVE a = b
  <2>1. \A w \in Weights : Bit(a, w) = Bit(b, w)
    BY <1>1, <1>3, XorOctetBits, BitIsABit
  <2> QED
    BY <2>1, SameBits
<1> QED
  BY <1>2, <1>3

\* so that to combine twice with the same octet changes nothing.
LEMMA XorCancels ==
  ASSUME NEW a \in Octet, NEW b \in Octet PROVE XorOctet[a][XorOctet[a][b]] = b
<1>1. XorOctet[XorOctet[a][a]][b] = XorOctet[a][XorOctet[a][b]]
  BY XorAssociates
<1> QED
  BY <1>1, XorWithItself, XorWithZero

\* A word is a high octet and a low one.
LEMMA PartsOfWord ==
  ASSUME NEW c \in Word
  PROVE  Hi(c) \in Octet /\ Lo(c) \in Octet /\ c = Hi(c) * 256 + Lo(c)
  BY SMTT(30) DEF Word, Octet, Hi, Lo

\* A word is its two octets, each way.
LEMMA WordOfParts ==
  ASSUME NEW h \in Octet, NEW l \in Octet
  PROVE  h * 256 + l \in Word /\ Hi(h * 256 + l) = h /\ Lo(h * 256 + l) = l
  BY SMTT(30) DEF Word, Octet, Hi, Lo

\* A word is told by its octets.
LEMMA SameParts ==
  ASSUME NEW a \in Word, NEW b \in Word, Hi(a) = Hi(b), Lo(a) = Lo(b)
  PROVE  a = b
  BY PartsOfWord

\* The exclusive or of two words, octet by octet.
LEMMA XorByParts ==
  ASSUME NEW a \in Word, NEW b \in Word
  PROVE  /\ Xor(a, b) \in Word
         /\ Hi(Xor(a, b)) = XorOctet[Hi(a)][Hi(b)]
         /\ Lo(Xor(a, b)) = XorOctet[Lo(a)][Lo(b)]
<1>1. a \div 65536 = 0 /\ b \div 65536 = 0
  BY SMTT(30) DEF Word
<1>2. /\ Hi(a) \in Octet /\ Lo(a) \in Octet /\ Hi(b) \in Octet /\ Lo(b) \in Octet
      /\ Lo(a \div 256) = Hi(a) /\ Lo(b \div 256) = Hi(b)
  <2>1. \A x \in Octet : Lo(x) = x
    BY DEF Octet, Lo
  <2> QED
    BY <2>1, PartsOfWord DEF Hi
<1>3. XorOctet[0][0] = 0
  BY XorWithZero DEF Octet
<1>4. PICK h \in Octet : h = XorOctet[Hi(a)][Hi(b)]
  BY <1>2, XorOctetBits
<1>5. PICK l \in Octet : l = XorOctet[Lo(a)][Lo(b)]
  BY <1>2, XorOctetBits
<1>6. Xor(a, b) = h * 256 + l
  <2>1. Xor(a, b) = XorOctet[0][0] * 65536 + h * 256 + l
    BY <1>1, <1>2, <1>4, <1>5, SMT DEF Xor, Hi, Lo
  <2> QED
    BY <1>3, <2>1, SMT DEF Octet
<1> QED
  BY <1>4, <1>5, <1>6, WordOfParts

\* The bit that falls out when an octet is doubled.
LEMMA Doubled ==
  ASSUME NEW h \in Octet
  PROVE  /\ Bit(h, 128) = IF h >= 128 THEN 1 ELSE 0
         /\ Lo(2 * h) \in Octet /\ 2 * h = Lo(2 * h) + 256 * Bit(h, 128)
  BY SMT DEF Octet, Bit, Lo

\* An octet moved up by one bit, with another shifted in.
Up(h, b) == Lo(2 * h) + b

\* An octet moved up by one bit, with a new lowest one.
LEMMA UpBits ==
  ASSUME NEW h \in Octet, NEW b \in 0 .. 1
  PROVE  /\ Up(h, b) \in Octet
         /\ Bit(Up(h, b), 1) = b /\ Bit(Up(h, b), 2) = Bit(h, 1)
         /\ Bit(Up(h, b), 4) = Bit(h, 2) /\ Bit(Up(h, b), 8) = Bit(h, 4)
         /\ Bit(Up(h, b), 16) = Bit(h, 8) /\ Bit(Up(h, b), 32) = Bit(h, 16)
         /\ Bit(Up(h, b), 64) = Bit(h, 32) /\ Bit(Up(h, b), 128) = Bit(h, 64)
<1>1. /\ Bit(h, 1) \in 0 .. 1 /\ Bit(h, 2) \in 0 .. 1 /\ Bit(h, 4) \in 0 .. 1 /\ Bit(h, 8) \in 0 .. 1
      /\ Bit(h, 16) \in 0 .. 1 /\ Bit(h, 32) \in 0 .. 1 /\ Bit(h, 64) \in 0 .. 1 /\ Bit(h, 128) \in 0 .. 1
  BY BitIsABit DEF Weights
<1>2. Up(h, b) = b + 2 * Bit(h, 1) + 4 * Bit(h, 2) + 8 * Bit(h, 4)
                 + 16 * Bit(h, 8) + 32 * Bit(h, 16) + 64 * Bit(h, 32) + 128 * Bit(h, 64)
  <2>1. h = Bit(h, 1) + 2 * Bit(h, 2) + 4 * Bit(h, 4) + 8 * Bit(h, 8)
            + 16 * Bit(h, 16) + 32 * Bit(h, 32) + 64 * Bit(h, 64) + 128 * Bit(h, 128)
    BY OctetOfBits
  <2>2. PICK d \in Octet : d = Lo(2 * h) /\ 2 * h = d + 256 * Bit(h, 128)
    BY Doubled
  <2>3. h \in Nat /\ d \in Nat
    BY DEF Octet
  <2> QED
    BY <1>1, <2>1, <2>2, <2>3 DEF Up
<1> QED
  BY <1>1, <1>2, BitsOfSum

\* One shift, on the two octets: everything moves up by one and the bit that falls
\* out comes back as the polynomial.
LEMMA ShiftByParts ==
  ASSUME NEW h \in Octet, NEW l \in Octet
  PROVE  /\ ShiftOnce(h * 256 + l) \in Word
         /\ Hi(ShiftOnce(h * 256 + l)) = XorOctet[Up(h, Bit(l, 128))][16 * Bit(h, 128)]
         /\ Lo(ShiftOnce(h * 256 + l)) = XorOctet[Up(l, 0)][33 * Bit(h, 128)]
<1> DEFINE c == h * 256 + l
<1>1. PICK H \in Octet : H = Up(h, Bit(l, 128))
  BY UpBits, BitIsABit DEF Weights
<1>2. PICK L \in Octet : L = Up(l, 0)
  BY UpBits
<1>3. Bit(l, 128) \in 0 .. 1 /\ Bit(h, 128) \in 0 .. 1
  BY BitIsABit DEF Weights
<1>4. Bit(h, 128) = IF h >= 128 THEN 1 ELSE 0
  BY Doubled
<1>0. 2 * c = H * 256 + L + 65536 * Bit(h, 128) /\ (c >= 32768 <=> h >= 128)
  <2>1. PICK u \in 0 .. 1 : u = Bit(l, 128) /\ 2 * l = L + 256 * u
    <3>1. Lo(2 * l) \in Octet /\ 2 * l = Lo(2 * l) + 256 * Bit(l, 128)
      BY Doubled
    <3>2. L = Lo(2 * l)
      BY <1>2, <3>1 DEF Up, Octet, Lo
    <3> QED
      BY <1>3, <3>1, <3>2
  <2>2. PICK v \in 0 .. 1 : v = Bit(h, 128) /\ 2 * h = Lo(2 * h) + 256 * v
    BY <1>3, Doubled
  <2>3. PICK d \in Octet : d = Lo(2 * h)
    BY Doubled
  <2>4. 2 * h = d + 256 * v /\ H = d + u
    BY <1>1, <2>1, <2>2, <2>3 DEF Up
  <2>5. d \in Nat /\ h \in Nat /\ l \in Nat /\ L \in Nat /\ l < 256
    BY DEF Octet
  <2>6. 2 * c = H * 256 + L + 65536 * v
    BY <2>1, <2>4, <2>5
  <2>7. c >= 32768 <=> h >= 128
    BY <2>5
  <2> QED
    BY <2>2, <2>6, <2>7
<1>5. CASE h < 128
  <2>1. c < 32768 /\ 2 * c = H * 256 + L
    BY <1>0, <1>4, <1>5, SMT DEF Octet
  <2>2. ShiftOnce(c) = H * 256 + L
    BY <2>1, SMT DEF ShiftOnce, Octet
  <2>3. 16 * Bit(h, 128) = 0 /\ 33 * Bit(h, 128) = 0
    BY <1>4, <1>5, SMT DEF Octet
  <2>4. XorOctet[H][0] = H /\ XorOctet[L][0] = L
    BY XorWithZero
  <2> QED
    BY <1>1, <1>2, <2>2, <2>3, <2>4, WordOfParts
<1>6. CASE h >= 128
  <2>1. c >= 32768 /\ (2 * c) % 65536 = H * 256 + L
    BY <1>0, <1>4, <1>6, SMTT(30) DEF Octet
  <2>2. ShiftOnce(c) = Xor(H * 256 + L, 16 * 256 + 33)
    BY <2>1, SMT DEF ShiftOnce, kCrcPolynomial
  <2>3. 16 * Bit(h, 128) = 16 /\ 33 * Bit(h, 128) = 33
    BY <1>4, <1>6, SMT DEF Octet
  <2>4. 16 \in Octet /\ 33 \in Octet
    BY DEF Octet
  <2> QED
    BY <1>1, <1>2, <2>2, <2>3, <2>4, WordOfParts, XorByParts
<1> QED
  BY <1>5, <1>6, SMT DEF Octet

-----------------------------------------------------------------------------
\* The CRC.

\* Every bit of a shift: the polynomial 0x1021 touches three of them.
LEMMA ShiftBits ==
  ASSUME NEW c \in Word, NEW h, NEW l, h = Hi(c), l = Lo(c)
  PROVE  /\ ShiftOnce(c) \in Word
         /\ Bit(Hi(ShiftOnce(c)), 1) = Bit(l, 128)
         /\ Bit(Hi(ShiftOnce(c)), 2) = Bit(h, 1)
         /\ Bit(Hi(ShiftOnce(c)), 4) = Bit(h, 2)
         /\ Bit(Hi(ShiftOnce(c)), 8) = Bit(h, 4)
         /\ Bit(Hi(ShiftOnce(c)), 16) = (Bit(h, 8) + Bit(h, 128)) % 2
         /\ Bit(Hi(ShiftOnce(c)), 32) = Bit(h, 16)
         /\ Bit(Hi(ShiftOnce(c)), 64) = Bit(h, 32)
         /\ Bit(Hi(ShiftOnce(c)), 128) = Bit(h, 64)
         /\ Bit(Lo(ShiftOnce(c)), 1) = Bit(h, 128)
         /\ Bit(Lo(ShiftOnce(c)), 2) = Bit(l, 1)
         /\ Bit(Lo(ShiftOnce(c)), 4) = Bit(l, 2)
         /\ Bit(Lo(ShiftOnce(c)), 8) = Bit(l, 4)
         /\ Bit(Lo(ShiftOnce(c)), 16) = Bit(l, 8)
         /\ Bit(Lo(ShiftOnce(c)), 32) = (Bit(l, 16) + Bit(h, 128)) % 2
         /\ Bit(Lo(ShiftOnce(c)), 64) = Bit(l, 32)
         /\ Bit(Lo(ShiftOnce(c)), 128) = Bit(l, 64)
<1>1. h \in Octet /\ l \in Octet /\ c = h * 256 + l
  BY PartsOfWord
<1>2. PICK u \in 0 .. 1 : u = Bit(l, 128)
  BY <1>1, BitIsABit DEF Weights
<1>3. PICK v \in 0 .. 1 : v = Bit(h, 128)
  BY <1>1, BitIsABit DEF Weights
<1>4. PICK H \in Octet : H = Up(h, u)
  BY <1>1, UpBits
<1>5. PICK L \in Octet : L = Up(l, 0)
  <2>1. 0 \in 0 .. 1
    OBVIOUS
  <2> QED
    BY <1>1, <2>1, UpBits
<1>7. /\ ShiftOnce(c) \in Word
      /\ Hi(ShiftOnce(c)) = XorOctet[H][16 * v]
      /\ Lo(ShiftOnce(c)) = XorOctet[L][33 * v]
  <2>1. /\ ShiftOnce(h * 256 + l) \in Word
        /\ Hi(ShiftOnce(h * 256 + l)) = XorOctet[Up(h, Bit(l, 128))][16 * Bit(h, 128)]
        /\ Lo(ShiftOnce(h * 256 + l)) = XorOctet[Up(l, 0)][33 * Bit(h, 128)]
    BY <1>1, ShiftByParts
  <2> QED
    BY <1>1, <1>2, <1>3, <1>4, <1>5, <2>1, ZenonT(30)
<1>8. /\ 16 * v \in Octet /\ Bit(16 * v, 16) = v
      /\ Bit(16 * v, 1) = 0 /\ Bit(16 * v, 2) = 0 /\ Bit(16 * v, 4) = 0 /\ Bit(16 * v, 8) = 0
      /\ Bit(16 * v, 32) = 0 /\ Bit(16 * v, 64) = 0 /\ Bit(16 * v, 128) = 0
  BY DEF Octet, Bit
<1>9. /\ 33 * v \in Octet /\ Bit(33 * v, 1) = v /\ Bit(33 * v, 32) = v
      /\ Bit(33 * v, 2) = 0 /\ Bit(33 * v, 4) = 0 /\ Bit(33 * v, 8) = 0
      /\ Bit(33 * v, 16) = 0 /\ Bit(33 * v, 64) = 0 /\ Bit(33 * v, 128) = 0
  BY DEF Octet, Bit
<1>10. /\ Bit(H, 1) = u /\ Bit(H, 2) = Bit(h, 1) /\ Bit(H, 4) = Bit(h, 2) /\ Bit(H, 8) = Bit(h, 4)
       /\ Bit(H, 16) = Bit(h, 8) /\ Bit(H, 32) = Bit(h, 16) /\ Bit(H, 64) = Bit(h, 32) /\ Bit(H,
            128) = Bit(h, 64)
  <2>1. /\ Bit(Up(h, u), 1) = u /\ Bit(Up(h, u), 2) = Bit(h, 1)
        /\ Bit(Up(h, u), 4) = Bit(h, 2) /\ Bit(Up(h, u), 8) = Bit(h, 4)
        /\ Bit(Up(h, u), 16) = Bit(h, 8) /\ Bit(Up(h, u), 32) = Bit(h, 16)
        /\ Bit(Up(h, u), 64) = Bit(h, 32) /\ Bit(Up(h, u), 128) = Bit(h, 64)
    BY <1>1, UpBits
  <2> QED
    BY <1>4, <2>1
<1>11. /\ Bit(L, 1) = 0 /\ Bit(L, 2) = Bit(l, 1) /\ Bit(L, 4) = Bit(l, 2) /\ Bit(L, 8) = Bit(l, 4)
       /\ Bit(L, 16) = Bit(l, 8) /\ Bit(L, 32) = Bit(l, 16) /\ Bit(L, 64) = Bit(l, 32) /\ Bit(L,
            128) = Bit(l, 64)
  <2>1. 0 \in 0 .. 1
    OBVIOUS
  <2>2. /\ Bit(Up(l, 0), 1) = 0 /\ Bit(Up(l, 0), 2) = Bit(l, 1)
        /\ Bit(Up(l, 0), 4) = Bit(l, 2) /\ Bit(Up(l, 0), 8) = Bit(l, 4)
        /\ Bit(Up(l, 0), 16) = Bit(l, 8) /\ Bit(Up(l, 0), 32) = Bit(l, 16)
        /\ Bit(Up(l, 0), 64) = Bit(l, 32) /\ Bit(Up(l, 0), 128) = Bit(l, 64)
    BY <1>1, <2>1, UpBits
  <2> QED
    BY <1>5, <2>2
<1>12. \A w \in Weights : /\ Bit(Hi(ShiftOnce(c)), w) = (Bit(H, w) + Bit(16 * v, w)) % 2
                          /\ Bit(Lo(ShiftOnce(c)), w) = (Bit(L, w) + Bit(33 * v, w)) % 2
  BY <1>7, <1>8, <1>9, XorOctetBits
<1>13. \A w \in Weights : Bit(H, w) \in 0 .. 1 /\ Bit(L, w) \in 0 .. 1
  BY BitIsABit
<1>14. \A a \in 0 .. 1 : (a + 0) % 2 = a /\ (0 + a) % 2 = a
  OBVIOUS
<1>15. /\ Bit(Hi(ShiftOnce(c)), 1) = Bit(H, 1) /\ Bit(Hi(ShiftOnce(c)), 2) = Bit(H, 2)
       /\ Bit(Hi(ShiftOnce(c)), 4) = Bit(H, 4) /\ Bit(Hi(ShiftOnce(c)), 8) = Bit(H, 8)
       /\ Bit(Hi(ShiftOnce(c)), 16) = (Bit(H, 16) + v) % 2 /\ Bit(Hi(ShiftOnce(c)), 32) = Bit(H, 32)
       /\ Bit(Hi(ShiftOnce(c)), 64) = Bit(H, 64) /\ Bit(Hi(ShiftOnce(c)), 128) = Bit(H, 128)
  BY <1>8, <1>12, <1>13, <1>14 DEF Weights
<1>16. /\ Bit(Lo(ShiftOnce(c)), 1) = (Bit(L, 1) + v) % 2 /\ Bit(Lo(ShiftOnce(c)), 2) = Bit(L, 2)
       /\ Bit(Lo(ShiftOnce(c)), 4) = Bit(L, 4) /\ Bit(Lo(ShiftOnce(c)), 8) = Bit(L, 8)
  BY <1>9, <1>12, <1>13, <1>14 DEF Weights
<1>17. /\ Bit(Lo(ShiftOnce(c)), 16) = Bit(L, 16) /\ Bit(Lo(ShiftOnce(c)), 32) = (Bit(L, 32) + v) % 2
       /\ Bit(Lo(ShiftOnce(c)), 64) = Bit(L, 64) /\ Bit(Lo(ShiftOnce(c)), 128) = Bit(L, 128)
  <2>1. /\ Bit(Lo(ShiftOnce(c)), 16) = (Bit(L, 16) + 0) % 2 /\ Bit(Lo(ShiftOnce(c)), 64) = (Bit(L, 64) +
             0) % 2
        /\ Bit(Lo(ShiftOnce(c)), 128) = (Bit(L, 128) + 0) % 2
    BY <1>9, <1>12 DEF Weights
  <2>2. Bit(Lo(ShiftOnce(c)), 32) = (Bit(L, 32) + v) % 2
    BY <1>9, <1>12 DEF Weights
  <2>3. Bit(L, 16) \in 0 .. 1 /\ Bit(L, 64) \in 0 .. 1 /\ Bit(L, 128) \in 0 .. 1
    BY <1>13 DEF Weights
  <2> QED
    BY <1>14, <2>1, <2>2, <2>3
<1> QED
  BY <1>2, <1>3, <1>7, <1>10, <1>11, <1>14, <1>15, <1>16, <1>17

\* A shift of a word is a word.
LEMMA ShiftIsAWord == ASSUME NEW c \in Word PROVE ShiftOnce(c) \in Word
  BY ShiftBits

\* Shifting does not mix two words that are xored: of each octet of the result,
\* each bit is one bit of the argument or the exclusive or of two.
LEMMA ShiftIsLinear ==
  ASSUME NEW c \in Word, NEW d \in Word
  PROVE  ShiftOnce(Xor(c, d)) = Xor(ShiftOnce(c), ShiftOnce(d))
<1>1. PICK e \in Word : e = Xor(c, d)
  BY XorByParts
<1>2. /\ Hi(c) \in Octet /\ Lo(c) \in Octet /\ Hi(d) \in Octet /\ Lo(d) \in Octet
  BY PartsOfWord
<1>3. PICK h \in Octet, l \in Octet : h = Hi(c) /\ l = Lo(c)
  BY <1>2
<1>4. PICK g \in Octet, k \in Octet : g = Hi(d) /\ k = Lo(d)
  BY <1>2
<1>5. Hi(e) = XorOctet[h][g] /\ Lo(e) = XorOctet[l][k]
  BY <1>1, <1>3, <1>4, XorByParts
<1>6. PICK s \in Word, t \in Word, r \in Word : s = ShiftOnce(c) /\ t = ShiftOnce(d) /\ r = ShiftOnce(e)
  BY ShiftIsAWord
<1>7. PICK x \in Word : x = Xor(s, t) /\ Hi(x) = XorOctet[Hi(s)][Hi(t)] /\ Lo(x) = XorOctet[Lo(s)][Lo(t)]
  BY XorByParts
<1>8. /\ Hi(s) \in Octet /\ Lo(s) \in Octet /\ Hi(t) \in Octet /\ Lo(t) \in Octet
      /\ Hi(r) \in Octet /\ Lo(r) \in Octet /\ Hi(x) \in Octet /\ Lo(x) \in Octet
  BY PartsOfWord
<1>9. \A w \in Weights : /\ Bit(Hi(e), w) = (Bit(h, w) + Bit(g, w)) % 2
                         /\ Bit(Lo(e), w) = (Bit(l, w) + Bit(k, w)) % 2
  BY <1>5, XorOctetBits
<1>10. \A w \in Weights : /\ Bit(Hi(x), w) = (Bit(Hi(s), w) + Bit(Hi(t), w)) % 2
                          /\ Bit(Lo(x), w) = (Bit(Lo(s), w) + Bit(Lo(t), w)) % 2
  BY <1>7, <1>8, XorOctetBits
<1>11. \A a, b \in 0 .. 1 : \A m, n \in 0 .. 1 : (((a + b) % 2) + ((m + n) % 2)) % 2 = (((a + m) % 2) + ((b +
      n) % 2)) % 2
  OBVIOUS
<1>12. \A w \in Weights : Bit(h, w) \in 0 .. 1 /\ Bit(l, w) \in 0 .. 1 /\ Bit(g, w) \in 0 .. 1 /\ Bit(k,
      w) \in 0 .. 1
  BY BitIsABit
<1>13. \A w \in Weights : Bit(Hi(r), w) = Bit(Hi(x), w)
  <2>1. /\ Bit(Hi(r), 1) = Bit(Lo(e), 128) /\ Bit(Hi(r), 2) = Bit(Hi(e), 1)
        /\ Bit(Hi(r), 4) = Bit(Hi(e), 2) /\ Bit(Hi(r), 8) = Bit(Hi(e), 4)
        /\ Bit(Hi(r), 16) = (Bit(Hi(e), 8) + Bit(Hi(e), 128)) % 2
        /\ Bit(Hi(r), 32) = Bit(Hi(e), 16) /\ Bit(Hi(r), 64) = Bit(Hi(e), 32)
        /\ Bit(Hi(r), 128) = Bit(Hi(e), 64)
    BY <1>6, ShiftBits
  <2>2. /\ Bit(Hi(s), 1) = Bit(l, 128) /\ Bit(Hi(s), 2) = Bit(h, 1)
        /\ Bit(Hi(s), 4) = Bit(h, 2) /\ Bit(Hi(s), 8) = Bit(h, 4)
        /\ Bit(Hi(s), 16) = (Bit(h, 8) + Bit(h, 128)) % 2
        /\ Bit(Hi(s), 32) = Bit(h, 16) /\ Bit(Hi(s), 64) = Bit(h, 32)
        /\ Bit(Hi(s), 128) = Bit(h, 64)
    BY <1>3, <1>6, ShiftBits
  <2>3. /\ Bit(Hi(t), 1) = Bit(k, 128) /\ Bit(Hi(t), 2) = Bit(g, 1)
        /\ Bit(Hi(t), 4) = Bit(g, 2) /\ Bit(Hi(t), 8) = Bit(g, 4)
        /\ Bit(Hi(t), 16) = (Bit(g, 8) + Bit(g, 128)) % 2
        /\ Bit(Hi(t), 32) = Bit(g, 16) /\ Bit(Hi(t), 64) = Bit(g, 32)
        /\ Bit(Hi(t), 128) = Bit(g, 64)
    BY <1>4, <1>6, ShiftBits
  <2>4. /\ Bit(Hi(r), 1) = Bit(Hi(x), 1) /\ Bit(Hi(r), 2) = Bit(Hi(x), 2)
        /\ Bit(Hi(r), 4) = Bit(Hi(x), 4) /\ Bit(Hi(r), 8) = Bit(Hi(x), 8)
        /\ Bit(Hi(r), 32) = Bit(Hi(x), 32) /\ Bit(Hi(r), 64) = Bit(Hi(x), 64)
        /\ Bit(Hi(r), 128) = Bit(Hi(x), 128)
    BY <1>9, <1>10, <2>1, <2>2, <2>3 DEF Weights
  <2>5. Bit(Hi(r), 16) = Bit(Hi(x), 16)
    <3>1. /\ Bit(Hi(r), 16) = (((Bit(h, 8) + Bit(g, 8)) % 2) + ((Bit(h, 128) + Bit(g, 128)) % 2)) % 2
          /\ Bit(Hi(x), 16) = (((Bit(h, 8) + Bit(h, 128)) % 2) + ((Bit(g, 8) + Bit(g, 128)) % 2)) % 2
      BY <1>9, <1>10, <2>1, <2>2, <2>3 DEF Weights
    <3>2. Bit(h, 8) \in 0 .. 1 /\ Bit(g, 8) \in 0 .. 1 /\ Bit(h, 128) \in 0 .. 1 /\ Bit(g, 128) \in 0 .. 1
      BY <1>12 DEF Weights
    <3> QED
      BY <1>11, <3>1, <3>2
  <2> QED
    BY <2>4, <2>5 DEF Weights
<1>14. \A w \in Weights : Bit(Lo(r), w) = Bit(Lo(x), w)
  <2>1. /\ Bit(Lo(r), 1) = Bit(Hi(e), 128) /\ Bit(Lo(r), 2) = Bit(Lo(e), 1)
        /\ Bit(Lo(r), 4) = Bit(Lo(e), 2) /\ Bit(Lo(r), 8) = Bit(Lo(e), 4)
        /\ Bit(Lo(r), 32) = (Bit(Lo(e), 16) + Bit(Hi(e), 128)) % 2
        /\ Bit(Lo(r), 16) = Bit(Lo(e), 8) /\ Bit(Lo(r), 64) = Bit(Lo(e), 32)
        /\ Bit(Lo(r), 128) = Bit(Lo(e), 64)
    BY <1>6, ShiftBits
  <2>2. /\ Bit(Lo(s), 1) = Bit(h, 128) /\ Bit(Lo(s), 2) = Bit(l, 1)
        /\ Bit(Lo(s), 4) = Bit(l, 2) /\ Bit(Lo(s), 8) = Bit(l, 4)
        /\ Bit(Lo(s), 32) = (Bit(l, 16) + Bit(h, 128)) % 2
        /\ Bit(Lo(s), 16) = Bit(l, 8) /\ Bit(Lo(s), 64) = Bit(l, 32)
        /\ Bit(Lo(s), 128) = Bit(l, 64)
    BY <1>3, <1>6, ShiftBits
  <2>3. /\ Bit(Lo(t), 1) = Bit(g, 128) /\ Bit(Lo(t), 2) = Bit(k, 1)
        /\ Bit(Lo(t), 4) = Bit(k, 2) /\ Bit(Lo(t), 8) = Bit(k, 4)
        /\ Bit(Lo(t), 32) = (Bit(k, 16) + Bit(g, 128)) % 2
        /\ Bit(Lo(t), 16) = Bit(k, 8) /\ Bit(Lo(t), 64) = Bit(k, 32)
        /\ Bit(Lo(t), 128) = Bit(k, 64)
    BY <1>4, <1>6, ShiftBits
  <2>4. /\ Bit(Lo(r), 1) = Bit(Lo(x), 1) /\ Bit(Lo(r), 2) = Bit(Lo(x), 2)
        /\ Bit(Lo(r), 4) = Bit(Lo(x), 4) /\ Bit(Lo(r), 8) = Bit(Lo(x), 8)
        /\ Bit(Lo(r), 16) = Bit(Lo(x), 16) /\ Bit(Lo(r), 64) = Bit(Lo(x), 64)
        /\ Bit(Lo(r), 128) = Bit(Lo(x), 128)
    BY <1>9, <1>10, <2>1, <2>2, <2>3 DEF Weights
  <2>5. Bit(Lo(r), 32) = Bit(Lo(x), 32)
    <3>1. /\ Bit(Lo(r), 32) = (((Bit(l, 16) + Bit(k, 16)) % 2) + ((Bit(h, 128) + Bit(g, 128)) % 2)) % 2
          /\ Bit(Lo(x), 32) = (((Bit(l, 16) + Bit(h, 128)) % 2) + ((Bit(k, 16) + Bit(g, 128)) % 2)) % 2
      BY <1>9, <1>10, <2>1, <2>2, <2>3 DEF Weights
    <3>2. Bit(l, 16) \in 0 .. 1 /\ Bit(k, 16) \in 0 .. 1 /\ Bit(h, 128) \in 0 .. 1 /\ Bit(g, 128) \in 0 .. 1
      BY <1>12 DEF Weights
    <3> QED
      BY <1>11, <3>1, <3>2
  <2> QED
    BY <2>4, <2>5 DEF Weights
<1>15. r = x
  BY <1>8, <1>13, <1>14, SameBits, SameParts
<1> QED
  BY <1>1, <1>6, <1>7, <1>15

\* Two shifts are linear, as one is.
LEMMA TwiceIsLinear ==
  ASSUME NEW c \in Word, NEW d \in Word
  PROVE  ShiftTwice(c) \in Word /\ ShiftTwice(Xor(c, d)) = Xor(ShiftTwice(c), ShiftTwice(d))
<1>1. PICK e \in Word : e = Xor(c, d)
  BY XorByParts
<1>2. ShiftOnce(c) \in Word /\ ShiftOnce(d) \in Word /\ ShiftOnce(e) = Xor(ShiftOnce(c), ShiftOnce(d))
  BY <1>1, ShiftIsAWord, ShiftIsLinear
<1>3. /\ ShiftOnce(ShiftOnce(c)) \in Word
      /\ ShiftOnce(Xor(ShiftOnce(c), ShiftOnce(d))) = Xor(ShiftOnce(ShiftOnce(c)), ShiftOnce(ShiftOnce(d)))
  BY <1>2, ShiftIsAWord, ShiftIsLinear
<1> QED
  BY <1>1, <1>2, <1>3, Zenon DEF ShiftTwice

\* So do the eight of an octet.
LEMMA EightAreLinear ==
  ASSUME NEW a \in Octet, NEW b \in Octet
  PROVE  EightShifts[a] \in Word /\ EightShifts[XorOctet[a][b]] = Xor(EightShifts[a], EightShifts[b])
<1>1. PICK x \in Octet : x = XorOctet[a][b]
  BY XorOctetBits
<1>2. PICK c0 \in Word : c0 = a * 256 /\ Hi(c0) = a /\ Lo(c0) = 0
  <2>1. a * 256 + 0 = a * 256 /\ 0 \in Octet
    BY DEF Octet
  <2> QED
    BY <2>1, WordOfParts
<1>3. PICK d0 \in Word : d0 = b * 256 /\ Hi(d0) = b /\ Lo(d0) = 0
  <2>1. b * 256 + 0 = b * 256 /\ 0 \in Octet
    BY DEF Octet
  <2> QED
    BY <2>1, WordOfParts
<1>4. PICK e0 \in Word : e0 = x * 256 /\ Hi(e0) = x /\ Lo(e0) = 0
  <2>1. x * 256 + 0 = x * 256 /\ 0 \in Octet
    BY DEF Octet
  <2> QED
    BY <2>1, WordOfParts
<1>5. e0 = Xor(c0, d0)
  <2>1. 0 \in Octet /\ XorOctet[0][0] = 0
    BY XorWithZero DEF Octet
  <2>2. PICK y \in Word : y = Xor(c0, d0)
    BY XorByParts
  <2>3. Hi(y) = x /\ Lo(y) = 0
    BY <1>1, <1>2, <1>3, <2>1, <2>2, XorByParts
  <2> QED
    BY <1>4, <2>2, <2>3, SameParts
<1>6. PICK c1 \in Word, d1 \in Word : c1 = ShiftTwice(c0) /\ d1 = ShiftTwice(d0)
  BY TwiceIsLinear
<1>7. PICK c2 \in Word, d2 \in Word : c2 = ShiftTwice(c1) /\ d2 = ShiftTwice(d1)
  BY TwiceIsLinear
<1>8. PICK c3 \in Word, d3 \in Word : c3 = ShiftTwice(c2) /\ d3 = ShiftTwice(d2)
  BY TwiceIsLinear
<1>9. PICK c4 \in Word, d4 \in Word : c4 = ShiftTwice(c3) /\ d4 = ShiftTwice(d3)
  BY TwiceIsLinear
<1>10. /\ ShiftTwice(Xor(c0, d0)) = Xor(c1, d1) /\ ShiftTwice(Xor(c1, d1)) = Xor(c2, d2)
       /\ ShiftTwice(Xor(c2, d2)) = Xor(c3, d3) /\ ShiftTwice(Xor(c3, d3)) = Xor(c4, d4)
  BY <1>6, <1>7, <1>8, <1>9, TwiceIsLinear
<1>11. \A o \in Octet : EightShifts[o] = ShiftTwice(ShiftTwice(ShiftTwice(ShiftTwice(o * 256))))
  BY DEF EightShifts
<1>12. EightShifts[a] = c4 /\ EightShifts[b] = d4
  BY <1>2, <1>3, <1>6, <1>7, <1>8, <1>9, <1>11
<1>13. EightShifts[x] = Xor(c4, d4)
  BY <1>4, <1>5, <1>10, <1>11
<1> QED
  BY <1>1, <1>12, <1>13

\* A word whose top bit is clear is doubled; one whose top bit is set comes out odd.
LEMMA ShiftDoubles ==
  ASSUME NEW c \in Word
  PROVE  /\ c < 32768 => ShiftOnce(c) = 2 * c
         /\ ShiftOnce(c) % 2 = 0 => c < 32768 /\ ShiftOnce(c) = 2 * c
<1>1. c < 32768 => ShiftOnce(c) = 2 * c
  BY SMT DEF ShiftOnce, Word
<1>2. ASSUME c >= 32768 PROVE ShiftOnce(c) % 2 = 1
  <2>1. PICK h \in Octet : h = Hi(c)
    BY PartsOfWord
  <2>2. PICK s \in Word : s = ShiftOnce(c) /\ Bit(Lo(s), 1) = Bit(h, 128)
    BY <2>1, ShiftBits
  <2>3. h >= 128
    BY <1>2, <2>1, SMT DEF Word, Hi
  <2>4. (Lo(s)) % 2 = 1
    <3>1. Bit(h, 128) = 1
      BY <2>3, Doubled DEF Octet
    <3>2. Lo(s) \in Octet
      BY PartsOfWord
    <3> QED
      BY <2>2, <3>1, <3>2 DEF Bit, Octet
  <2> QED
    BY <2>2, <2>4, SMT DEF Word, Lo
<1> QED
  BY <1>1, <1>2, SMT DEF Word

\* An octet below a power of two leaves its mark on as many of the low bits after
\* the eight shifts: none of the bits that fall out of the register is lost.
LEMMA LowBits ==
  ASSUME NEW x \in Octet, NEW p \in {1, 2, 4, 8, 16, 32, 64, 128, 256}, x < p,
         (Lo(EightShifts[x])) % p = 0
  PROVE  x = 0
<1>1. PICK c0 \in Word : c0 = x * 256
  <2>1. x * 256 + 0 = x * 256 /\ 0 \in Octet
    BY DEF Octet
  <2> QED
    BY <2>1, WordOfParts
<1>2. PICK c1 \in Word : c1 = ShiftOnce(c0)
  BY ShiftIsAWord
<1>3. PICK c2 \in Word : c2 = ShiftOnce(c1)
  BY ShiftIsAWord
<1>4. PICK c3 \in Word : c3 = ShiftOnce(c2)
  BY ShiftIsAWord
<1>5. PICK c4 \in Word : c4 = ShiftOnce(c3)
  BY ShiftIsAWord
<1>6. PICK c5 \in Word : c5 = ShiftOnce(c4)
  BY ShiftIsAWord
<1>7. PICK c6 \in Word : c6 = ShiftOnce(c5)
  BY ShiftIsAWord
<1>8. PICK c7 \in Word : c7 = ShiftOnce(c6)
  BY ShiftIsAWord
<1>9. PICK c8 \in Word : c8 = ShiftOnce(c7)
  BY ShiftIsAWord
<1>10. EightShifts[x] = c8
  <2>1. EightShifts[x] = ShiftTwice(ShiftTwice(ShiftTwice(ShiftTwice(x * 256))))
    BY DEF EightShifts
  <2> QED
    BY <1>1, <1>2, <1>3, <1>4, <1>5, <1>6, <1>7, <1>8, <1>9, <2>1 DEF ShiftTwice
<1>11. /\ c0 \in Nat /\ c1 \in Nat /\ c2 \in Nat /\ c3 \in Nat /\ c4 \in Nat
       /\ c5 \in Nat /\ c6 \in Nat /\ c7 \in Nat /\ c8 \in Nat /\ c8 < 65536 /\ x \in Nat
  BY SMT DEF Word, Octet
<1>12. /\ c0 < 32768 => c1 = 2 * c0
       /\ c1 < 32768 => c2 = 2 * c1
       /\ c2 < 32768 => c3 = 2 * c2
       /\ c3 < 32768 => c4 = 2 * c3
       /\ c4 < 32768 => c5 = 2 * c4
       /\ c5 < 32768 => c6 = 2 * c5
       /\ c6 < 32768 => c7 = 2 * c6
  BY <1>2, <1>3, <1>4, <1>5, <1>6, <1>7, <1>8, ShiftDoubles
<1>13. /\ x < 128 => c1 = 512 * x
       /\ x < 64 => c2 = 1024 * x
       /\ x < 32 => c3 = 2048 * x
       /\ x < 16 => c4 = 4096 * x
       /\ x < 8 => c5 = 8192 * x
       /\ x < 4 => c6 = 16384 * x
       /\ x < 2 => c7 = 32768 * x
  BY <1>1, <1>11, <1>12, SMT
<1>14. /\ c1 % 2 = 0 => c1 = 2 * c0
       /\ c2 % 2 = 0 => c2 = 2 * c1
       /\ c3 % 2 = 0 => c3 = 2 * c2
       /\ c4 % 2 = 0 => c4 = 2 * c3
       /\ c5 % 2 = 0 => c5 = 2 * c4
       /\ c6 % 2 = 0 => c6 = 2 * c5
       /\ c7 % 2 = 0 => c7 = 2 * c6
       /\ c8 % 2 = 0 => c8 = 2 * c7
  BY <1>2, <1>3, <1>4, <1>5, <1>6, <1>7, <1>8, <1>9, ShiftDoubles
<1>15. c8 % 2 = 0 => c8 = 2 * c7
  BY <1>14
<1>16. c8 % 4 = 0 => c8 = 4 * c6
  BY <1>11, <1>14, <1>15, SMT
<1>17. c8 % 8 = 0 => c8 = 8 * c5
  BY <1>11, <1>14, <1>16, SMT
<1>18. c8 % 16 = 0 => c8 = 16 * c4
  BY <1>11, <1>14, <1>17, SMT
<1>19. c8 % 32 = 0 => c8 = 32 * c3
  BY <1>11, <1>14, <1>18, SMT
<1>20. c8 % 64 = 0 => c8 = 64 * c2
  BY <1>11, <1>14, <1>19, SMT
<1>21. c8 % 128 = 0 => c8 = 128 * c1
  BY <1>11, <1>14, <1>20, SMT
<1>22. c8 % 256 = 0 => c8 = 256 * c0
  BY <1>11, <1>14, <1>21, SMT
<1>23. (Lo(c8)) % p = 0
  BY <1>10
<1>24. CASE p = 1
  BY <1>11, <1>24
<1>25. CASE p = 2
  <2>1. c8 % 2 = 0
    BY <1>11, <1>23, <1>25, SMT DEF Lo
  <2> QED
    BY <1>11, <1>13, <1>15, <1>25, <2>1, SMT
<1>26. CASE p = 4
  <2>1. c8 % 4 = 0
    BY <1>11, <1>23, <1>26, SMT DEF Lo
  <2> QED
    BY <1>11, <1>13, <1>16, <1>26, <2>1, SMT
<1>27. CASE p = 8
  <2>1. c8 % 8 = 0
    BY <1>11, <1>23, <1>27, SMT DEF Lo
  <2> QED
    BY <1>11, <1>13, <1>17, <1>27, <2>1, SMT
<1>28. CASE p = 16
  <2>1. c8 % 16 = 0
    BY <1>11, <1>23, <1>28, SMT DEF Lo
  <2> QED
    BY <1>11, <1>13, <1>18, <1>28, <2>1, SMT
<1>29. CASE p = 32
  <2>1. c8 % 32 = 0
    BY <1>11, <1>23, <1>29, SMT DEF Lo
  <2> QED
    BY <1>11, <1>13, <1>19, <1>29, <2>1, SMT
<1>30. CASE p = 64
  <2>1. c8 % 64 = 0
    BY <1>11, <1>23, <1>30, SMT DEF Lo
  <2> QED
    BY <1>11, <1>13, <1>20, <1>30, <2>1, SMT
<1>31. CASE p = 128
  <2>1. c8 % 128 = 0
    BY <1>11, <1>23, <1>31, SMT DEF Lo
  <2> QED
    BY <1>11, <1>13, <1>21, <1>31, <2>1, SMT
<1>32. CASE p = 256
  <2>1. c8 % 256 = 0
    BY <1>11, <1>23, <1>32, SMT DEF Lo
  <2> QED
    BY <1>1, <1>11, <1>13, <1>22, <1>32, <2>1, SMT
<1> QED
  BY <1>24, <1>25, <1>26, <1>27, <1>28, <1>29, <1>30, <1>31, <1>32

\* Eight shifts of nothing give nothing.
LEMMA NothingShifted == EightShifts[0] \in Word /\ Hi(EightShifts[0]) = 0 /\ Lo(EightShifts[0]) = 0
<1>1. 0 \in Octet /\ XorOctet[0][0] = 0
  <2>1. 0 \in Octet
    BY DEF Octet
  <2> QED
    BY <2>1, XorWithZero
<1>2. PICK t \in Word : t = EightShifts[0] /\ t = Xor(t, t)
  BY <1>1, EightAreLinear
<1>3. Hi(t) = XorOctet[Hi(t)][Hi(t)] /\ Lo(t) = XorOctet[Lo(t)][Lo(t)]
  BY <1>2, XorByParts
<1>4. Hi(t) = 0 /\ Lo(t) = 0
  BY <1>3, PartsOfWord, XorWithItself
<1> QED
  BY <1>2, <1>4

\* Eight shifts of two octets differ in the low octet.
LEMMA LowTells ==
  ASSUME NEW x \in Octet, NEW y \in Octet, Lo(EightShifts[x]) = Lo(EightShifts[y])
  PROVE  x = y
<1>1. PICK z \in Octet : z = XorOctet[x][y]
  BY XorOctetBits
<1>2. PICK s \in Word : s = EightShifts[x]
  BY EightAreLinear
<1>3. PICK t \in Word : t = EightShifts[y]
  BY EightAreLinear
<1>4. EightShifts[z] = Xor(s, t)
  BY <1>1, <1>2, <1>3, EightAreLinear
<1>5. Lo(EightShifts[z]) = XorOctet[Lo(s)][Lo(t)]
  BY <1>4, XorByParts
<1>6. Lo(EightShifts[z]) = 0
  <2>1. Lo(s) \in Octet /\ Lo(t) \in Octet /\ Lo(s) = Lo(t)
    BY <1>2, <1>3, PartsOfWord
  <2> QED
    BY <1>5, <2>1, XorWithItself
<1>7. z = 0
  <2>1. z < 256 /\ 256 \in {1, 2, 4, 8, 16, 32, 64, 128, 256} /\ 0 % 256 = 0
    BY DEF Octet
  <2>2. Lo(EightShifts[z]) % 256 = 0
    BY <1>6, <2>1
  <2> QED
    BY <2>1, <2>2, LowBits
<1> QED
  BY <1>1, <1>7, XorWithItself

\* The octet folded in meets the high one, and what the shifts make of it the low.
LEMMA UpdateByParts ==
  ASSUME NEW c \in Word, NEW o \in Octet
  PROVE  /\ XorOctet[Hi(c)][o] \in Octet /\ CrcUpdate(o)[c] \in Word
         /\ Hi(CrcUpdate(o)[c]) = XorOctet[Lo(c)][Hi(EightShifts[XorOctet[Hi(c)][o]])]
         /\ Lo(CrcUpdate(o)[c]) = Lo(EightShifts[XorOctet[Hi(c)][o]])
<1>1. Hi(c) \in Octet /\ Lo(c) \in Octet
  BY PartsOfWord
<1>2. PICK x \in Octet : x = XorOctet[Hi(c)][o]
  BY <1>1, XorOctetBits
<1>3. PICK t \in Word : t = EightShifts[x]
  BY <1>2, EightAreLinear
<1>4. Hi(t) \in Octet /\ Lo(t) \in Octet
  BY PartsOfWord
<1>5. PICK h \in Octet : h = XorOctet[Lo(c)][Hi(t)]
  BY <1>1, <1>4, XorOctetBits
<1>6. CrcUpdate(o)[c] = h * 256 + (Lo(t))
  BY <1>2, <1>3, <1>5 DEF CrcUpdate, Hi, Lo
<1> QED
  BY <1>2, <1>3, <1>4, <1>5, <1>6, WordOfParts

\* An octet folded into a CRC gives a CRC.
LEMMA UpdateIsAWord ==
  ASSUME NEW o \in Octet PROVE CrcUpdate(o) \in [Word -> Word]
<1>1. \A c \in Word : CrcUpdate(o)[c] \in Word
  BY UpdateByParts
<1>2. CrcUpdate(o) = [c \in Word |-> CrcUpdate(o)[c]]
  BY DEF CrcUpdate
<1> QED
  BY <1>1, <1>2

\* What is combined with the same octet to the same result was the same.
LEMMA XorInjects ==
  ASSUME NEW a \in Octet, NEW b \in Octet, NEW c \in Octet, XorOctet[a][b] = XorOctet[a][c]
  PROVE  b = c
  BY XorCancels

\* The same from the other side.
LEMMA XorInjectsLeft ==
  ASSUME NEW a \in Octet, NEW b \in Octet, NEW c \in Octet, XorOctet[b][a] = XorOctet[c][a]
  PROVE  b = c
<1>1. XorOctet[a][b] = XorOctet[a][c]
  BY XorCommutes
<1> QED
  BY <1>1, XorInjects

\* Two CRCs that differ still do after the same octet.
LEMMA UpdateTells ==
  ASSUME NEW c \in Word, NEW d \in Word, NEW o \in Octet, CrcUpdate(o)[c] = CrcUpdate(o)[d]
  PROVE  c = d
<1>1. PICK x \in Octet : x = XorOctet[Hi(c)][o]
  BY UpdateByParts
<1>2. PICK y \in Octet : y = XorOctet[Hi(d)][o]
  BY UpdateByParts
<1>3. Lo(EightShifts[x]) = Lo(EightShifts[y])
  BY <1>1, <1>2, UpdateByParts
<1>4. x = y
  BY <1>3, LowTells
<1>5. Hi(c) \in Octet /\ Lo(c) \in Octet /\ Hi(d) \in Octet /\ Lo(d) \in Octet
  BY PartsOfWord
<1>6. PICK u \in Octet : u = Hi(EightShifts[x])
  BY EightAreLinear, PartsOfWord
<1>7. XorOctet[Lo(c)][u] = XorOctet[Lo(d)][u]
  <2>1. Hi(CrcUpdate(o)[c]) = XorOctet[Lo(c)][u]
    BY <1>1, <1>6, UpdateByParts
  <2>2. Hi(CrcUpdate(o)[d]) = XorOctet[Lo(d)][u]
    BY <1>2, <1>4, <1>6, UpdateByParts
  <2> QED
    BY <2>1, <2>2
<1>8. Lo(c) = Lo(d)
  BY <1>5, <1>7, XorInjectsLeft
<1>9. Hi(c) = Hi(d)
  BY <1>1, <1>2, <1>4, <1>5, XorInjectsLeft
<1> QED
  BY <1>8, <1>9, SameParts

\* XorOctet[XorOctet[a][b]][XorOctet[a][c]] cancels a.
LEMMA XorOfXors ==
  ASSUME NEW a \in Octet, NEW b \in Octet, NEW c \in Octet
  PROVE  XorOctet[XorOctet[a][b]][XorOctet[a][c]] = XorOctet[b][c]
<1>1. XorOctet[a][b] \in Octet /\ XorOctet[a][b] = XorOctet[b][a] /\ XorOctet[a][c] \in Octet
  BY XorOctetBits, XorCommutes
<1>2. XorOctet[XorOctet[b][a]][XorOctet[a][c]] = XorOctet[b][XorOctet[a][XorOctet[a][c]]]
  BY <1>1, XorAssociates
<1> QED
  BY <1>1, <1>2, XorCancels

\* From two equal combinations to the equality across them.
LEMMA SameXor ==
  ASSUME NEW a \in Octet, NEW b \in Octet, NEW m \in Octet, NEW n \in Octet,
         XorOctet[a][m] = XorOctet[b][n]
  PROVE  XorOctet[a][b] = XorOctet[m][n]
<1>3. PICK x \in Octet : x = XorOctet[a][m]
  BY XorOctetBits
<1>4. a = XorOctet[x][m] /\ b = XorOctet[x][n]
  BY <1>3, XorCancels, XorCommutes
<1>5. XorOctet[XorOctet[x][m]][XorOctet[x][n]] = XorOctet[m][n]
  BY XorOfXors
<1> QED
  BY <1>4, <1>5

\* A CRC after three octets.
AfterThree(c, o1, o2, o3) == CrcUpdate(o3)[CrcUpdate(o2)[CrcUpdate(o1)[c]]]

\* The three octets that take one CRC to the same CRC as three others do: what
\* they differ by is what the first difference makes of itself.
LEMMA ThreeOctets ==
  ASSUME NEW c \in Word, NEW o1 \in Octet, NEW o2 \in Octet, NEW o3 \in Octet,
         NEW b1 \in Octet, NEW b2 \in Octet, NEW b3 \in Octet,
         AfterThree(c, o1, o2, o3) = AfterThree(c, XorOctet[o1][b1], XorOctet[o2][b2], XorOctet[o3][b3])
  PROVE  Hi(EightShifts[b1]) = b2 /\ Lo(EightShifts[b1]) = b3
<1>a. PICK q1 \in Octet : q1 = XorOctet[o1][b1] /\ XorOctet[o1][q1] = b1
  BY XorOctetBits, XorCancels
<1>b. PICK q2 \in Octet : q2 = XorOctet[o2][b2] /\ XorOctet[o2][q2] = b2
  BY XorOctetBits, XorCancels
<1>c. PICK q3 \in Octet : q3 = XorOctet[o3][b3] /\ XorOctet[o3][q3] = b3
  BY XorOctetBits, XorCancels
<1>0. AfterThree(c, o1, o2, o3) = AfterThree(c, q1, q2, q3)
  BY <1>a, <1>b, <1>c
<1>1. PICK h \in Octet, l \in Octet : h = Hi(c) /\ l = Lo(c)
  BY PartsOfWord
<1>2. PICK x1 \in Octet, y1 \in Octet : x1 = XorOctet[h][o1] /\ y1 = XorOctet[h][q1]
  BY XorOctetBits
<1>3. PICK c1 \in Word, d1 \in Word : c1 = CrcUpdate(o1)[c] /\ d1 = CrcUpdate(q1)[c]
  BY UpdateByParts
<1>4. PICK x2 \in Octet, y2 \in Octet : x2 = XorOctet[Hi(c1)][o2] /\ y2 = XorOctet[Hi(d1)][q2]
  BY PartsOfWord, XorOctetBits
<1>5. PICK c2 \in Word, d2 \in Word : c2 = CrcUpdate(o2)[c1] /\ d2 = CrcUpdate(q2)[d1]
  BY UpdateByParts
<1>6. PICK x3 \in Octet, y3 \in Octet : x3 = XorOctet[Hi(c2)][o3] /\ y3 = XorOctet[Hi(d2)][q3]
  BY PartsOfWord, XorOctetBits
<1>7. CrcUpdate(o3)[c2] = CrcUpdate(q3)[d2]
  BY <1>0, <1>3, <1>5 DEF AfterThree
<1>8. x3 = y3
  <2>1. Lo(EightShifts[x3]) = Lo(EightShifts[y3])
    BY <1>6, <1>7, UpdateByParts
  <2> QED
    BY <2>1, LowTells
<1>9. Lo(c2) = Lo(d2)
  <2>1. PICK u \in Octet : u = Hi(EightShifts[x3])
    BY EightAreLinear, PartsOfWord
  <2>2. XorOctet[Lo(c2)][u] = XorOctet[Lo(d2)][u]
    <3>1. Hi(CrcUpdate(o3)[c2]) = XorOctet[Lo(c2)][u]
      BY <1>6, <2>1, UpdateByParts
    <3>2. Hi(CrcUpdate(q3)[d2]) = XorOctet[Lo(d2)][u]
      BY <1>6, <1>8, <2>1, UpdateByParts
    <3> QED
      BY <1>7, <3>1, <3>2
  <2>3. Lo(c2) \in Octet /\ Lo(d2) \in Octet
    BY PartsOfWord
  <2> QED
    BY <2>2, <2>3, XorInjectsLeft
<1>10. x2 = y2
  <2>1. Lo(EightShifts[x2]) = Lo(EightShifts[y2])
    BY <1>4, <1>5, <1>9, UpdateByParts
  <2> QED
    BY <2>1, LowTells
<1>11. PICK s \in Word, t \in Word : s = EightShifts[x1] /\ t = EightShifts[y1]
  BY EightAreLinear
<1>13. EightShifts[b1] = Xor(s, t)
  <2>1. XorOctet[x1][y1] = b1
    <3>1. XorOctet[x1][y1] = XorOctet[o1][q1]
      BY <1>2, XorOfXors
    <3> QED
      BY <1>a, <3>1
  <2> QED
    BY <1>11, <2>1, EightAreLinear
<1>14. /\ Hi(c1) = XorOctet[l][Hi(s)] /\ Lo(c1) = Lo(s)
       /\ Hi(d1) = XorOctet[l][Hi(t)] /\ Lo(d1) = Lo(t)
  BY <1>1, <1>2, <1>3, <1>11, UpdateByParts
<1>15. /\ Hi(s) \in Octet /\ Lo(s) \in Octet /\ Hi(t) \in Octet /\ Lo(t) \in Octet
       /\ Hi(c1) \in Octet /\ Lo(c1) \in Octet /\ Hi(d1) \in Octet /\ Lo(d1) \in Octet
       /\ Hi(c2) \in Octet /\ Lo(c2) \in Octet /\ Hi(d2) \in Octet /\ Lo(d2) \in Octet
  BY PartsOfWord
<1>16. XorOctet[Hi(s)][Hi(t)] = b2
  <2>1. XorOctet[Hi(c1)][Hi(d1)] = XorOctet[Hi(s)][Hi(t)]
    BY <1>14, <1>15, XorOfXors, SMTT(30)
  <2>2. XorOctet[Hi(c1)][Hi(d1)] = b2
    <3>1. PICK m \in Octet, n \in Octet : m = Hi(c1) /\ n = Hi(d1)
      BY <1>15
    <3>2. XorOctet[m][o2] = XorOctet[n][q2]
      BY <1>4, <1>10, <3>1
    <3>3. XorOctet[m][n] = XorOctet[o2][q2]
      BY <3>2, SameXor, SMTT(30)
    <3> QED
      BY <1>b, <3>1, <3>3
  <2> QED
    BY <2>1, <2>2
<1>17. XorOctet[Lo(s)][Lo(t)] = b3
  <2>1. PICK v \in Octet : v = Hi(EightShifts[x2])
    BY EightAreLinear, PartsOfWord
  <2>2. Hi(c2) = XorOctet[Lo(s)][v] /\ Hi(d2) = XorOctet[Lo(t)][v]
    <3>1. Hi(CrcUpdate(o2)[c1]) = XorOctet[Lo(c1)][v]
      BY <1>4, <2>1, UpdateByParts
    <3>2. Hi(CrcUpdate(q2)[d1]) = XorOctet[Lo(d1)][v]
      BY <1>4, <1>10, <2>1, UpdateByParts
    <3> QED
      BY <1>5, <1>14, <3>1, <3>2
  <2>3. XorOctet[Hi(c2)][Hi(d2)] = XorOctet[Lo(s)][Lo(t)]
    <3>1. Hi(c2) = XorOctet[v][Lo(s)] /\ Hi(d2) = XorOctet[v][Lo(t)]
      BY <1>15, <2>2, XorCommutes
    <3>2. PICK m \in Octet, n \in Octet : m = Lo(s) /\ n = Lo(t)
      BY <1>15
    <3> QED
      BY <3>1, <3>2, XorOfXors, SMTT(30)
  <2>4. XorOctet[Hi(c2)][Hi(d2)] = b3
    <3>1. PICK m \in Octet, n \in Octet : m = Hi(c2) /\ n = Hi(d2)
      BY <1>15
    <3>2. XorOctet[m][o3] = XorOctet[n][q3]
      BY <1>6, <1>8, <3>1
    <3>3. XorOctet[m][n] = XorOctet[o3][q3]
      BY <3>2, SameXor, SMTT(30)
    <3> QED
      BY <1>c, <3>1, <3>3
  <2> QED
    BY <2>3, <2>4
<1> QED
  BY <1>13, <1>16, <1>17, XorByParts

\* The ground keeps the bit that falls out until its polynomial takes it away.
LEMMA RoundIsShift == ASSUME NEW c \in Word PROVE Round(c) = ShiftOnce(c)
<1>1. CASE c < 32768
  BY <1>1, SMT DEF Round, ShiftOnce, Word
<1>2. CASE c >= 32768
  <2>1. PICK d \in Nat : d = (2 * c) % 65536 /\ 2 * c = d + 65536 /\ d < 65536
    BY <1>2, SMT DEF Word
  <2>2. /\ (2 * c) \div 65536 = 1 /\ ((2 * c) \div 256) % 256 = (d \div 256) % 256 /\ (2 * c) % 256 = d % 256
        /\ d \div 65536 = 0
    BY <2>1, SMTT(30)
  <2>3. /\ 69665 \div 65536 = 1 /\ (69665 \div 256) % 256 = 16 /\ 69665 % 256 = 33
        /\ 4129 \div 65536 = 0 /\ (4129 \div 256) % 256 = 16 /\ 4129 % 256 = 33
    BY SMT
  <2>4. XorOctet[1][1] = 0 /\ XorOctet[0][0] = 0
    <3>1. 0 \in Octet /\ 1 \in Octet
      BY DEF Octet
    <3> QED
      BY <3>1, XorWithItself
  <2>5. Xor(2 * c, 69665) = XorOctet[1][1] * 65536 + XorOctet[(d \div 256) % 256][16] * 256 +
        XorOctet[d % 256][33]
    BY <2>2, <2>3, SMT DEF Xor
  <2>6. Xor(d, 4129) = XorOctet[0][0] * 65536 + XorOctet[(d \div 256) % 256][16] * 256 + XorOctet[d % 256][33]
    BY <2>2, <2>3, SMT DEF Xor
  <2> QED
    BY <1>2, <2>1, <2>4, <2>5, <2>6, SMT DEF Round, ShiftOnce, kCrcPolynomial
<1> QED
  BY <1>1, <1>2, SMT DEF Word

\* An octet is folded in by the same function at both ends.
LEMMA FoldedIsUpdate == ASSUME NEW o \in Octet PROVE Folded(o) = CrcUpdate(o)
<1>1. \A c \in Word : RoundTwice(c) = ShiftTwice(c) /\ ShiftTwice(c) \in Word
  BY RoundIsShift, ShiftIsAWord DEF RoundTwice, ShiftTwice
<1>2. ASSUME NEW x \in Octet PROVE Rounds[x] = EightShifts[x]
  <2>1. PICK c \in Word : c = x * 256 /\ c = 256 * x
    <3>1. 0 \in Octet /\ x * 256 + 0 = x * 256 /\ x * 256 = 256 * x
      BY DEF Octet
    <3> QED
      BY <3>1, WordOfParts
  <2>2. Rounds[x] = RoundTwice(RoundTwice(RoundTwice(RoundTwice(c))))
    BY <2>1 DEF Rounds
  <2>3. EightShifts[x] = ShiftTwice(ShiftTwice(ShiftTwice(ShiftTwice(c))))
    BY <2>1 DEF EightShifts
  <2> QED
    BY <1>1, <2>2, <2>3
<1>3. ASSUME NEW c \in Word PROVE Folded(o)[c] = CrcUpdate(o)[c]
  <2>1. PICK x \in Octet : x = XorOctet[Hi(c)][o]
    BY UpdateByParts
  <2>2. PICK t \in Word : t = EightShifts[x] /\ t = Rounds[x]
    BY <1>2, EightAreLinear
  <2>3. Hi(t) \in Octet /\ Lo(t) \in Octet /\ Lo(c) \in Octet
    BY PartsOfWord
  <2>4. PICK h \in Octet : h = XorOctet[Lo(c)][Hi(t)] /\ h = XorOctet[Hi(t)][Lo(c)]
    BY <2>3, XorOctetBits, XorCommutes
  <2>5. Folded(o)[c] = 256 * h + Lo(t)
    BY <2>1, <2>2, <2>4, SMTT(30) DEF Folded, Hi, Lo
  <2>6. CrcUpdate(o)[c] = h * 256 + Lo(t)
    <3>1. EightShifts[XorOctet[c \div 256][o]] = t
      BY <2>1, <2>2 DEF Hi
    <3>2. h = XorOctet[c % 256][t \div 256]
      BY <2>4 DEF Hi, Lo
    <3> QED
      BY <3>1, <3>2 DEF CrcUpdate, Lo
  <2> QED
    BY <2>3, <2>5, <2>6 DEF Octet
<1>4. Folded(o) = [c \in Word |-> Folded(o)[c]] /\ CrcUpdate(o) = [c \in Word |-> CrcUpdate(o)[c]]
  BY DEF Folded, CrcUpdate
<1> QED
  BY <1>3, <1>4

-----------------------------------------------------------------------------
\* The CRC of a sequence of octets.

\* A non-empty set of natural numbers has a smallest member.
LEMMA SmallestMember ==
  ASSUME NEW T \in SUBSET Nat, T # {}
  PROVE  \E x \in T : \A y \in T : x <= y
<1> DEFINE Less == {p \in Nat \X Nat : p[1] < p[2]}
<1>1. IsWellFoundedOn(Less, Nat)
  BY NatLessThanWellFounded, Zenon DEF OpToRel
<1>2. PICK x \in T : \A y \in T : <<y, x>> \notin Less
  <2> HIDE DEF Less
  <2> QED BY <1>1, WFMin
<1>3. \A y \in T : ~(y < x)
  BY <1>2
<1> QED
  BY <1>3

\* A run of members of S: the first is given, and each of the others is made of the one
\* before it.
Run(g, n, S, first, step) ==
  /\ g \in [0 .. n -> S] /\ g[0] = first
  /\ \A i \in 1 .. n : g[i] = step[i][g[i - 1]]

\* A run of any number of steps exists.
LEMMA RunExists ==
  ASSUME NEW S, NEW n \in Nat, NEW first \in S, NEW step \in [1 .. n -> [S -> S]]
  PROVE  \E g : Run(g, n, S, first, step)
<1> DEFINE Bad == {m \in 0 .. n : ~\E g : Run(g, m, S, first, step)}
<1>1. SUFFICES Bad = {}
  BY <1>1
<1>2. SUFFICES ASSUME Bad # {} PROVE FALSE
  OBVIOUS
<1>3. PICK m \in Bad : \A k \in Bad : m <= k
  <2>1. Bad \in SUBSET Nat
    OBVIOUS
  <2> HIDE DEF Bad
  <2> QED
    BY <1>2, <2>1, SmallestMember
<1>4. m \in 0 .. n /\ m \in Nat /\ ~\E g : Run(g, m, S, first, step)
  OBVIOUS
<1>5. CASE m = 0
  <2>1. Run([i \in 0 .. 0 |-> first], 0, S, first, step)
    BY DEF Run
  <2> QED
    BY <1>4, <1>5, <2>1
<1>6. CASE m > 0
  <2>1. m - 1 \in 0 .. n /\ m - 1 \notin Bad
    <3>1. m - 1 \in 0 .. n /\ ~(m <= m - 1)
      BY <1>4, <1>6
    <3> HIDE DEF Bad
    <3> QED
      BY <1>3, <3>1
  <2>2. PICK g : Run(g, m - 1, S, first, step)
    BY <2>1
  <2> DEFINE h == [i \in 0 .. m |-> IF i = m THEN step[m][g[m - 1]] ELSE g[i]]
  <2>3. m \in 1 .. n /\ \A i \in 0 .. m : i = m \/ i \in 0 .. m - 1
    BY <1>4, <1>6
  <2>4. g[m - 1] \in S /\ step[m] \in [S -> S]
    BY <2>2, <2>3 DEF Run
  <2>5. h \in [0 .. m -> S]
    BY <2>2, <2>3, <2>4 DEF Run
  <2>6. h[0] = first
    BY <1>6, <2>2, <2>3 DEF Run
  <2>7. ASSUME NEW i \in 1 .. m PROVE h[i] = step[i][h[i - 1]]
    <3>1. i \in 0 .. m /\ i - 1 \in 0 .. m /\ i - 1 # m /\ h[i - 1] = g[i - 1]
      OBVIOUS
    <3>2. CASE i = m
      BY <3>1, <3>2
    <3>3. CASE i # m
      <4>1. i \in 1 .. m - 1 /\ h[i] = g[i]
        BY <3>1, <3>3
      <4> QED
        BY <2>2, <3>1, <4>1 DEF Run
    <3> QED
      BY <3>2, <3>3
  <2> HIDE DEF h
  <2>8. Run(h, m, S, first, step)
    BY <2>5, <2>6, <2>7 DEF Run
  <2> QED
    BY <1>4, <2>8
<1> QED
  BY <1>4, <1>5, <1>6

\* Two runs agree as far as their steps do.
LEMMA RunsAgree ==
  ASSUME NEW n \in Nat, NEW k \in Nat, NEW j \in Nat, j <= n, j <= k, NEW S, NEW first,
         NEW f, NEW g, NEW step, NEW other, Run(f, n, S, first, step), Run(g, k, S, first, other),
         \A i \in 1 .. j : step[i] = other[i]
  PROVE  \A i \in 0 .. j : f[i] = g[i]
<1> DEFINE Bad == {m \in 0 .. j : f[m] # g[m]}
<1>1. SUFFICES ASSUME Bad # {} PROVE FALSE
  OBVIOUS
<1>2. PICK m \in Bad : \A i \in Bad : m <= i
  <2>1. Bad \in SUBSET Nat
    OBVIOUS
  <2> HIDE DEF Bad
  <2> QED
    BY <1>1, <2>1, SmallestMember
<1>3. m \in 0 .. j /\ f[m] # g[m]
  OBVIOUS
<1>4. m # 0
  BY <1>3 DEF Run
<1>5. m - 1 \in 0 .. j /\ m - 1 \notin Bad /\ m \in 1 .. j /\ m \in 1 .. n /\ m \in 1 .. k
  BY <1>2, <1>3, <1>4
<1>6. f[m - 1] = g[m - 1]
  BY <1>5
<1>7. f[m] = step[m][f[m - 1]] /\ g[m] = other[m][g[m - 1]] /\ step[m] = other[m]
  BY <1>5 DEF Run
<1> QED
  BY <1>3, <1>6, <1>7

\* A function that is defined by its value before.
ByRecursion(f, n, first, step) == f = [i \in 0 .. n |-> IF i = 0 THEN first ELSE step[i][f[i - 1]]]

\* What a function that is defined by its value before is, is a run; and a run is
\* such a function.
LEMMA RunIsRecursion ==
  ASSUME NEW S, NEW n \in Nat, NEW first \in S, NEW step \in [1 .. n -> [S -> S]], NEW f
  PROVE  Run(f, n, S, first, step) <=> ByRecursion(f, n, first, step)
<1>0. \A i \in 0 .. n : i = 0 \/ i \in 1 .. n
  OBVIOUS
<1>1. ASSUME Run(f, n, S, first, step)
      PROVE  f = [i \in 0 .. n |-> IF i = 0 THEN first ELSE step[i][f[i - 1]]]
  <2>1. f = [i \in 0 .. n |-> f[i]]
    BY <1>1 DEF Run
  <2>2. \A i \in 0 .. n : f[i] = IF i = 0 THEN first ELSE step[i][f[i - 1]]
    BY <1>0, <1>1 DEF Run
  <2> QED
    BY <2>1, <2>2
<1>2. ASSUME f = [i \in 0 .. n |-> IF i = 0 THEN first ELSE step[i][f[i - 1]]]
      PROVE  Run(f, n, S, first, step)
  <2>1. /\ f = [i \in 0 .. n |-> f[i]] /\ f[0] = first
        /\ \A i \in 1 .. n : f[i] = step[i][f[i - 1]]
    BY <1>2
  <2> DEFINE Bad == {m \in 0 .. n : f[m] \notin S}
  <2>2. Bad = {}
    <3>1. SUFFICES ASSUME Bad # {} PROVE FALSE
      OBVIOUS
    <3>2. PICK m \in Bad : \A i \in Bad : m <= i
      <4>1. Bad \in SUBSET Nat
        OBVIOUS
      <4> HIDE DEF Bad
      <4> QED
        BY <3>1, <4>1, SmallestMember
    <3>3. m \in 0 .. n /\ f[m] \notin S /\ m # 0
      BY <2>1
    <3>4. m - 1 \in 0 .. n /\ m - 1 \notin Bad /\ m \in 1 .. n
      BY <3>2, <3>3
    <3>5. f[m - 1] \in S /\ f[m] = step[m][f[m - 1]] /\ step[m] \in [S -> S]
      BY <2>1, <3>4
    <3> QED
      BY <3>3, <3>5
  <2>3. f \in [0 .. n -> S]
    BY <2>1, <2>2
  <2> QED
    BY <2>1, <2>3 DEF Run
<1> QED
  BY <1>1, <1>2 DEF ByRecursion

\* Folding in the octets one by one.
StepsOf(data) == [i \in 1 .. Len(data) |-> CrcUpdate(data[i])]

\* Folding an octet is a step of a run, the same step at the two ends.
LEMMA StepsAreSteps ==
  ASSUME NEW data \in Seq(Octet)
  PROVE  /\ Len(data) \in Nat /\ StepsOf(data) \in [1 .. Len(data) -> [Word -> Word]]
         /\ kCrcSeed \in Word
         /\ \A i \in 1 .. Len(data) : /\ data[i] \in Octet /\ StepsOf(data)[i] = CrcUpdate(data[i])
                                      /\ StepsOf(data)[i] = Folded(data[i])
<1>1. Len(data) \in Nat /\ \A i \in 1 .. Len(data) : data[i] \in Octet
  OBVIOUS
<1>2. StepsOf(data) \in [1 .. Len(data) -> [Word -> Word]]
  BY <1>1, UpdateIsAWord DEF StepsOf
<1>3. kCrcSeed \in Word
  BY SMT DEF kCrcSeed, Word
<1>4. \A i \in 1 .. Len(data) : StepsOf(data)[i] = CrcUpdate(data[i])
  BY DEF StepsOf
<1> QED
  BY <1>1, <1>2, <1>3, <1>4, FoldedIsUpdate

\* The CRCs of the prefixes are the run of these steps, in the flight software,
LEMMA CrcsRun ==
  ASSUME NEW data \in Seq(Octet)
  PROVE  Run(Crcs(data), Len(data), Word, kCrcSeed, StepsOf(data))
<1> DEFINE Is(g) == g = [m \in 0 .. Len(data) |-> IF m = 0 THEN kCrcSeed ELSE CrcUpdate(data[m])[g[m - 1]]]
<1>0. PICK n \in Nat : n = Len(data)
  BY StepsAreSteps
<1>1. PICK step \in [1 .. n -> [Word -> Word]], seed \in Word : step = StepsOf(data) /\ seed = kCrcSeed
  BY <1>0, StepsAreSteps
<1>2. \A i \in 1 .. n : step[i] = CrcUpdate(data[i])
  BY <1>0, <1>1, StepsAreSteps
<1>3. ASSUME NEW f PROVE Is(f) <=> Run(f, n, Word, seed, step)
  <2>1. Run(f, n, Word, seed, step) <=> ByRecursion(f, n, seed, step)
    BY RunIsRecursion
  <2>2. \A i \in 0 .. n : i = 0 \/ i \in 1 .. n
    OBVIOUS
  <2>3. [i \in 0 .. n |-> IF i = 0 THEN seed ELSE step[i][f[i - 1]]]
        = [i \in 0 .. n |-> IF i = 0 THEN kCrcSeed ELSE CrcUpdate(data[i])[f[i - 1]]]
    BY <1>0, <1>1, <1>2, <2>2
  <2>4. Is(f) <=> f = [i \in 0 .. n |-> IF i = 0 THEN kCrcSeed ELSE CrcUpdate(data[i])[f[i - 1]]]
    BY <1>0
  <2> HIDE DEF Is
  <2> QED
    BY <2>1, <2>3, <2>4, Zenon DEF ByRecursion
<1>4. \E f : Run(f, n, Word, seed, step)
  BY RunExists
<1>5. Crcs(data) = CHOOSE f : Is(f)
  BY DEF Crcs
<1> HIDE DEF Is
<1>6. Is(Crcs(data))
  BY <1>3, <1>4, <1>5
<1> QED
  BY <1>0, <1>1, <1>3, <1>6

\* and on the ground.
LEMMA CrcsOfRun ==
  ASSUME NEW data \in Seq(Octet)
  PROVE  Run(CrcsOf(data), Len(data), Word, kCrcSeed, StepsOf(data))
<1> DEFINE Is(g) == g = [m \in 0 .. Len(data) |-> IF m = 0 THEN kCrcSeed ELSE Folded(data[m])[g[m - 1]]]
<1>0. PICK n \in Nat : n = Len(data)
  BY StepsAreSteps
<1>1. PICK step \in [1 .. n -> [Word -> Word]], seed \in Word : step = StepsOf(data) /\ seed = kCrcSeed
  BY <1>0, StepsAreSteps
<1>2. \A i \in 1 .. n : step[i] = Folded(data[i])
  BY <1>0, <1>1, StepsAreSteps
<1>3. ASSUME NEW f PROVE Is(f) <=> Run(f, n, Word, seed, step)
  <2>1. Run(f, n, Word, seed, step) <=> ByRecursion(f, n, seed, step)
    BY RunIsRecursion
  <2>2. \A i \in 0 .. n : i = 0 \/ i \in 1 .. n
    OBVIOUS
  <2>3. [i \in 0 .. n |-> IF i = 0 THEN seed ELSE step[i][f[i - 1]]]
        = [i \in 0 .. n |-> IF i = 0 THEN kCrcSeed ELSE Folded(data[i])[f[i - 1]]]
    BY <1>0, <1>1, <1>2, <2>2
  <2>4. Is(f) <=> f = [i \in 0 .. n |-> IF i = 0 THEN kCrcSeed ELSE Folded(data[i])[f[i - 1]]]
    BY <1>0
  <2> HIDE DEF Is
  <2> QED
    BY <2>1, <2>3, <2>4, Zenon DEF ByRecursion
<1>4. \E f : Run(f, n, Word, seed, step)
  BY RunExists
<1>5. CrcsOf(data) = CHOOSE f : Is(f)
  BY DEF CrcsOf, kCrcSeed
<1> HIDE DEF Is
<1>6. Is(CrcsOf(data))
  BY <1>3, <1>4, <1>5
<1> QED
  BY <1>0, <1>1, <1>3, <1>6

\* The two ends compute the same CRC.
THEOREM BothEndsAgree ==
  ASSUME NEW data \in Seq(Octet)
  PROVE  Crc(data) \in Word /\ CrcOf(data) = Crc(data)
<1>1. PICK n \in Nat : n = Len(data)
  BY StepsAreSteps
<1>0. PICK step : step = StepsOf(data)
  BY Zenon
<1>2. Run(Crcs(data), n, Word, kCrcSeed, step) /\ Run(CrcsOf(data), n, Word, kCrcSeed, step)
  BY <1>0, <1>1, CrcsRun, CrcsOfRun
<1>3. n <= n /\ n \in 0 .. n
  OBVIOUS
<1>4. CrcsOf(data)[n] = Crcs(data)[n]
  <2>1. PICK f, g, seed : f = CrcsOf(data) /\ g = Crcs(data) /\ seed = kCrcSeed
    OBVIOUS
  <2>2. Run(f, n, Word, seed, step) /\ Run(g, n, Word, seed, step) /\ \A i \in 1 .. n : step[i] = step[i]
    BY <1>2, <2>1
  <2>3. \A i \in 0 .. n : f[i] = g[i]
    BY <1>3, <2>2, RunsAgree
  <2> QED
    BY <1>3, <2>1, <2>3
<1>5. Crcs(data)[n] \in Word
  BY <1>2, <1>3 DEF Run
<1> QED
  BY <1>1, <1>4, <1>5 DEF Crc, CrcOf

-----------------------------------------------------------------------------
\* Bursts.

\* The CRC is the last of the CRCs of the prefixes.
LEMMA CrcIsTheLast ==
  ASSUME NEW data \in Seq(Octet), NEW n \in Nat, n = Len(data)
  PROVE  /\ Crcs(data) \in [0 .. n -> Word] /\ Crcs(data)[0] = kCrcSeed /\ Crc(data) = Crcs(data)[n]
         /\ \A i \in 1 .. n : Crcs(data)[i] = CrcUpdate(data[i])[Crcs(data)[i - 1]]
<1>1. \A i \in 1 .. n : StepsOf(data)[i] = CrcUpdate(data[i])
  BY StepsAreSteps
<1> QED
  BY <1>1, CrcsRun DEF Run, Crc

\* Sequences that begin alike have the same CRC so far.
LEMMA SameSoFar ==
  ASSUME NEW data \in Seq(Octet), NEW other \in Seq(Octet), NEW j \in Nat,
         j <= Len(data), j <= Len(other), \A i \in 1 .. j : data[i] = other[i]
  PROVE  Crcs(data)[j] = Crcs(other)[j]
<1>1. PICK n \in Nat, k \in Nat : n = Len(data) /\ k = Len(other)
  BY StepsAreSteps
<1>2. PICK f, g, seed, step, steps : /\ f = Crcs(data) /\ g = Crcs(other) /\ seed = kCrcSeed
                                     /\ step = StepsOf(data) /\ steps = StepsOf(other)
  OBVIOUS
<1>3. Run(f, n, Word, seed, step) /\ Run(g, k, Word, seed, steps)
  BY <1>1, <1>2, CrcsRun
<1>4. \A i \in 1 .. j : step[i] = steps[i]
  <2>1. TAKE i \in 1 .. j
  <2>2. i \in 1 .. n /\ i \in 1 .. k
    BY <1>1
  <2> QED
    BY <1>1, <1>2, <2>2, StepsAreSteps
<1>5. \A i \in 0 .. j : f[i] = g[i]
  BY <1>1, <1>3, <1>4, RunsAgree
<1> QED
  BY <1>2, <1>5

\* And once they differ and go on alike, they stay apart.
LEMMA ApartToTheEnd ==
  ASSUME NEW data \in Seq(Octet), NEW other \in Seq(Octet), NEW j \in Nat,
         j <= Len(data), Len(data) = Len(other), \A i \in j + 1 .. Len(data) : data[i] = other[i],
         Crcs(data)[j] # Crcs(other)[j]
  PROVE  Crc(data) # Crc(other)
<1>1. PICK n \in Nat : n = Len(data) /\ n = Len(other)
  BY StepsAreSteps
<1>2. PICK f, g : f = Crcs(data) /\ g = Crcs(other)
  OBVIOUS
<1>3. /\ f \in [0 .. n -> Word] /\ g \in [0 .. n -> Word] /\ Crc(data) = f[n] /\ Crc(other) = g[n]
      /\ \A i \in 1 .. n : f[i] = CrcUpdate(data[i])[f[i - 1]] /\ g[i] = CrcUpdate(other[i])[g[i - 1]]
  BY <1>1, <1>2, CrcIsTheLast
<1> DEFINE Bad == {m \in j .. n : f[m] = g[m]}
<1>4. Bad = {}
  <2>1. SUFFICES ASSUME Bad # {} PROVE FALSE
    OBVIOUS
  <2>2. PICK m \in Bad : \A i \in Bad : m <= i
    <3>1. Bad \in SUBSET Nat
      OBVIOUS
    <3> HIDE DEF Bad
    <3> QED
      BY <2>1, <3>1, SmallestMember
  <2>3. m \in j .. n /\ f[m] = g[m] /\ m # j
    BY <1>2
  <2>4. m - 1 \in j .. n /\ m - 1 \notin Bad /\ m \in 1 .. n /\ m \in j + 1 .. n
    BY <2>2, <2>3
  <2>5. data[m] = other[m] /\ data[m] \in Octet
    BY <1>1, <2>4
  <2>6. m - 1 \in 0 .. n /\ f[m - 1] # g[m - 1]
    BY <2>4
  <2>7. f[m - 1] \in Word /\ g[m - 1] \in Word
    BY <1>3, <2>6
  <2>8. CrcUpdate(data[m])[f[m - 1]] = CrcUpdate(data[m])[g[m - 1]]
    BY <1>3, <2>3, <2>4, <2>5
  <2> QED
    BY <2>5, <2>6, <2>7, <2>8, UpdateTells
<1>5. n \in j .. n
  BY <1>1
<1> QED
  BY <1>3, <1>4, <1>5

\* The three octets of a burst cannot make up for each other: of sixteen bits in a
\* row, the CRC remembers them all.
LEMMA BurstOctets ==
  ASSUME NEW c \in Word, NEW o1 \in Octet, NEW o2 \in Octet, NEW o3 \in Octet,
         NEW b1 \in Octet, NEW b2 \in Octet, NEW b3 \in Octet,
         NEW p \in Powers, b1 < p, b3 % p = 0,
         AfterThree(c, o1, o2, o3) = AfterThree(c, XorOctet[o1][b1], XorOctet[o2][b2], XorOctet[o3][b3])
  PROVE  b1 = 0 /\ b2 = 0 /\ b3 = 0
<1>6. Hi(EightShifts[b1]) = b2 /\ Lo(EightShifts[b1]) = b3
  BY ThreeOctets
<1>7. b1 = 0
  BY <1>6, LowBits DEF Powers
<1> QED
  BY <1>6, <1>7, NothingShifted

\* A burst of up to sixteen bits is never missed, wherever in the packet it falls,
\* the CRC's own octets included.
THEOREM BurstsChangeTheCrc ==
  ASSUME NEW data \in Seq(Octet), NEW burst, IsBurst(burst), NEW at \in Nat, at + Len(burst) <= Len(data)
  PROVE  Hit(data, burst, at) \in Seq(Octet) /\ Len(Hit(data, burst, at)) = Len(data)
         /\ Crc(data) # Crc(Hit(data, burst, at))
<1>1. PICK n \in Nat : n = Len(data) /\ DOMAIN data = 1 .. n /\ \A k \in 1 .. n : data[k] \in Octet
  OBVIOUS
<1>2. PICK L \in 1 .. 3 : L = Len(burst) /\ \A k \in 1 .. L : burst[k] \in Octet
  BY DEF IsBurst
<1>3. PICK hit : hit = Hit(data, burst, at)
  OBVIOUS
<1>4. /\ \A k \in 1 .. n : k \notin at + 1 .. at + L => hit[k] = data[k]
      /\ \A k \in at + 1 .. at + L : hit[k] = XorOctet[data[k]][burst[k - at]]
      /\ hit = [k \in 1 .. n |-> hit[k]]
  BY <1>1, <1>2, <1>3 DEF Hit
<1>5. ASSUME NEW k \in 1 .. n PROVE hit[k] \in Octet
  <2>1. CASE k \in at + 1 .. at + L
    <3>1. k - at \in 1 .. L
      BY <2>1
    <3> QED
      BY <1>1, <1>2, <1>4, <2>1, <3>1, XorOctetBits
  <2> QED
    BY <1>1, <1>4, <2>1
<1>6. hit \in Seq(Octet) /\ Len(hit) = n
  BY <1>4, <1>5
<1>7. PICK f, g : f = Crcs(data) /\ g = Crcs(hit)
  OBVIOUS
<1>8. f[at] = g[at] /\ f[at] \in Word
  <2>1. \A i \in 1 .. at : data[i] = hit[i]
    BY <1>1, <1>2, <1>4
  <2>2. at <= n /\ at \in 0 .. n
    BY <1>1, <1>2
  <2> QED
    <3>1. at <= Len(data) /\ at <= Len(hit)
      BY <1>1, <1>6, <2>2
    <3>2. f[at] = g[at]
      BY <1>6, <1>7, <2>1, <3>1, SameSoFar
    <3>3. f \in [0 .. n -> Word]
      BY <1>1, <1>7, CrcIsTheLast
    <3> QED
      BY <2>2, <3>2, <3>3
<1>9. \A i \in 1 .. n : f[i] = CrcUpdate(data[i])[f[i - 1]] /\ g[i] = CrcUpdate(hit[i])[g[i - 1]]
  BY <1>1, <1>6, <1>7, CrcIsTheLast
<1>10. PICK c \in Word : c = f[at]
  BY <1>8
<1>11. f[at + L] # g[at + L]
  <2>0. SUFFICES ASSUME f[at + L] = g[at + L] PROVE FALSE
    OBVIOUS
  <2>1. at + 1 \in 1 .. n /\ (at + 1) - 1 = at /\ 1 \in 1 .. L /\ (at + 1) - at = 1 /\ at + 1 \in at +
        1 .. at + L
    BY <1>1, <1>2
  <2>2. PICK o1 \in Octet, b1 \in Octet : o1 = data[at + 1] /\ b1 = burst[1] /\ hit[at + 1] = XorOctet[o1][b1]
    <3>1. hit[at + 1] = XorOctet[data[at + 1]][burst[(at + 1) - at]]
      BY <1>4, <2>1
    <3>2. data[at + 1] \in Octet /\ burst[1] \in Octet
      BY <1>1, <1>2, <2>1
    <3> QED
      BY <2>1, <3>1, <3>2
  <2>3. f[at + 1] = CrcUpdate(o1)[c] /\ g[at + 1] = CrcUpdate(XorOctet[o1][b1])[c]
    BY <1>8, <1>9, <1>10, <2>1, <2>2
  <2>4. 0 \in Octet /\ XorOctet[0][0] = 0 /\ 256 \in Powers /\ b1 < 256 /\ 0 % 256 = 0
    <3>1. 0 \in Octet /\ b1 < 256
      BY DEF Octet
    <3> QED
      BY <3>1, XorWithZero DEF Powers
  <2>5. CASE L = 1
    <3>1. AfterThree(c, o1, 0, 0) = AfterThree(c, XorOctet[o1][b1], XorOctet[0][0], XorOctet[0][0])
      BY <2>0, <2>3, <2>4, <2>5 DEF AfterThree
    <3>2. b1 = 0
      <4>1. PICK z \in Octet, p \in Powers : z = 0 /\ p = 256
        BY <2>4
      <4>2. AfterThree(c, o1, z, z) = AfterThree(c, XorOctet[o1][b1], XorOctet[z][z], XorOctet[z][z])
        BY <3>1, <4>1
      <4>3. b1 < p /\ z % p = 0
        BY <2>4, <4>1
      <4> QED
        BY <4>2, <4>3, BurstOctets
    <3>3. \A k \in 1 .. L : k = 1
      BY <2>5
    <3> QED
      BY <1>2, <2>2, <3>2, <3>3 DEF IsBurst
  <2>6. ASSUME L # 1
        PROVE  \E o2, b2 \in Octet : /\ b2 = burst[2]
                                     /\ f[at + 2] = CrcUpdate(o2)[CrcUpdate(o1)[c]]
                                     /\ g[at + 2] = CrcUpdate(XorOctet[o2][b2])[CrcUpdate(XorOctet[o1][b1])[c]]
    <3>1. at + 2 \in 1 .. n /\ (at + 2) - 1 = at + 1 /\ 2 \in 1 .. L /\ (at + 2) - at = 2 /\ at + 2 \in at +
          1 .. at + L
      BY <1>1, <1>2, <2>6
    <3>2. PICK o2 \in Octet, b2 \in Octet : o2 = data[at + 2] /\ b2 = burst[2] /\ hit[at +
          2] = XorOctet[o2][b2]
      <4>1. hit[at + 2] = XorOctet[data[at + 2]][burst[(at + 2) - at]]
        BY <1>4, <3>1
      <4>2. data[at + 2] \in Octet /\ burst[2] \in Octet
        BY <1>1, <1>2, <3>1
      <4> QED
        BY <3>1, <4>1, <4>2
    <3>3. f[at + 2] = CrcUpdate(o2)[f[at + 1]] /\ g[at + 2] = CrcUpdate(XorOctet[o2][b2])[g[at + 1]]
      BY <1>9, <3>1, <3>2
    <3> QED
      BY <2>3, <3>2, <3>3
  <2>7. CASE L = 2
    <3>1. PICK o2 \in Octet, b2 \in Octet :
            /\ b2 = burst[2]
            /\ f[at + 2] = CrcUpdate(o2)[CrcUpdate(o1)[c]]
            /\ g[at + 2] = CrcUpdate(XorOctet[o2][b2])[CrcUpdate(XorOctet[o1][b1])[c]]
      BY <2>6, <2>7
    <3>2. AfterThree(c, o1, o2, 0) = AfterThree(c, XorOctet[o1][b1], XorOctet[o2][b2], XorOctet[0][0])
      BY <2>0, <2>4, <2>7, <3>1 DEF AfterThree
    <3>3. b1 = 0 /\ b2 = 0
      BY <2>4, <3>2, BurstOctets
    <3>4. \A k \in 1 .. L : k = 1 \/ k = 2
      BY <2>7
    <3> QED
      BY <1>2, <2>2, <3>1, <3>3, <3>4 DEF IsBurst
  <2>8. CASE L = 3
    <3>1. PICK o2 \in Octet, b2 \in Octet :
            /\ b2 = burst[2]
            /\ f[at + 2] = CrcUpdate(o2)[CrcUpdate(o1)[c]]
            /\ g[at + 2] = CrcUpdate(XorOctet[o2][b2])[CrcUpdate(XorOctet[o1][b1])[c]]
      BY <2>6, <2>8
    <3>2. at + 3 \in 1 .. n /\ (at + 3) - 1 = at + 2 /\ 3 \in 1 .. L /\ (at + 3) - at = 3 /\ at + 3 \in at +
          1 .. at + L
      BY <1>1, <1>2, <2>8
    <3>3. PICK o3 \in Octet, b3 \in Octet : o3 = data[at + 3] /\ b3 = burst[3] /\ hit[at +
          3] = XorOctet[o3][b3]
      <4>1. hit[at + 3] = XorOctet[data[at + 3]][burst[(at + 3) - at]]
        BY <1>4, <3>2
      <4>2. data[at + 3] \in Octet /\ burst[3] \in Octet
        BY <1>1, <1>2, <3>2
      <4> QED
        BY <3>2, <4>1, <4>2
    <3>4. f[at + 3] = CrcUpdate(o3)[f[at + 2]] /\ g[at + 3] = CrcUpdate(XorOctet[o3][b3])[g[at + 2]]
      BY <1>9, <3>2, <3>3
    <3>5. AfterThree(c, o1, o2, o3) = AfterThree(c, XorOctet[o1][b1], XorOctet[o2][b2], XorOctet[o3][b3])
      BY <2>0, <2>8, <3>1, <3>4 DEF AfterThree
    <3>6. PICK p \in Powers : b1 < p /\ b3 % p = 0
      BY <1>2, <2>2, <2>8, <3>3 DEF IsBurst
    <3>7. b1 = 0 /\ b2 = 0 /\ b3 = 0
      BY <3>5, <3>6, BurstOctets
    <3>8. \A k \in 1 .. L : k = 1 \/ k = 2 \/ k = 3
      BY <2>8
    <3> QED
      BY <1>2, <2>2, <3>1, <3>3, <3>7, <3>8 DEF IsBurst
  <2> QED
    BY <2>5, <2>7, <2>8
<1>12. Crc(data) # Crc(hit)
  <2>1. at + L \in Nat /\ at + L <= n /\ \A i \in at + L + 1 .. n : data[i] = hit[i]
    BY <1>1, <1>2, <1>4
  <2>2. PICK j \in Nat : j = at + L
    BY <2>1
  <2> QED
    BY <1>1, <1>6, <1>7, <1>11, <2>1, <2>2, ApartToTheEnd
<1> QED
  BY <1>1, <1>3, <1>6, <1>12

\* Two more octets bring the CRC to 0 if they are it, and no others do.
LEMMA TwoMoreOctets ==
  ASSUME NEW c \in Word, NEW a \in Octet, NEW b \in Octet
  PROVE  CrcUpdate(b)[CrcUpdate(a)[c]] = 0 <=> a = Hi(c) /\ b = Lo(c)
<1>1. PICK h \in Octet, l \in Octet : h = Hi(c) /\ l = Lo(c)
  BY PartsOfWord
<1>2. PICK x \in Octet : x = XorOctet[h][a]
  BY XorOctetBits
<1>3. PICK c1 \in Word : c1 = CrcUpdate(a)[c]
  BY UpdateByParts
<1>4. Hi(c1) = XorOctet[l][Hi(EightShifts[x])] /\ Lo(c1) = Lo(EightShifts[x])
  BY <1>1, <1>2, <1>3, UpdateByParts
<1>5. PICK h1 \in Octet, l1 \in Octet : h1 = Hi(c1) /\ l1 = Lo(c1)
  BY PartsOfWord
<1>6. PICK y \in Octet : y = XorOctet[h1][b]
  BY XorOctetBits
<1>7. PICK c2 \in Word : c2 = CrcUpdate(b)[c1]
  BY UpdateByParts
<1>8. Hi(c2) = XorOctet[l1][Hi(EightShifts[y])] /\ Lo(c2) = Lo(EightShifts[y])
  BY <1>5, <1>6, <1>7, UpdateByParts
<1>9. c2 = 0 <=> Hi(c2) = 0 /\ Lo(c2) = 0
  <2>1. Hi(0) = 0 /\ Lo(0) = 0
    BY DEF Hi, Lo
  <2>2. c2 = Hi(c2) * 256 + Lo(c2)
    BY PartsOfWord
  <2> QED
    BY <2>1, <2>2
<1>10. 0 \in Octet
  BY DEF Octet
<1>11. ASSUME a = h, b = l PROVE c2 = 0
  <2>1. x = 0
    BY <1>2, <1>11, XorWithItself
  <2>2. h1 = l /\ l1 = 0
    BY <1>4, <1>5, <2>1, NothingShifted, XorWithZero
  <2>3. y = 0
    BY <1>6, <1>11, <2>2, XorWithItself
  <2> QED
    BY <1>8, <1>9, <1>10, <2>2, <2>3, NothingShifted, XorWithZero
<1>12. ASSUME c2 = 0 PROVE a = h /\ b = l
  <2>1. Hi(c2) = 0 /\ Lo(c2) = 0
    BY <1>9, <1>12
  <2>2. y = 0
    BY <1>8, <1>10, <2>1, NothingShifted, LowTells
  <2>3. l1 = 0
    BY <1>8, <2>1, <2>2, NothingShifted, XorWithZero
  <2>4. x = 0
    BY <1>4, <1>5, <1>10, <2>3, NothingShifted, LowTells
  <2>5. h1 = l
    BY <1>4, <1>5, <2>4, NothingShifted, XorWithZero
  <2> QED
    BY <1>2, <1>6, <2>2, <2>4, <2>5, XorWithItself
<1> QED
  BY <1>1, <1>3, <1>7, <1>11, <1>12

\* Running the CRC over a packet and its last two octets gives zero when they are
\* the CRC of the packet, and for no other two: crc16_check() compares without
\* slicing.
THEOREM OnlyTheCrcSeals ==
  ASSUME NEW data \in Seq(Octet), NEW a \in Octet, NEW b \in Octet
  PROVE  /\ data \o <<a, b>> \in Seq(Octet)
         /\ Crc(data \o <<a, b>>) = 0 <=> <<a, b>> = WordOctets(Crc(data))
<1>1. PICK n \in Nat : n = Len(data)
  BY StepsAreSteps
<1>2. PICK packet : packet = data \o <<a, b>>
  OBVIOUS
<1>3. /\ packet \in Seq(Octet) /\ Len(packet) = n + 2
      /\ packet[n + 1] = a /\ packet[n + 2] = b /\ \A i \in 1 .. n : packet[i] = data[i]
  BY <1>1, <1>2
<1>4. Crcs(packet)[n] = Crc(data) /\ Crc(data) \in Word
  <2>1. Crcs(data)[n] = Crcs(packet)[n]
    <3>1. n <= Len(data) /\ n <= Len(packet) /\ \A i \in 1 .. n : data[i] = packet[i]
      BY <1>1, <1>3
    <3> QED
      BY <1>3, <3>1, SameSoFar
  <2> QED
    BY <1>1, <2>1, BothEndsAgree, CrcIsTheLast
<1>5. Crc(packet) = CrcUpdate(b)[CrcUpdate(a)[Crc(data)]]
  <2>1. PICK k \in Nat : k = Len(packet) /\ k = n + 2
    BY <1>3
  <2>2. PICK f : f = Crcs(packet)
    OBVIOUS
  <2>3. Crc(packet) = f[k] /\ \A i \in 1 .. k : f[i] = CrcUpdate(packet[i])[f[i - 1]]
    BY <1>3, <2>1, <2>2, CrcIsTheLast
  <2>4. n + 1 \in 1 .. k /\ n + 2 \in 1 .. k /\ (n + 1) - 1 = n /\ (n + 2) - 1 = n + 1
    BY <2>1
  <2>5. f[n + 1] = CrcUpdate(a)[f[n]] /\ f[n + 2] = CrcUpdate(b)[f[n + 1]]
    BY <1>3, <2>3, <2>4
  <2> QED
    BY <1>4, <2>1, <2>2, <2>3, <2>5
<1>6. Crc(packet) = 0 <=> a = Hi(Crc(data)) /\ b = Lo(Crc(data))
  BY <1>4, <1>5, TwoMoreOctets
<1>7. <<a, b>> = WordOctets(Crc(data)) <=> a = Hi(Crc(data)) /\ b = Lo(Crc(data))
  BY DEF WordOctets, Hi, Lo
<1> QED
  BY <1>2, <1>3, <1>6, <1>7

-----------------------------------------------------------------------------
\* Fields and their places.

\* Sequences of one, two and three.
LEMMA ShortSequences ==
  ASSUME NEW S, NEW a \in S, NEW b \in S, NEW c \in S
  PROVE  /\ <<a>> \in Seq(S) /\ <<a, b>> \in Seq(S) /\ <<a, b, c>> \in Seq(S)
         /\ Len(<<a>>) = 1 /\ Len(<<a, b>>) = 2 /\ Len(<<a, b, c>>) = 3
  OBVIOUS

\* A concatenation, element by element.
LEMMA Concatenated ==
  ASSUME NEW S, NEW s \in Seq(S), NEW t \in Seq(S)
  PROVE  /\ s \o t \in Seq(S) /\ Len(s) \in Nat /\ Len(t) \in Nat /\ Len(s \o t) = Len(s) + Len(t)
         /\ \A i \in 1 .. Len(s) : (s \o t)[i] = s[i]
         /\ \A i \in 1 .. Len(t) : (s \o t)[Len(s) + i] = t[i]
  OBVIOUS

Types   == DOMAIN Width
Layouts(N) == Seq(N \X Types)
Fits(layout, values) == \A k \in 1 .. Len(layout) : values[layout[k][1]] \in Values(layout[k][2])

\* A type is an octet, a word, or two or four words.
LEMMA ThreeWidths ==
  ASSUME NEW type \in Types
  PROVE  \/ Width[type] = 1 /\ Values(type) = Octet
         \/ Width[type] = 2 /\ Values(type) = Word
         \/ Width[type] \in {4, 8} /\ Values(type) = [1 .. Width[type] \div 2 -> Word]
<1>1. type \in {"uint8", "uint16", "uint32", "float32", "float64"}
  BY DEF Types, Width
<1>2. Width[type] \in {1, 2, 4, 8}
  BY <1>1 DEF Width
<1> QED
  BY <1>2 DEF Values

\* A value takes the octets of its type.
LEMMA OctetsOfAValue ==
  ASSUME NEW type \in Types, NEW v \in Values(type)
  PROVE  /\ OctetsOf(type, v) \in Seq(Octet) /\ Len(OctetsOf(type, v)) = Width[type]
         /\ Width[type] \in 1 .. 8
<1>1. CASE Width[type] = 1
  <2>1. OctetsOf(type, v) = <<v>> /\ v \in Octet
    BY <1>1, ThreeWidths DEF OctetsOf
  <2> QED
    BY <1>1, <2>1
<1>2. CASE Width[type] = 2
  <2>1. OctetsOf(type, v) = <<Hi(v), Lo(v)>> /\ v \in Word
    BY <1>2, ThreeWidths DEF OctetsOf, WordOctets, Hi, Lo
  <2>2. Hi(v) \in Octet /\ Lo(v) \in Octet
    BY <2>1, PartsOfWord
  <2> QED
    BY <1>2, <2>1, <2>2
<1>3. CASE Width[type] \in {4, 8}
  <2>1. PICK n \in Nat : n = Width[type] /\ n \in {4, 8}
    BY <1>3
  <2>2. OctetsOf(type, v) = [k \in 1 .. n |-> WordOctets(v[(k + 1) \div 2])[2 - (k % 2)]]
    BY <2>1 DEF OctetsOf
  <2>3. v \in [1 .. n \div 2 -> Word]
    BY <2>1, ThreeWidths
  <2>4. ASSUME NEW k \in 1 .. n PROVE WordOctets(v[(k + 1) \div 2])[2 - (k % 2)] \in Octet
    <3>1. (k + 1) \div 2 \in 1 .. n \div 2
      BY <2>1
    <3>2. PICK w \in Word : w = v[(k + 1) \div 2]
      BY <2>3, <3>1
    <3>3. WordOctets(w) = <<Hi(w), Lo(w)>> /\ Hi(w) \in Octet /\ Lo(w) \in Octet
      BY PartsOfWord DEF WordOctets, Hi, Lo
    <3>4. k % 2 = 0 \/ k % 2 = 1
      OBVIOUS
    <3> QED
      BY <3>2, <3>3, <3>4
  <2>5. OctetsOf(type, v) \in [1 .. n -> Octet]
    BY <2>2, <2>4
  <2> QED
    BY <2>1, <2>5
<1> QED
  BY <1>1, <1>2, <1>3, ThreeWidths

\* Where the fields of a layout begin and end.
Places(at, layout, from) ==
  /\ at \in [0 .. Len(layout) -> Nat] /\ at[0] = from
  /\ \A k \in 1 .. Len(layout) : at[k] = at[k - 1] + Width[layout[k][2]]

\* The fields of a layout.
LEMMA OfALayout ==
  ASSUME NEW N, NEW layout \in Layouts(N)
  PROVE  /\ Len(layout) \in Nat
         /\ \A k \in 1 .. Len(layout) : layout[k][1] \in N /\ layout[k][2] \in Types
                                        /\ Width[layout[k][2]] \in 1 .. 8
<1>1. Len(layout) \in Nat /\ \A k \in 1 .. Len(layout) : layout[k] \in N \X Types
  BY DEF Layouts
<1>2. \A t \in Types : Width[t] \in 1 .. 8
  BY ThreeWidths
<1> QED
  BY <1>1, <1>2

\* Every layout has places for its fields.
LEMMA PlacesExist ==
  ASSUME NEW N, NEW layout \in Layouts(N), NEW from \in Nat
  PROVE  \E at : Places(at, layout, from)
<1> DEFINE step == [k \in 1 .. Len(layout) |-> [p \in Nat |-> p + Width[layout[k][2]]]]
<1>0. PICK n \in Nat : n = Len(layout)
  BY OfALayout
<1>1. step \in [1 .. n -> [Nat -> Nat]]
  BY <1>0, OfALayout
<1>2. \A k \in 1 .. n : \A p \in Nat : step[k][p] = p + Width[layout[k][2]]
  BY <1>0
<1> HIDE DEF step
<1>3. PICK at : Run(at, n, Nat, from, step)
  BY <1>1, RunExists
<1>4. \A k \in 1 .. n : k - 1 \in 0 .. n
  BY <1>0
<1>5. Places(at, layout, from)
  BY <1>0, <1>2, <1>3, <1>4 DEF Run, Places
<1> QED
  BY <1>5

\* The places go up, by at most eight for a field.
LEMMA PlacesGrow ==
  ASSUME NEW N, NEW layout \in Layouts(N), NEW from \in Nat, NEW at, Places(at, layout, from),
         NEW n \in Nat, n = Len(layout), NEW i \in 0 .. n
  PROVE  \A j \in i .. n : at[i] <= at[j] /\ at[j] <= at[i] + 8 * (j - i)
<1> DEFINE Bad == {j \in i .. n : ~(at[i] <= at[j] /\ at[j] <= at[i] + 8 * (j - i))}
<1>0. at \in [0 .. n -> Nat]
  BY DEF Places
<1>1. SUFFICES ASSUME Bad # {} PROVE FALSE
  OBVIOUS
<1>2. PICK m \in Bad : \A k \in Bad : m <= k
  <2>1. Bad \in SUBSET Nat
    OBVIOUS
  <2> HIDE DEF Bad
  <2> QED
    BY <1>1, <2>1, SmallestMember
<1>3. m \in i .. n /\ ~(at[i] <= at[m] /\ at[m] <= at[i] + 8 * (m - i))
  OBVIOUS
<1>4. m # i
  BY <1>0, <1>3
<1>5. m - 1 \in i .. n /\ m - 1 \notin Bad /\ m \in 1 .. n
  <2>1. m - 1 \in i .. n /\ m \in 1 .. n /\ ~(m <= m - 1)
    BY <1>3, <1>4
  <2> HIDE DEF Bad
  <2> QED
    BY <1>2, <2>1
<1>6. at[i] <= at[m - 1] /\ at[m - 1] <= at[i] + 8 * ((m - 1) - i)
  BY <1>5
<1>7. at[m] = at[m - 1] + Width[layout[m][2]] /\ Width[layout[m][2]] \in 1 .. 8
  BY <1>5, OfALayout DEF Places
<1> HIDE DEF Bad
<1>8. i \in 0 .. n /\ m - 1 \in 0 .. n /\ m \in 0 .. n
  BY <1>5
<1>9. at[i] \in Nat /\ at[m - 1] \in Nat /\ at[m] \in Nat
  BY <1>0, <1>8
<1>10. PICK d \in Int, e \in Int : d = 8 * ((m - 1) - i) /\ e = 8 * (m - i) /\ e = d + 8
  BY <1>8
<1>11. PICK width \in Nat : width = Width[layout[m][2]] /\ width <= 8
  BY <1>7
<1>12. at[m] = at[m - 1] + width /\ at[m - 1] <= at[i] + d /\ ~(at[i] <= at[m] /\ at[m] <= at[i] + e)
  BY <1>3, <1>6, <1>7, <1>10, <1>11
<1>13. at[i] <= at[m - 1]
  BY <1>6
<1>14. PICK a \in Nat, b \in Nat, c \in Nat : a = at[i] /\ b = at[m - 1] /\ c = at[m]
  BY <1>9
<1>15. c = b + width /\ b <= a + d /\ ~(a <= c /\ c <= a + e) /\ a <= b
  BY <1>12, <1>13, <1>14
<1>16. e = d + 8 /\ width <= 8
  BY <1>10, <1>11
<1> QED
  BY <1>15, <1>16

Writers == [data : Seq(Octet), capacity : Nat, ok : BOOLEAN]

\* A field that fits is appended, and its writer goes on.
LEMMA RawWrite ==
  ASSUME NEW w \in Writers, NEW bytes \in Seq(Octet)
  PROVE  /\ WriteRaw(w, bytes) \in Writers
         /\ w.ok /\ Len(w.data) + Len(bytes) <= w.capacity =>
              /\ WriteRaw(w, bytes).ok /\ WriteRaw(w, bytes).capacity = w.capacity
              /\ WriteRaw(w, bytes).data = w.data \o bytes
<1>1. w.data \in Seq(Octet) /\ w.capacity \in Nat /\ w.ok \in BOOLEAN /\ w.data \o bytes \in Seq(Octet)
  BY DEF Writers
<1>2. CASE w.ok /\ Len(w.data) + Len(bytes) <= w.capacity
  <2>1. WriteRaw(w, bytes) = [w EXCEPT !.data = w.data \o bytes]
    BY <1>2 DEF WriteRaw
  <2> QED
    BY <1>1, <1>2, <2>1, Zenon DEF Writers
<1>3. CASE ~(w.ok /\ Len(w.data) + Len(bytes) <= w.capacity)
  <2>1. WriteRaw(w, bytes) = [w EXCEPT !.ok = FALSE]
    BY <1>3 DEF WriteRaw
  <2> QED
    BY <1>1, <1>3, <2>1, Zenon DEF Writers
<1> QED
  BY <1>2, <1>3

WriteSteps(layout, values) ==
  [k \in 1 .. Len(layout) |-> [w \in Writers |-> WriteRaw(w, OctetsOf(layout[k][2], values[layout[k][1]]))]]

\* WriteFields makes one step for each field.
LEMMA FieldsAreSteps ==
  ASSUME NEW N, NEW layout \in Layouts(N), NEW values, Fits(layout, values), NEW w \in Writers
  PROVE  \E g : /\ Run(g, Len(layout), Writers, w, WriteSteps(layout, values))
                /\ WriteFields(w, layout, values) = g[Len(layout)]
<1> DEFINE Is(g) == g = [k \in 0 .. Len(layout) |->
                           IF k = 0 THEN w
                             ELSE WriteRaw(g[k - 1], OctetsOf(layout[k][2], values[layout[k][1]]))]
<1>0. PICK n \in Nat : n = Len(layout)
  BY OfALayout
<1>1. PICK step : step = WriteSteps(layout, values)
  OBVIOUS
<1>2. \A k \in 1 .. n : OctetsOf(layout[k][2], values[layout[k][1]]) \in Seq(Octet)
  BY <1>0, OfALayout, OctetsOfAValue DEF Fits
<1>3. \A k \in 1 .. n : /\ step[k] \in [Writers -> Writers]
                        /\ \A v \in Writers : step[k][v] = WriteRaw(v, OctetsOf(layout[k][2],
                             values[layout[k][1]]))
  <2>1. TAKE k \in 1 .. n
  <2>2. PICK bytes \in Seq(Octet) : bytes = OctetsOf(layout[k][2], values[layout[k][1]])
    BY <1>2
  <2>3. step[k] = [v \in Writers |-> WriteRaw(v, bytes)]
    BY <1>0, <1>1, <2>2 DEF WriteSteps
  <2>4. \A v \in Writers : WriteRaw(v, bytes) \in Writers
    BY RawWrite
  <2> QED
    BY <2>2, <2>3, <2>4
<1>4. step \in [1 .. n -> [Writers -> Writers]]
  <2>1. step = [k \in 1 .. n |-> step[k]]
    BY <1>0, <1>1 DEF WriteSteps
  <2> QED
    BY <1>3, <2>1
<1>5. ASSUME NEW f PROVE Run(f, n, Writers, w, step) => Is(f)
  <2>1. SUFFICES ASSUME Run(f, n, Writers, w, step) PROVE Is(f)
    OBVIOUS
  <2>2. f = [k \in 0 .. n |-> f[k]] /\ f[0] = w
    BY <2>1 DEF Run
  <2>3. \A k \in 1 .. n : f[k - 1] \in Writers /\ f[k] = step[k][f[k - 1]]
    <3>1. \A k \in 1 .. n : k - 1 \in 0 .. n
      BY <1>0
    <3> QED
      BY <2>1, <3>1 DEF Run
  <2>4. \A k \in 1 .. n : f[k] = WriteRaw(f[k - 1], OctetsOf(layout[k][2], values[layout[k][1]]))
    BY <1>3, <2>3
  <2>5. \A k \in 0 .. n : k = 0 \/ k \in 1 .. n
    OBVIOUS
  <2>6. \A k \in 0 .. n : f[k] = IF k = 0 THEN w
                             ELSE WriteRaw(f[k - 1], OctetsOf(layout[k][2], values[layout[k][1]]))
    BY <2>2, <2>4, <2>5, Zenon
  <2> QED
    BY <1>0, <2>2, <2>6, Zenon
<1>6. ASSUME NEW f PROVE Is(f) => Run(f, n, Writers, w, step)
  <2>1. SUFFICES ASSUME Is(f) PROVE Run(f, n, Writers, w, step)
    OBVIOUS
  <2>2. /\ f = [k \in 0 .. n |-> f[k]] /\ f[0] = w
        /\ \A k \in 1 .. n : f[k] = WriteRaw(f[k - 1], OctetsOf(layout[k][2], values[layout[k][1]]))
    BY <1>0, <2>1
  <2> DEFINE Bad == {m \in 0 .. n : f[m] \notin Writers}
  <2> HIDE DEF Is
  <2>3. Bad = {}
    <3>1. SUFFICES ASSUME Bad # {} PROVE FALSE
      OBVIOUS
    <3>2. PICK m \in Bad : \A i \in Bad : m <= i
      <4>1. Bad \in SUBSET Nat
        OBVIOUS
      <4> HIDE DEF Bad
      <4> QED
        BY <3>1, <4>1, SmallestMember
    <3>3. m \in 0 .. n /\ f[m] \notin Writers /\ m # 0
      BY <2>2
    <3>4. m - 1 \in 0 .. n /\ m - 1 \notin Bad /\ m \in 1 .. n
      BY <3>2, <3>3
    <3>5. f[m - 1] \in Writers
      BY <3>4
    <3>6. f[m] = WriteRaw(f[m - 1], OctetsOf(layout[m][2], values[layout[m][1]]))
      BY <2>2, <3>4
    <3>7. OctetsOf(layout[m][2], values[layout[m][1]]) \in Seq(Octet)
      BY <1>2, <3>4
    <3> QED
      BY <3>3, <3>5, <3>6, <3>7, RawWrite
  <2>4. f \in [0 .. n -> Writers]
    BY <2>2, <2>3
  <2>5. ASSUME NEW k \in 1 .. n PROVE f[k] = step[k][f[k - 1]]
    <3>1. k - 1 \in 0 .. n
      BY <1>0
    <3>2. f[k - 1] \in Writers
      BY <2>4, <3>1
    <3> QED
      BY <1>3, <2>2, <3>2
  <2> QED
    BY <2>2, <2>4, <2>5 DEF Run
<1>7. \E f : Run(f, n, Writers, w, step)
  BY <1>4, RunExists
<1>8. WriteFields(w, layout, values) = (CHOOSE f : Is(f))[n]
  BY <1>0 DEF WriteFields
<1> HIDE DEF Is
<1>9. Is(CHOOSE f : Is(f))
  BY <1>5, <1>7
<1> QED
  BY <1>0, <1>1, <1>6, <1>8, <1>9

\* A place within a field that lies within the packet.
LEMMA PlaceWithin ==
  ASSUME NEW a \in Nat, NEW from \in Nat, NEW width \in Nat, from + width <= a, NEW i \in 1 .. width
  PROVE  from + i \in 1 .. a
  OBVIOUS

\* The octets that were there, then each field at its place.
Written(v, w, layout, values, at, n) ==
  /\ v \in Writers /\ v.ok /\ v.capacity = w.capacity /\ Len(v.data) = at[n]
  /\ \A i \in 1 .. Len(w.data) : v.data[i] = w.data[i]
  /\ \A k \in 1 .. n : \A i \in 1 .. Width[layout[k][2]] :
       v.data[at[k - 1] + i] = OctetsOf(layout[k][2], values[layout[k][1]])[i]

\* What WriteFields leaves.
LEMMA FieldsWritten ==
  ASSUME NEW N, NEW layout \in Layouts(N), NEW values, Fits(layout, values), NEW w \in Writers, w.ok,
         NEW at, Places(at, layout, Len(w.data)), NEW n \in Nat, n = Len(layout), at[n] <= w.capacity
  PROVE  Written(WriteFields(w, layout, values), w, layout, values, at, n)
<1>1. PICK step : step = WriteSteps(layout, values)
  OBVIOUS
<1>2. PICK g : Run(g, n, Writers, w, step) /\ WriteFields(w, layout, values) = g[n]
  BY <1>1, FieldsAreSteps
<1> DEFINE Bytes(k) == OctetsOf(layout[k][2], values[layout[k][1]])
           Done(m) == /\ g[m].ok /\ g[m].capacity = w.capacity /\ Len(g[m].data) = at[m]
                      /\ \A i \in 1 .. Len(w.data) : g[m].data[i] = w.data[i]
                      /\ \A k \in 1 .. m : \A i \in 1 .. Width[layout[k][2]] :
                           g[m].data[at[k - 1] + i] = Bytes(k)[i]
<1>3. \A k \in 1 .. n : Bytes(k) \in Seq(Octet) /\ Len(Bytes(k)) = Width[layout[k][2]] /\
      Width[layout[k][2]] \in 1 .. 8
  BY OfALayout, OctetsOfAValue DEF Fits
<1>4. /\ \A k \in 0 .. n : g[k] \in Writers
      /\ g[0] = w /\ \A k \in 1 .. n : g[k] = WriteRaw(g[k - 1], Bytes(k))
  <2>1. g[0] = w /\ (\A k \in 0 .. n : g[k] \in Writers) /\ \A k \in 1 .. n : g[k] = step[k][g[k - 1]]
    BY <1>2 DEF Run
  <2>2. ASSUME NEW k \in 1 .. n PROVE g[k] = WriteRaw(g[k - 1], Bytes(k))
    <3>1. k - 1 \in 0 .. n
      OBVIOUS
    <3>2. PICK v \in Writers : v = g[k - 1]
      BY <2>1, <3>1
    <3>3. step[k] = [u \in Writers |-> WriteRaw(u, Bytes(k))]
      BY <1>1 DEF WriteSteps
    <3> HIDE DEF Bytes
    <3>4. step[k][v] = WriteRaw(v, Bytes(k))
      BY <3>3
    <3> QED
      BY <2>1, <3>2, <3>4
  <2> HIDE DEF Bytes
  <2> QED
    BY <2>1, <2>2
<1>5. /\ at \in [0 .. n -> Nat] /\ at[0] = Len(w.data)
      /\ \A k \in 1 .. n : at[k] = at[k - 1] + Width[layout[k][2]]
  BY DEF Places
<1>6. \A k \in 0 .. n : at[k] <= w.capacity /\ at[0] <= at[k]
  <2>1. TAKE k \in 0 .. n
  <2>2. Len(w.data) \in Nat /\ w.capacity \in Nat
    BY DEF Writers
  <2>3. n \in k .. n /\ k \in 0 .. n /\ 0 \in 0 .. n
    OBVIOUS
  <2>4. PICK from \in Nat : from = Len(w.data)
    BY <2>2
  <2>5. at[k] <= at[n] /\ at[0] <= at[k]
    BY <2>3, <2>4, PlacesGrow
  <2>6. at[k] \in Nat /\ at[n] \in Nat
    BY <1>5, <2>3
  <2> QED
    BY <2>2, <2>5, <2>6
<1> DEFINE Bad == {m \in 0 .. n : ~Done(m)}
<1>7. Done(0)
  BY <1>4, <1>5
<1>8. ASSUME NEW m \in 1 .. n, Done(m - 1) PROVE Done(m)
  <2>1. m - 1 \in 0 .. n /\ m \in 0 .. n
    OBVIOUS
  <2>2. PICK v \in Writers : v = g[m - 1]
    BY <1>4, <2>1
  <2>3. PICK bytes \in Seq(Octet) : bytes = Bytes(m) /\ Len(bytes) = Width[layout[m][2]]
    BY <1>3
  <2>4. PICK a \in Nat, b \in Nat : a = at[m - 1] /\ b = at[m] /\ b = a + Len(bytes) /\ b <= w.capacity
    BY <1>5, <1>6, <2>1, <2>3, SMTT(30)
  <2>5. v.ok /\ v.capacity = w.capacity /\ Len(v.data) = a /\ v.data \in Seq(Octet)
    BY <1>8, <2>2, <2>4 DEF Writers
  <2>6. g[m] = WriteRaw(v, bytes)
    BY <1>4, <2>2, <2>3
  <2>7. g[m].ok /\ g[m].capacity = w.capacity /\ g[m].data = v.data \o bytes
    BY <2>4, <2>5, <2>6, RawWrite, SMTT(30)
  <2>8. Len(g[m].data) = b
    BY <2>4, <2>5, <2>7
  <2>9. ASSUME NEW i \in 1 .. Len(w.data) PROVE g[m].data[i] = w.data[i]
    <3>1. i \in 1 .. a
      BY <1>5, <1>6, <2>1, <2>4, SMTT(30)
    <3>2. (v.data \o bytes)[i] = v.data[i]
      BY <2>5, <3>1
    <3> QED
      BY <1>8, <2>2, <2>7, <3>2
  <2>10. ASSUME NEW k \in 1 .. m, NEW i \in 1 .. Width[layout[k][2]]
         PROVE  g[m].data[at[k - 1] + i] = Bytes(k)[i]
    <3>1. CASE k = m
      <4>1. i \in 1 .. Len(bytes) /\ at[k - 1] = a
        BY <2>3, <2>4, <3>1
      <4>2. (v.data \o bytes)[a + i] = bytes[i]
        <5>1. PICK s \in Seq(Octet) : s = v.data /\ Len(s) = a
          BY <2>5
        <5>2. (s \o bytes)[Len(s) + i] = bytes[i]
          BY <4>1, Concatenated
        <5> QED
          BY <5>1, <5>2
      <4> QED
        BY <2>3, <2>7, <3>1, <4>1, <4>2
    <3>2. CASE k # m
      <4>1. k \in 1 .. m - 1 /\ k \in 1 .. n /\ k - 1 \in 0 .. n /\ k \in 0 .. n /\ m - 1 \in k .. n
        BY <3>2
      <4>2. v.data[at[k - 1] + i] = Bytes(k)[i]
        BY <1>8, <2>2, <4>1
      <4>3. at[k] = at[k - 1] + Width[layout[k][2]] /\ at[k] \in Nat /\ at[k - 1] \in Nat
        BY <1>5, <4>1
      <4>4. at[k] <= a
        <5>1. PICK from \in Nat : from = Len(w.data)
          BY DEF Writers
        <5> QED
          BY <2>4, <4>1, <5>1, PlacesGrow
      <4>5. PICK p \in Nat : p = at[k - 1] + i /\ p \in 1 .. a
        <5>1. PICK width \in Nat : width = Width[layout[k][2]]
          BY <1>3, <4>1
        <5>2. PICK b0 \in Nat, b1 \in Nat : b0 = at[k - 1] /\ b1 = at[k] /\ b1 = b0 + width /\ b1 <= a /\
              b0 + width <= a
          BY <4>3, <4>4, <5>1
        <5>3. i \in 1 .. width
          BY <5>1
        <5>4. b0 + i \in 1 .. a
          BY <5>2, <5>3, PlaceWithin
        <5> QED
          BY <5>2, <5>4, SMTT(30)
      <4>6. (v.data \o bytes)[p] = v.data[p]
        BY <2>5, <4>5
      <4> QED
        BY <2>7, <4>2, <4>5, <4>6
    <3> QED
      BY <3>1, <3>2
  <2> HIDE DEF Bytes
  <2> QED
    BY <2>4, <2>7, <2>8, <2>9, <2>10
<1>9. Bad = {}
  <2>1. SUFFICES ASSUME Bad # {} PROVE FALSE
    OBVIOUS
  <2>2. PICK m \in Bad : \A i \in Bad : m <= i
    <3>1. Bad \in SUBSET Nat
      OBVIOUS
    <3> HIDE DEF Bad
    <3> QED
      BY <2>1, <3>1, SmallestMember
  <2> HIDE DEF Done
  <2>3. m \in 0 .. n /\ ~Done(m) /\ m # 0
    BY <1>7
  <2>4. m \in 1 .. n /\ m - 1 \in 0 .. n /\ ~(m <= m - 1)
    BY <2>3
  <2>5. m - 1 \notin Bad
    <3> HIDE DEF Bad
    <3> QED
      BY <2>2, <2>4
  <2>6. Done(m - 1)
    BY <2>4, <2>5
  <2> QED
    BY <1>8, <2>3, <2>4, <2>6
<1>10. n \in 0 .. n
  OBVIOUS
<1> HIDE DEF Done
<1>11. Done(n) /\ g[n] \in Writers
  BY <1>4, <1>9, <1>10
<1> HIDE DEF Bad
<1>12. Written(g[n], w, layout, values, at, n)
  BY <1>11 DEF Done, Written
<1> QED
  BY <1>2, <1>12

\* What is read is a value of its type.
LEMMA ValueOfOctets ==
  ASSUME NEW type \in Types, NEW data \in Seq(Octet), Len(data) = Width[type]
  PROVE  ValueOf(type, data) \in Values(type)
<1>1. CASE Width[type] = 1
  <2>1. 1 \in 1 .. Len(data)
    BY <1>1
  <2>2. data[1] \in Octet
    BY <2>1
  <2>3. Values(type) = Octet
    BY <1>1, ThreeWidths
  <2>4. ValueOf(type, data) = data[1]
    BY <1>1 DEF ValueOf
  <2> QED
    BY <2>2, <2>3, <2>4
<1>0. ASSUME NEW a \in Octet, NEW b \in Octet PROVE OctetWord(a, b) \in Word
  BY WordOfParts DEF OctetWord
<1>2. CASE Width[type] = 2
  <2>1. 1 \in 1 .. Len(data) /\ 2 \in 1 .. Len(data)
    BY <1>2
  <2>3. data[1] \in Octet /\ data[2] \in Octet
    BY <2>1
  <2> QED
    BY <1>0, <1>2, <2>3, ThreeWidths DEF ValueOf
<1>3. CASE Width[type] \in {4, 8}
  <2>1. PICK n \in Nat : n = Width[type] /\ n \in {4, 8} /\ n = Len(data)
    BY <1>3
  <2>2. ValueOf(type, data) = [k \in 1 .. n \div 2 |-> OctetWord(data[2 * k - 1], data[2 * k])]
    BY <2>1 DEF ValueOf
  <2>3. ASSUME NEW k \in 1 .. n \div 2 PROVE OctetWord(data[2 * k - 1], data[2 * k]) \in Word
    <3>1. 2 * k - 1 \in 1 .. n /\ 2 * k \in 1 .. n
      BY <2>1
    <3>2. data[2 * k - 1] \in Octet /\ data[2 * k] \in Octet
      BY <2>1, <3>1
    <3> QED
      BY <1>0, <3>2
  <2> QED
    BY <2>1, <2>2, <2>3, ThreeWidths
<1> QED
  BY <1>1, <1>2, <1>3, ThreeWidths

Anything == Nat \cup UNION {[1 .. n -> Word] : n \in Nat}
Readings(N) == UNION {[D -> Anything] : D \in SUBSET N}
Readers(N)  == [data : Seq(Octet), pos : Nat, ok : BOOLEAN, fields : Readings(N)]

\* Whatever the type.
LEMMA ValuesAreThings == ASSUME NEW type \in Types, NEW v \in Values(type) PROVE v \in Anything
<1>1. CASE Width[type] = 1
  <2>1. v \in Nat
    <3>1. v \in Octet
      BY <1>1, ThreeWidths
    <3> QED
      BY <3>1 DEF Octet
  <2> QED
    BY <2>1 DEF Anything
<1>2. CASE Width[type] = 2
  BY <1>2, ThreeWidths DEF Anything, Word
<1>3. CASE Width[type] \in {4, 8}
  <2>1. PICK n \in Nat : n = Width[type] \div 2
    BY <1>3
  <2>2. v \in [1 .. n -> Word]
    BY <1>3, <2>1, ThreeWidths
  <2> QED
    BY <2>2 DEF Anything
<1> QED
  BY <1>1, <1>2, <1>3, ThreeWidths

\* One more field read.
LEMMA OneMoreField ==
  ASSUME NEW N, NEW f \in Readings(N), NEW name \in N, NEW v \in Anything
  PROVE  /\ With(f, name, v) \in Readings(N)
         /\ DOMAIN With(f, name, v) = DOMAIN f \cup {name} /\ With(f, name, v)[name] = v
         /\ \A x \in DOMAIN f : x # name => With(f, name, v)[x] = f[x]
<1>1. PICK D \in SUBSET N : f \in [D -> Anything]
  BY DEF Readings
<1>2. PICK g : g = With(f, name, v)
  OBVIOUS
<1>3. g = [x \in D \cup {name} |-> IF x = name THEN v ELSE f[x]]
  BY <1>1, <1>2 DEF With
<1>4. g \in [D \cup {name} -> Anything]
  BY <1>1, <1>3
<1>5. D \cup {name} \in SUBSET N
  BY <1>1
<1>6. g \in Readings(N)
  BY <1>4, <1>5 DEF Readings
<1> QED
  BY <1>1, <1>2, <1>3, <1>6

\* A subsequence, element by element.
LEMMA SubsequenceOf ==
  ASSUME NEW S, NEW data \in Seq(S), NEW last \in 0 .. Len(data), NEW first \in 1 .. last + 1
  PROVE  /\ SubSeq(data, first, last) \in Seq(S) /\ Len(SubSeq(data, first, last)) = last - first + 1
         /\ \A i \in 1 .. last - first + 1 : SubSeq(data, first, last)[i] = data[first + i - 1]
  OBVIOUS

\* A field that is there is read, and its reader goes on.
LEMMA FieldRead ==
  ASSUME NEW N, NEW r \in Readers(N), NEW name \in N, NEW type \in Types
  PROVE  /\ ReadField(r, name, type) \in Readers(N)
         /\ r.ok /\ r.pos + Width[type] <= Len(r.data) =>
              /\ ReadField(r, name, type).ok /\ ReadField(r, name, type).data = r.data
              /\ ReadField(r, name, type).pos = r.pos + Width[type]
              /\ ReadField(r, name, type).fields
                   = With(r.fields, name, ValueOf(type, SubSeq(r.data, r.pos + 1, r.pos + Width[type])))
<1>1. PICK data \in Seq(Octet), pos \in Nat, fields \in Readings(N) :
        data = r.data /\ pos = r.pos /\ fields = r.fields
  BY DEF Readers
<1>2. PICK n \in Nat : n = Width[type] /\ n >= 1
  BY ThreeWidths
<1>3. CASE r.ok /\ r.pos + Width[type] <= Len(r.data)
  <2>1. PICK v : v = ValueOf(type, SubSeq(data, pos + 1, pos + n))
    OBVIOUS
  <2>2. v \in Anything
    <3>1. pos + n \in 0 .. Len(data) /\ pos + 1 \in 1 .. pos + n
      BY <1>1, <1>2, <1>3
    <3>4. SubSeq(data, pos + 1, pos + n) \in Seq(Octet) /\ Len(SubSeq(data, pos + 1, pos + n)) = n
      BY <3>1, SubsequenceOf
    <3>2. v \in Values(type)
      BY <1>2, <2>1, <3>4, ValueOfOctets
    <3> QED
      BY <3>2, ValuesAreThings
  <2>3. PICK read : read = With(fields, name, v)
    OBVIOUS
  <2>4. read \in Readings(N)
    BY <2>2, <2>3, OneMoreField
  <2>5. pos + n \in Nat
    OBVIOUS
  <2>6. ReadField(r, name, type) = [r EXCEPT !.pos = pos + n, !.fields = read]
    BY <1>1, <1>2, <1>3, <2>1, <2>3, Zenon DEF ReadField
  <2>7. PICK q : q = ReadField(r, name, type)
    OBVIOUS
  <2>8. q \in Readers(N)
    BY <2>4, <2>5, <2>6, <2>7 DEF Readers
  <2>9. q.ok /\ q.data = r.data /\ q.pos = pos + n /\ q.fields = read
    BY <1>3, <2>6, <2>7 DEF Readers
  <2> QED
    BY <1>1, <1>2, <2>1, <2>3, <2>7, <2>8, <2>9
<1>4. CASE ~(r.ok /\ r.pos + Width[type] <= Len(r.data))
  <2>1. ReadField(r, name, type) = [r EXCEPT !.ok = FALSE]
    BY <1>4, Zenon DEF ReadField
  <2>2. [r EXCEPT !.ok = FALSE] \in Readers(N)
    BY DEF Readers
  <2> QED
    BY <1>4, <2>1, <2>2
<1> QED
  BY <1>3, <1>4

ReadSteps(N, layout) ==
  [k \in 1 .. Len(layout) |-> [r \in Readers(N) |-> ReadField(r, layout[k][1], layout[k][2])]]

\* ReadFields makes one step for each field.
LEMMA ReadingsAreSteps ==
  ASSUME NEW N, NEW layout \in Layouts(N), NEW r \in Readers(N)
  PROVE  \E g : /\ Run(g, Len(layout), Readers(N), r, ReadSteps(N, layout))
                /\ ReadFields(r, layout) = g[Len(layout)]
<1> DEFINE Is(g) == g = [k \in 0 .. Len(layout) |->
                           IF k = 0 THEN r ELSE ReadField(g[k - 1], layout[k][1], layout[k][2])]
<1>0. PICK n \in Nat : n = Len(layout)
  BY OfALayout
<1>1. PICK step : step = ReadSteps(N, layout)
  OBVIOUS
<1>2. \A k \in 1 .. n : layout[k][1] \in N /\ layout[k][2] \in Types
  BY <1>0, OfALayout
<1>3. \A k \in 1 .. n : /\ step[k] \in [Readers(N) -> Readers(N)]
                        /\ \A v \in Readers(N) : step[k][v] = ReadField(v, layout[k][1], layout[k][2])
  <2>1. TAKE k \in 1 .. n
  <2>2. PICK name \in N, type \in Types : name = layout[k][1] /\ type = layout[k][2]
    BY <1>2
  <2>3. step[k] = [v \in Readers(N) |-> ReadField(v, name, type)]
    BY <1>0, <1>1, <2>2 DEF ReadSteps
  <2>4. \A v \in Readers(N) : ReadField(v, name, type) \in Readers(N)
    BY FieldRead
  <2> QED
    BY <2>2, <2>3, <2>4
<1>4. step \in [1 .. n -> [Readers(N) -> Readers(N)]]
  <2>1. step = [k \in 1 .. n |-> step[k]]
    BY <1>0, <1>1 DEF ReadSteps
  <2> QED
    BY <1>3, <2>1
<1>5. ASSUME NEW f PROVE Run(f, n, Readers(N), r, step) => Is(f)
  <2>1. SUFFICES ASSUME Run(f, n, Readers(N), r, step) PROVE Is(f)
    OBVIOUS
  <2>2. f = [k \in 0 .. n |-> f[k]] /\ f[0] = r
    BY <2>1 DEF Run
  <2>3. \A k \in 1 .. n : f[k - 1] \in Readers(N) /\ f[k] = step[k][f[k - 1]]
    <3>1. \A k \in 1 .. n : k - 1 \in 0 .. n
      BY <1>0
    <3> QED
      BY <2>1, <3>1 DEF Run
  <2>4. \A k \in 1 .. n : f[k] = ReadField(f[k - 1], layout[k][1], layout[k][2])
    BY <1>3, <2>3
  <2>5. \A k \in 0 .. n : k = 0 \/ k \in 1 .. n
    OBVIOUS
  <2>6. \A k \in 0 .. n : f[k] = IF k = 0 THEN r ELSE ReadField(f[k - 1], layout[k][1], layout[k][2])
    BY <2>2, <2>4, <2>5, Zenon
  <2> QED
    BY <1>0, <2>2, <2>6, Zenon
<1>6. ASSUME NEW f PROVE Is(f) => Run(f, n, Readers(N), r, step)
  <2>1. SUFFICES ASSUME Is(f) PROVE Run(f, n, Readers(N), r, step)
    OBVIOUS
  <2>2. /\ f = [k \in 0 .. n |-> f[k]] /\ f[0] = r
        /\ \A k \in 1 .. n : f[k] = ReadField(f[k - 1], layout[k][1], layout[k][2])
    BY <1>0, <2>1
  <2> DEFINE Bad == {m \in 0 .. n : f[m] \notin Readers(N)}
  <2> HIDE DEF Is
  <2>3. Bad = {}
    <3>1. SUFFICES ASSUME Bad # {} PROVE FALSE
      OBVIOUS
    <3>2. PICK m \in Bad : \A i \in Bad : m <= i
      <4>1. Bad \in SUBSET Nat
        OBVIOUS
      <4> HIDE DEF Bad
      <4> QED
        BY <3>1, <4>1, SmallestMember
    <3>3. m \in 0 .. n /\ f[m] \notin Readers(N) /\ m # 0
      BY <2>2
    <3>4. m - 1 \in 0 .. n /\ m - 1 \notin Bad /\ m \in 1 .. n
      BY <3>2, <3>3
    <3>5. f[m - 1] \in Readers(N)
      BY <3>4
    <3>6. f[m] = ReadField(f[m - 1], layout[m][1], layout[m][2])
      BY <2>2, <3>4
    <3>7. layout[m][1] \in N /\ layout[m][2] \in Types
      BY <1>2, <3>4
    <3> QED
      BY <3>3, <3>5, <3>6, <3>7, FieldRead
  <2>4. f \in [0 .. n -> Readers(N)]
    BY <2>2, <2>3
  <2>5. ASSUME NEW k \in 1 .. n PROVE f[k] = step[k][f[k - 1]]
    <3>1. k - 1 \in 0 .. n
      BY <1>0
    <3>2. f[k - 1] \in Readers(N)
      BY <2>4, <3>1
    <3> QED
      BY <1>3, <2>2, <3>2
  <2> QED
    BY <2>2, <2>4, <2>5 DEF Run
<1>7. \E f : Run(f, n, Readers(N), r, step)
  BY <1>4, RunExists
<1>8. ReadFields(r, layout) = (CHOOSE f : Is(f))[n]
  BY <1>0 DEF ReadFields
<1> HIDE DEF Is
<1>9. Is(CHOOSE f : Is(f))
  BY <1>5, <1>7
<1> QED
  BY <1>0, <1>1, <1>6, <1>8, <1>9

Named(layout) == {layout[k][1] : k \in 1 .. Len(layout)}
Distinctly(layout) == \A i, j \in 1 .. Len(layout) : layout[i][1] = layout[j][1] => i = j

\* Each field from its place, and no other.
HasRead(v, r, layout, at, n) ==
  /\ v.ok /\ v.data = r.data /\ v.pos = at[n]
  /\ DOMAIN v.fields = DOMAIN r.fields \cup Named(layout)
  /\ \A x \in DOMAIN r.fields \ Named(layout) : v.fields[x] = r.fields[x]
  /\ \A k \in 1 .. n :
       v.fields[layout[k][1]] = ValueOf(layout[k][2], SubSeq(r.data, at[k - 1] + 1, at[k]))

\* What ReadFields makes.
LEMMA FieldsRead ==
  ASSUME NEW N, NEW layout \in Layouts(N), Distinctly(layout), NEW r \in Readers(N), r.ok,
         NEW at, Places(at, layout, r.pos), NEW n \in Nat, n = Len(layout), at[n] <= Len(r.data)
  PROVE  /\ ReadFields(r, layout) \in Readers(N)
         /\ HasRead(ReadFields(r, layout), r, layout, at, n)
<1>1. PICK step : step = ReadSteps(N, layout)
  OBVIOUS
<1>2. PICK g : Run(g, n, Readers(N), r, step) /\ ReadFields(r, layout) = g[n]
  BY <1>1, ReadingsAreSteps
<1> DEFINE Value(k) == ValueOf(layout[k][2], SubSeq(r.data, at[k - 1] + 1, at[k]))
           Name(k)  == layout[k][1]
           Done(m) == /\ g[m].ok /\ g[m].data = r.data /\ g[m].pos = at[m]
                      /\ DOMAIN g[m].fields = DOMAIN r.fields \cup {Name(k) : k \in 1 .. m}
                      /\ \A x \in DOMAIN r.fields : (\A k \in 1 .. m : Name(k) # x) => g[m].fields[x] = r.fields[x]
                      /\ \A k \in 1 .. m : g[m].fields[Name(k)] = Value(k)
<1>3. \A k \in 1 .. n : Name(k) \in N /\ layout[k][2] \in Types /\ Width[layout[k][2]] \in 1 .. 8
  BY OfALayout
<1>4. /\ \A k \in 0 .. n : g[k] \in Readers(N)
      /\ g[0] = r /\ \A k \in 1 .. n : g[k] = ReadField(g[k - 1], Name(k), layout[k][2])
  <2>1. g[0] = r /\ (\A k \in 0 .. n : g[k] \in Readers(N)) /\ \A k \in 1 .. n : g[k] = step[k][g[k - 1]]
    BY <1>2 DEF Run
  <2>2. ASSUME NEW k \in 1 .. n PROVE g[k] = ReadField(g[k - 1], Name(k), layout[k][2])
    <3>1. k - 1 \in 0 .. n
      OBVIOUS
    <3>2. PICK v \in Readers(N) : v = g[k - 1]
      BY <2>1, <3>1
    <3>3. step[k] = [u \in Readers(N) |-> ReadField(u, Name(k), layout[k][2])]
      BY <1>1 DEF ReadSteps
    <3>4. step[k][v] = ReadField(v, Name(k), layout[k][2])
      BY <3>3
    <3> QED
      BY <2>1, <3>2, <3>4
  <2> QED
    BY <2>1, <2>2
<1>5. /\ at \in [0 .. n -> Nat] /\ at[0] = r.pos
      /\ \A k \in 1 .. n : at[k] = at[k - 1] + Width[layout[k][2]]
  BY DEF Places
<1>6. \A k \in 0 .. n : at[k] <= Len(r.data)
  <2>1. TAKE k \in 0 .. n
  <2>2. Len(r.data) \in Nat /\ r.pos \in Nat
    BY DEF Readers
  <2>3. n \in k .. n /\ k \in 0 .. n
    OBVIOUS
  <2>4. PICK from \in Nat : from = r.pos
    BY <2>2
  <2>5. at[k] <= at[n]
    BY <2>3, <2>4, PlacesGrow
  <2>6. at[k] \in Nat /\ at[n] \in Nat
    BY <1>5, <2>3
  <2> QED
    BY <2>2, <2>5, <2>6
<1> DEFINE Bad == {m \in 0 .. n : ~Done(m)}
<1>7. Done(0)
  <2>1. {Name(k) : k \in 1 .. 0} = {} /\ \A k \in 1 .. 0 : FALSE
    OBVIOUS
  <2> HIDE DEF Name, Value
  <2> QED
    BY <1>4, <1>5, <2>1
<1>8. ASSUME NEW m \in 1 .. n, Done(m - 1) PROVE Done(m)
  <2>1. m - 1 \in 0 .. n /\ m \in 0 .. n /\ m \in 1 .. m
    OBVIOUS
  <2>2. PICK v \in Readers(N) : v = g[m - 1]
    BY <1>4, <2>1
  <2>3. PICK name \in N, type \in Types, width \in Nat :
          name = Name(m) /\ type = layout[m][2] /\ width = Width[type]
    <3>1. Width[layout[m][2]] \in Nat
      BY <1>3
    <3> QED
      BY <1>3, <3>1
  <2>4. PICK a \in Nat, b \in Nat : a = at[m - 1] /\ b = at[m] /\ b = a + width /\ b <= Len(r.data)
    BY <1>5, <1>6, <2>1, <2>3
  <2>5. v.ok /\ v.data = r.data /\ v.pos = a
    BY <1>8, <2>2, <2>4
  <2>6. PICK u : u = ReadField(v, name, type) /\ g[m] = u
    BY <1>4, <2>2, <2>3
  <2>7. Value(m) = ValueOf(type, SubSeq(v.data, v.pos + 1, v.pos + Width[type]))
    BY <2>3, <2>4, <2>5
  <2> HIDE DEF Value
  <2>8. v.pos + Width[type] <= Len(v.data)
    BY <2>3, <2>4, <2>5
  <2>9. u.ok /\ u.data = v.data /\ u.pos = v.pos + Width[type] /\ u.fields = With(v.fields, name, Value(m))
    BY <2>5, <2>6, <2>7, <2>8, FieldRead
  <2>10. g[m].ok /\ g[m].data = r.data /\ g[m].pos = at[m]
    BY <2>3, <2>4, <2>5, <2>6, <2>9
  <2>11. v.fields \in Readings(N) /\ DOMAIN v.fields = DOMAIN r.fields \cup {Name(k) : k \in 1 .. m - 1}
    BY <1>8, <2>2 DEF Readers
  <2>12. /\ DOMAIN u.fields = DOMAIN v.fields \cup {name} /\ u.fields[name] = Value(m)
         /\ \A x \in DOMAIN v.fields : x # name => u.fields[x] = v.fields[x]
    BY <2>9 DEF With
  <2>13. \A k \in 1 .. m : k = m \/ (k \in 1 .. m - 1 /\ k # m /\ k \in 1 .. n)
    OBVIOUS
  <2>14. \A k \in 1 .. m - 1 : k \in 1 .. m
    OBVIOUS
  <2> HIDE DEF Name
  <2>15. DOMAIN g[m].fields = DOMAIN r.fields \cup {Name(k) : k \in 1 .. m}
    BY <2>1, <2>3, <2>6, <2>11, <2>12, <2>13, <2>14, Zenon
  <2>16. ASSUME NEW x \in DOMAIN r.fields, \A k \in 1 .. m : Name(k) # x
         PROVE  g[m].fields[x] = r.fields[x]
    <3>1. x # name
      BY <2>1, <2>3, <2>16
    <3>2. v.fields[x] = r.fields[x]
      BY <1>8, <2>2, <2>14, <2>16, Zenon
    <3> QED
      BY <2>6, <2>11, <2>12, <3>1, <3>2
  <2>17. ASSUME NEW k \in 1 .. m PROVE g[m].fields[Name(k)] = Value(k)
    <3>1. CASE k = m
      BY <2>3, <2>6, <2>12, <3>1
    <3>2. CASE k # m
      <4>1. k \in 1 .. m - 1 /\ k \in 1 .. n
        BY <2>13, <3>2
      <4>2. Name(k) # name
        BY <2>3, <3>2, <4>1 DEF Distinctly, Name
      <4>3. v.fields[Name(k)] = Value(k)
        BY <1>8, <2>2, <4>1
      <4>4. Name(k) \in DOMAIN v.fields
        BY <2>11, <4>1
      <4> QED
        BY <2>6, <2>12, <4>2, <4>3, <4>4
    <3> QED
      BY <3>1, <3>2
  <2> QED
    BY <2>10, <2>15, <2>16, <2>17
<1>9. Bad = {}
  <2>1. SUFFICES ASSUME Bad # {} PROVE FALSE
    OBVIOUS
  <2>2. PICK m \in Bad : \A i \in Bad : m <= i
    <3>1. Bad \in SUBSET Nat
      OBVIOUS
    <3> HIDE DEF Bad
    <3> QED
      BY <2>1, <3>1, SmallestMember
  <2> HIDE DEF Done
  <2>3. m \in 0 .. n /\ ~Done(m) /\ m # 0
    BY <1>7
  <2>4. m \in 1 .. n /\ m - 1 \in 0 .. n /\ ~(m <= m - 1)
    BY <2>3
  <2>5. m - 1 \notin Bad
    <3> HIDE DEF Bad
    <3> QED
      BY <2>2, <2>4
  <2>6. Done(m - 1)
    BY <2>4, <2>5
  <2> QED
    BY <1>8, <2>3, <2>4, <2>6
<1>10. n \in 0 .. n
  OBVIOUS
<1> HIDE DEF Done
<1>11. Done(n) /\ g[n] \in Readers(N)
  BY <1>4, <1>9, <1>10
<1> HIDE DEF Bad
<1>12. Named(layout) = {Name(k) : k \in 1 .. n}
  BY DEF Named
<1>13. /\ g[n].ok /\ g[n].data = r.data /\ g[n].pos = at[n]
       /\ DOMAIN g[n].fields = DOMAIN r.fields \cup Named(layout)
       /\ \A k \in 1 .. n : g[n].fields[Name(k)] = Value(k)
  BY <1>11, <1>12, Zenon DEF Done
<1>14. ASSUME NEW x \in DOMAIN r.fields \ Named(layout) PROVE g[n].fields[x] = r.fields[x]
  <2> HIDE DEF Name
  <2> QED
    BY <1>11, <1>12 DEF Done
<1> QED
  BY <1>2, <1>11, <1>13, <1>14, Zenon DEF HasRead

-----------------------------------------------------------------------------
\* The headers and the time code.

\* A layout of fields of one type.
LEMMA OfFields ==
  ASSUME NEW N, NEW type \in Types, NEW names \in Seq(N)
  PROVE  /\ Fields(type, names) \in Layouts(N) /\ Len(Fields(type, names)) = Len(names)
         /\ \A k \in 1 .. Len(names) : Fields(type, names)[k] = <<names[k], type>>
<1>1. PICK n \in Nat : n = Len(names) /\ DOMAIN names = 1 .. n /\ \A k \in 1 .. n : names[k] \in N
  OBVIOUS
<1>2. Fields(type, names) = [k \in 1 .. n |-> <<names[k], type>>]
  BY <1>1 DEF Fields
<1>3. \A k \in 1 .. n : <<names[k], type>> \in N \X Types
  BY <1>1
<1>4. Fields(type, names) \in Seq(N \X Types) /\ Len(Fields(type, names)) = n
  BY <1>2, <1>3
<1> QED
  BY <1>1, <1>2, <1>4 DEF Layouts

\* The types of the headers.
LEMMA SomeTypes ==
  /\ "uint8" \in Types /\ "uint16" \in Types /\ "uint32" \in Types /\ "float32" \in Types /\
       "float64" \in Types
  /\ Width["uint8"] = 1 /\ Width["uint16"] = 2 /\ Width["uint32"] = 4
  /\ Width["float32"] = 4 /\ Width["float64"] = 8
BY DEF Types, Width

HeaderNames == {"word0", "word1", "data_length", "byte0", "service", "subtype", "source_id"}
TmNames == {"byte0", "service", "subtype", "message_count", "destination", "coarse", "fine"}

\* The layout of the primary header,
LEMMA ThePrimaryLayout ==
  /\ PrimaryLayout \in Layouts(HeaderNames) /\ Len(PrimaryLayout) = 3
  /\ PrimaryLayout[1] = <<"word0", "uint16">> /\ PrimaryLayout[2] = <<"word1", "uint16">>
  /\ PrimaryLayout[3] = <<"data_length", "uint16">>
  /\ Distinctly(PrimaryLayout)
<1>1. PICK names \in Seq(HeaderNames) : names = <<"word0", "word1", "data_length">>
  <2>1. "word0" \in HeaderNames /\ "word1" \in HeaderNames /\ "data_length" \in HeaderNames
    BY DEF HeaderNames
  <2> QED
    BY <2>1, ShortSequences
<1>2. PrimaryLayout = Fields("uint16", names) /\ Len(names) = 3
  BY <1>1 DEF PrimaryLayout
<1>3. PrimaryLayout \in Layouts(HeaderNames) /\ Len(PrimaryLayout) = 3
  BY <1>2, OfFields, SomeTypes
<1>4. /\ PrimaryLayout[1] = <<"word0", "uint16">> /\ PrimaryLayout[2] = <<"word1", "uint16">>
      /\ PrimaryLayout[3] = <<"data_length", "uint16">>
  <2>1. names[1] = "word0" /\ names[2] = "word1" /\ names[3] = "data_length"
    BY <1>1
  <2>2. 1 \in 1 .. 3 /\ 2 \in 1 .. 3 /\ 3 \in 1 .. 3
    OBVIOUS
  <2> QED
    BY <1>2, <2>1, <2>2, OfFields, SomeTypes
<1>5. Distinctly(PrimaryLayout)
  <2>1. \A i \in 1 .. 3 : i = 1 \/ i = 2 \/ i = 3
    OBVIOUS
  <2> QED
    BY <1>3, <1>4, <2>1 DEF Distinctly
<1> QED
  BY <1>3, <1>4, <1>5

\* and of the secondary header of telemetry.
LEMMA TheTmLayout ==
  /\ TmLayout \in Layouts(TmNames) /\ Len(TmLayout) = 7
  /\ TmLayout[1] = <<"byte0", "uint8">> /\ TmLayout[2] = <<"service", "uint8">>
  /\ TmLayout[3] = <<"subtype", "uint8">> /\ TmLayout[4] = <<"message_count", "uint16">>
  /\ TmLayout[5] = <<"destination", "uint16">> /\ TmLayout[6] = <<"coarse", "uint32">>
  /\ TmLayout[7] = <<"fine", "uint16">>
<1>1. PICK a \in Seq(TmNames), b \in Seq(TmNames) :
        a = <<"byte0", "service", "subtype">> /\ b = <<"message_count", "destination">>
  <2>1. <<"byte0", "service", "subtype">> \in Seq(TmNames) /\ <<"message_count",
        "destination">> \in Seq(TmNames)
    <3>1. /\ "byte0" \in TmNames /\ "service" \in TmNames /\ "subtype" \in TmNames
          /\ "message_count" \in TmNames /\ "destination" \in TmNames
      BY DEF TmNames
    <3> QED
      BY <3>1, ShortSequences
  <2> QED
    BY <2>1
<1>2. PICK f \in Layouts(TmNames), g \in Layouts(TmNames) : f = Fields("uint8", a) /\ g = Fields("uint16", b)
  BY OfFields, SomeTypes
<1>3. /\ Len(f) = 3 /\ f[1] = <<"byte0", "uint8">> /\ f[2] = <<"service", "uint8">> /\ f[3] = <<"subtype",
           "uint8">>
  <2>1. Len(a) = 3 /\ a[1] = "byte0" /\ a[2] = "service" /\ a[3] = "subtype"
    BY <1>1
  <2> QED
    BY <1>2, <2>1, OfFields, SomeTypes
<1>4. /\ Len(g) = 2 /\ g[1] = <<"message_count", "uint16">> /\ g[2] = <<"destination", "uint16">>
  <2>1. Len(b) = 2 /\ b[1] = "message_count" /\ b[2] = "destination"
    BY <1>1
  <2> QED
    BY <1>2, <2>1, OfFields, SomeTypes
<1>5. PICK h \in Layouts(TmNames) : h = <<<<"coarse", "uint32">>, <<"fine", "uint16">>>>
  <2>1. <<<<"coarse", "uint32">>, <<"fine", "uint16">>>> \in Seq(TmNames \X Types)
    <3>1. <<"coarse", "uint32">> \in TmNames \X Types /\ <<"fine", "uint16">> \in TmNames \X Types
      BY SomeTypes DEF TmNames
    <3> QED
      BY <3>1, ShortSequences
  <2> QED
    BY <2>1 DEF Layouts
<1>6. Len(h) = 2 /\ h[1] = <<"coarse", "uint32">> /\ h[2] = <<"fine", "uint16">>
  BY <1>5
<1>7. TmLayout = (f \o g) \o h
  BY <1>1, <1>2, <1>5 DEF TmLayout
<1>8. PICK x, y : x = f \o g /\ y = x \o h
  OBVIOUS
<1>9. f \in Seq(TmNames \X Types) /\ g \in Seq(TmNames \X Types) /\ h \in Seq(TmNames \X Types)
  BY DEF Layouts
<1>10. /\ x \in Seq(TmNames \X Types) /\ Len(x) = Len(f) + Len(g)
       /\ \A i \in 1 .. Len(f) + Len(g) : x[i] = IF i <= Len(f) THEN f[i] ELSE g[i - Len(f)]
  BY <1>8, <1>9, ConcatProperties
<1>11. Len(x) = 5 /\ x[1] = f[1] /\ x[2] = f[2] /\ x[3] = f[3] /\ x[4] = g[1] /\ x[5] = g[2]
  BY <1>3, <1>4, <1>10
<1>12. /\ y \in Seq(TmNames \X Types) /\ Len(y) = Len(x) + Len(h)
       /\ \A i \in 1 .. Len(x) + Len(h) : y[i] = IF i <= Len(x) THEN x[i] ELSE h[i - Len(x)]
  BY <1>8, <1>9, <1>10, ConcatProperties
<1>13. /\ Len(y) = 7 /\ y[1] = x[1] /\ y[2] = x[2] /\ y[3] = x[3] /\ y[4] = x[4] /\ y[5] = x[5]
       /\ y[6] = h[1] /\ y[7] = h[2]
  BY <1>6, <1>11, <1>12
<1> QED
  BY <1>3, <1>4, <1>6, <1>7, <1>8, <1>11, <1>12, <1>13 DEF Layouts

\* The time code.  Ranges are written as inequalities and only SMT is asked: the
\* other forms spell out a large number as a term of its size.

\* A number in 0 .. bound - 1.
Below(x, bound) == x \in Int /\ 0 <= x /\ x < bound

\* Division with remainder, for the three divisors of the code.
LEMMA ByMillion ==
  ASSUME NEW x \in Nat
  PROVE  /\ x \div Million \in Nat /\ Below(x % Million, Million)
         /\ x = ((x \div Million) * Million) + (x % Million)
  BY SMTT(30) DEF Million, Below

\* The other two divisors of the time code.
LEMMA By15625 ==
  ASSUME NEW x \in Nat
  PROVE  x \div 15625 \in Nat /\ Below(x - (x \div 15625) * 15625, 15625)
  BY SMTT(30) DEF Below

\* A number below 65536 is its own remainder.
LEMMA By65536 ==
  ASSUME NEW x, Below(x, 65536)
  PROVE  x % 65536 = x
  BY SMTT(30) DEF Below

\* Below the cap the fraction is exact; above it, the cap is within one unit.
LEMMA FineIsTheFloor ==
  ASSUME NEW us \in Nat
  PROVE  Below(Fine(us), 65536) /\ Below((us % Million) * 1024 - Fine(us) * 15625, 15625)
<1>1. PICK m \in Nat : m = us % Million /\ m < 1000000
  BY ByMillion, SMT DEF Million, Below
<1>2. PICK f \in Nat : /\ f = Fraction(us) /\ f <= 999985
                       /\ f = m \/ (f = 999985 /\ f < m)
  <2>1. Fraction(us) = IF m > 999985 THEN 999985 ELSE m
    BY <1>1, SMT DEF Fraction, kMaxFraction
  <2>2. CASE m > 999985
    BY <2>1, <2>2, SMT
  <2>3. CASE m <= 999985
    BY <2>1, <2>3, SMT
  <2> QED
    BY <2>2, <2>3, SMT
<1>3. PICK q \in Nat : q = (f * 1024) \div 15625 /\ Below(f * 1024 - q * 15625, 15625)
  BY By15625, SMT
<1>4. Below(q, 65536)
  BY <1>2, <1>3, SMT DEF Below
<1>5. Fine(us) = q
  BY <1>2, <1>3, <1>4, By65536, SMT DEF Fine
<1>6. Below(m * 1024 - q * 15625, 15625)
  BY <1>1, <1>2, <1>3, <1>4, SMT DEF Below
<1> QED
  BY <1>1, <1>4, <1>5, <1>6, SMT

\* Reading the code back with to_seconds() gives the time that was written, less
\* less than one unit: the cap on the fraction costs nothing, the fine field never
\* overflows into the next second, and no time is written as a later one.
THEOREM TimeIsReadBack ==
  ASSUME NEW us \in Nat
  PROVE  Below(us * 1024 - ToTicks(Coarse(us), Fine(us)) * 15625, 15625)
<1>1. PICK c \in Nat, m \in Int : c = Coarse(us) /\ m = us % Million /\ us = (c * 1000000) + m
  BY ByMillion, SMT DEF Coarse, Million, Below
<1>2. PICK f \in Int : f = Fine(us) /\ Below((m * 1024) - (f * 15625), 15625)
  BY <1>1, FineIsTheFloor, SMT DEF Below
<1>3. us * 1024 - (c * 65536 + f) * 15625 = (m * 1024) - (f * 15625)
  BY <1>1, SMT
<1> QED
  BY <1>1, <1>2, <1>3, SMT DEF ToTicks

\* A later time is never written as an earlier one.
THEOREM TimeIsMonotone ==
  ASSUME NEW us \in Nat, NEW later \in Nat, us <= later
  PROVE  ToTicks(Coarse(us), Fine(us)) <= ToTicks(Coarse(later), Fine(later))
<1>1. \A x \in Nat : Coarse(x) \in Nat /\ Fine(x) \in Int
  BY ByMillion, FineIsTheFloor, SMT DEF Coarse, Below
<1>2. PICK a \in Int, b \in Int : a = ToTicks(Coarse(us), Fine(us)) /\ b = ToTicks(Coarse(later), Fine(later))
  BY <1>1, SMT DEF ToTicks
<1>3. Below(us * 1024 - a * 15625, 15625) /\ Below(later * 1024 - b * 15625, 15625)
  BY <1>2, TimeIsReadBack, SMT
<1> QED
  BY <1>2, <1>3, SMT DEF Below

\* The octets of the short types.
LEMMA OctetsOfShort ==
  /\ \A v : OctetsOf("uint8", v) = <<v>>
  /\ \A w : OctetsOf("uint16", w) = <<Hi(w), Lo(w)>>
  /\ Values("uint8") = Octet /\ Values("uint16") = Word
  /\ Values("uint32") = [1 .. 2 -> Word] /\ Values("float32") = [1 .. 2 -> Word]
  /\ Values("float64") = [1 .. 4 -> Word]
<1>1. \A v : OctetsOf("uint8", v) = <<v>>
  BY SomeTypes DEF OctetsOf
<1>2. \A w : OctetsOf("uint16", w) = <<Hi(w), Lo(w)>>
  BY SomeTypes DEF OctetsOf, WordOctets, Hi, Lo
<1>3. Values("uint8") = Octet /\ Values("uint16") = Word
  BY SomeTypes, ThreeWidths
<1>4. /\ Values("uint32") = [1 .. 2 -> Word] /\ Values("float32") = [1 .. 2 -> Word]
      /\ Values("float64") = [1 .. 4 -> Word]
  <2>1. 4 \div 2 = 2 /\ 8 \div 2 = 4
    OBVIOUS
  <2>2. /\ Values("uint32") = [1 .. 4 \div 2 -> Word] /\ Values("float32") = [1 .. 4 \div 2 -> Word]
        /\ Values("float64") = [1 .. 8 \div 2 -> Word]
    BY SomeTypes DEF Values
  <2> QED
    BY <2>1, <2>2
<1> QED
  BY <1>1, <1>2, <1>3, <1>4

\* The words of a telemetry packet's primary header, before its length is known.
LEMMA PrimaryWords ==
  ASSUME NEW stamp, IsStamp(stamp), NEW apid \in Nat, apid < 2048
  PROVE  /\ TmPrimary(apid, stamp) = [word0 |-> 2048 + apid, word1 |-> 49152 + stamp.seq, data_length |-> 0]
         /\ 2048 + apid \in Word /\ 49152 + stamp.seq \in Word /\ 0 \in Word
<1>1. PICK s \in Nat : s = stamp.seq /\ s < 16384 /\ s % 16384 = s
  BY DEF IsStamp, Word, SeqCountMask
<1>2. Encode([version |-> 0, type |-> Telemetry, secondary_hdr |-> 1, apid |-> apid,
              sequence_flags |-> kUnsegmented, sequence_count |-> stamp.seq, data_length |-> 0])
      = <<2048 + apid, 49152 + s, 0>>
  <2>1. (0 % 8) * 8192 + 0 * 4096 + 1 * 2048 + (apid % 2048) = 2048 + apid
    BY SMT
  <2>2. (3 % 4) * 16384 + (s % 16384) = 49152 + s
    BY <1>1, SMT
  <2> QED
    BY <1>1, <2>1, <2>2 DEF Encode, Telemetry, kUnsegmented, ApidMask, SeqCountMask
<1>3. 2048 + apid \in Word /\ 49152 + s \in Word /\ 0 \in Word
  BY <1>1, SMT DEF Word
<1> QED
  BY <1>1, <1>2, <1>3 DEF TmPrimary

\* The time of a packet fits its fields.
LEMMA TimeFits ==
  ASSUME NEW us \in Nat, Coarse(us) \div 65536 \in Word
  PROVE  /\ LongWords(Coarse(us)) \in [1 .. 2 -> Word]
         /\ Fine(us) \in Word
<1>1. Fine(us) \in Word
  BY FineIsTheFloor, SMT DEF Below, Word
<1>2. Coarse(us) \in Nat
  BY ByMillion DEF Coarse
<1>3. Coarse(us) % 65536 \in Word
  BY <1>2, SMT DEF Word
<1>4. ASSUME NEW a \in Word, NEW b \in Word PROVE <<a, b>> \in [1 .. 2 -> Word]
  OBVIOUS
<1> QED
  BY <1>1, <1>3, <1>4 DEF LongWords

\* The header of a telemetry packet, but for the length.
TmHeader(d, apid, service, subtype, stamp) ==
  /\ d[1] = Hi(2048 + apid) /\ d[2] = Lo(2048 + apid)
  /\ d[3] = Hi(49152 + stamp.seq) /\ d[4] = Lo(49152 + stamp.seq)
  /\ d[7] = 32 /\ d[8] = service /\ d[9] = subtype
  /\ d[10] = Hi(stamp.count) /\ d[11] = Lo(stamp.count)
  /\ d[12] = Hi(0) /\ d[13] = Lo(0)
  /\ \A i \in 1 .. 4 : d[13 + i] = OctetsOf("uint32", LongWords(Coarse(stamp.us)))[i]
  /\ d[18] = Hi(Fine(stamp.us)) /\ d[19] = Lo(Fine(stamp.us))

\* The writer a packet is built with.
IsEmptyWriter(w) == w = Writer(kMaxPacket) /\ w.ok /\ w.capacity = kMaxPacket /\ Len(w.data) = 0

\* There is such a writer.
LEMMA EmptyWriter == \E w \in Writers : IsEmptyWriter(w)
<1>1. <<>> \in Seq(Octet) /\ Len(<<>>) = 0
  OBVIOUS
<1>2. PICK none : none = <<>> /\ none \in Seq(Octet) /\ Len(none) = 0
  BY <1>1, Zenon
<1>3. kMaxPacket \in Nat
  BY DEF kMaxPacket
<1>4. PICK size \in Nat : size = kMaxPacket
  BY <1>3, Zenon
<1>5. PICK yes : yes = TRUE
  OBVIOUS
<1>6. PICK empty : empty = [data |-> none, capacity |-> size, ok |-> yes]
  OBVIOUS
<1>7. Writer(kMaxPacket) = empty
  BY <1>2, <1>4, <1>5, <1>6, Zenon DEF Writer
<1>8. empty.data = none /\ empty.capacity = size /\ empty.ok = yes
  BY <1>6
<1>9. empty \in Writers
  BY <1>2, <1>5, <1>6 DEF Writers
<1>10. PICK w \in Writers : w = Writer(kMaxPacket) /\ w.data = none /\ w.capacity = size /\ w.ok = yes
  BY <1>7, <1>8, <1>9, Zenon
<1>11. w.ok /\ w.capacity = kMaxPacket /\ Len(w.data) = 0
  <2>1. w.ok
    BY <1>5, <1>10
  <2> QED
    BY <1>2, <1>4, <1>10, <2>1, Zenon
<1> QED
  BY <1>10, <1>11 DEF IsEmptyWriter

\* begin_packet() writes the nineteen octets of the two headers.
LEMMA WhatBeginWrites ==
  ASSUME NEW stamp, IsStamp(stamp), NEW apid \in Nat, apid < 2048, NEW service \in Octet,
        NEW subtype \in Octet
  PROVE  \E v \in Writers : /\ Begin(apid, service, subtype, stamp) = v
                             /\ v.ok /\ v.capacity = 1024 /\ Len(v.data) = 19
                             /\ TmHeader(v.data, apid, service, subtype, stamp)
<1>1. PICK first : first = TmPrimary(apid, stamp)
  OBVIOUS
<1>2. /\ first["word0"] = 2048 + apid /\ first["word1"] = 49152 + stamp.seq /\ first["data_length"] = 0
      /\ 2048 + apid \in Word /\ 49152 + stamp.seq \in Word /\ 0 \in Word
  BY <1>1, PrimaryWords
<1>3. Fits(PrimaryLayout, first)
  <2>1. \A k \in 1 .. 3 : k = 1 \/ k = 2 \/ k = 3
    OBVIOUS
  <2>2. \A k \in 1 .. 3 : first[PrimaryLayout[k][1]] \in Values(PrimaryLayout[k][2])
    BY <1>2, <2>1, ThePrimaryLayout, OctetsOfShort
  <2> QED
    BY <2>2, ThePrimaryLayout DEF Fits
<1>4. PICK w \in Writers : w = Writer(kMaxPacket) /\ w.ok /\ w.capacity = 1024 /\ Len(w.data) = 0
  BY EmptyWriter, SMT DEF IsEmptyWriter, kMaxPacket
<1>5. PICK at : Places(at, PrimaryLayout, Len(w.data))
  <2>1. Len(w.data) \in Nat
    BY <1>4
  <2> QED
    BY <2>1, PlacesExist, ThePrimaryLayout
<1>6. at[0] = 0 /\ at[1] = 2 /\ at[2] = 4 /\ at[3] = 6
  <2>1. /\ at[0] = 0 /\ at[1] = at[1 - 1] + 2 /\ at[2] = at[2 - 1] + 2 /\ at[3] = at[3 - 1] + 2
    BY <1>4, <1>5, ThePrimaryLayout, SomeTypes DEF Places
  <2> QED
    BY <2>1
<1>7. PICK p : p = WriteFields(w, PrimaryLayout, first)
  OBVIOUS
<1>18. /\ p \in Writers /\ p.ok /\ p.capacity = 1024 /\ Len(p.data) = 6
       /\ \A k \in 1 .. 3 : \A i \in 1 .. Width[PrimaryLayout[k][2]] :
            p.data[at[k - 1] + i] = OctetsOf(PrimaryLayout[k][2], first[PrimaryLayout[k][1]])[i]
  <2>1. PICK n \in Nat : n = 3
    OBVIOUS
  <2>2. n = Len(PrimaryLayout) /\ at[n] <= w.capacity
    BY <1>4, <1>6, <2>1, ThePrimaryLayout
  <2>3. Written(p, w, PrimaryLayout, first, at, n)
    <3>1. w.ok /\ PrimaryLayout \in Layouts(HeaderNames)
      BY <1>4, ThePrimaryLayout
    <3> QED
      BY <1>3, <1>5, <1>7, <2>2, <3>1, FieldsWritten
  <2> QED
    BY <1>4, <1>6, <2>1, <2>3 DEF Written
<1>8. /\ p.data[1] = Hi(2048 + apid) /\ p.data[2] = Lo(2048 + apid)
      /\ p.data[3] = Hi(49152 + stamp.seq) /\ p.data[4] = Lo(49152 + stamp.seq)
  <2>1. \A i \in 1 .. 2 : /\ p.data[0 + i] = <<Hi(2048 + apid), Lo(2048 + apid)>>[i]
                          /\ p.data[2 + i] = <<Hi(49152 + stamp.seq), Lo(49152 + stamp.seq)>>[i]
    <3>1. /\ \A i \in 1 .. 2 : p.data[at[1 - 1] + i] = OctetsOf("uint16", first["word0"])[i]
          /\ \A i \in 1 .. 2 : p.data[at[2 - 1] + i] = OctetsOf("uint16", first["word1"])[i]
      BY <1>18, ThePrimaryLayout, SomeTypes
    <3> QED
      BY <1>2, <1>6, <3>1, OctetsOfShort
  <2> QED
    BY <2>1
<1>9. PICK coarse, fine : coarse = LongWords(Coarse(stamp.us)) /\ fine = Fine(stamp.us)
  OBVIOUS
<1>20. coarse \in [1 .. 2 -> Word] /\ fine \in Word
  <2>1. PICK us \in Nat : us = stamp.us /\ Coarse(us) \div 65536 \in Word
    BY DEF IsStamp
  <2> QED
    BY <1>9, <2>1, TimeFits
<1>10. PICK second : second = TmSecondary(service, subtype, stamp)
  OBVIOUS
<1>11. /\ second["byte0"] = 32 /\ second["service"] = service /\ second["subtype"] = subtype
       /\ second["message_count"] = stamp.count /\ second["destination"] = 0
       /\ second["coarse"] = coarse /\ second["fine"] = fine
       /\ 32 \in Octet /\ stamp.count \in Word
  BY <1>9, <1>10 DEF TmSecondary, kPusVersion, Octet, IsStamp
<1>12. Fits(TmLayout, second)
  <2>1. \A k \in 1 .. 7 : k = 1 \/ k = 2 \/ k = 3 \/ k = 4 \/ k = 5 \/ k = 6 \/ k = 7
    OBVIOUS
  <2>2. \A k \in 1 .. 7 : second[TmLayout[k][1]] \in Values(TmLayout[k][2])
    BY <1>2, <1>11, <1>20, <2>1, TheTmLayout, OctetsOfShort
  <2> QED
    BY <2>2, TheTmLayout DEF Fits
<1>13. PICK ut : Places(ut, TmLayout, Len(p.data))
  <2>1. Len(p.data) \in Nat
    BY <1>18
  <2> QED
    BY <2>1, PlacesExist, TheTmLayout
<1>14. /\ ut[0] = 6 /\ ut[1] = 7 /\ ut[2] = 8 /\ ut[3] = 9 /\ ut[4] = 11 /\ ut[5] = 13 /\ ut[6] = 17 /\
            ut[7] = 19
  <2>1. /\ ut[0] = 6 /\ ut[1] = ut[1 - 1] + 1 /\ ut[2] = ut[2 - 1] + 1 /\ ut[3] = ut[3 - 1] + 1
        /\ ut[4] = ut[4 - 1] + 2 /\ ut[5] = ut[5 - 1] + 2 /\ ut[6] = ut[6 - 1] + 4 /\ ut[7] = ut[7 - 1] + 2
    BY <1>13, <1>18, TheTmLayout, SomeTypes DEF Places
  <2> QED
    BY <2>1
<1>15. PICK v : v = WriteFields(p, TmLayout, second)
  OBVIOUS
<1>19. /\ v \in Writers /\ v.ok /\ v.capacity = 1024 /\ Len(v.data) = 19
       /\ \A i \in 1 .. 6 : v.data[i] = p.data[i]
       /\ \A k \in 1 .. 7 : \A i \in 1 .. Width[TmLayout[k][2]] :
            v.data[ut[k - 1] + i] = OctetsOf(TmLayout[k][2], second[TmLayout[k][1]])[i]
  <2>1. PICK n \in Nat : n = 7
    OBVIOUS
  <2>2. n = Len(TmLayout) /\ ut[n] <= p.capacity
    BY <1>14, <1>18, <2>1, TheTmLayout
  <2>3. Written(v, p, TmLayout, second, ut, n)
    <3>1. p \in Writers /\ p.ok /\ TmLayout \in Layouts(TmNames)
      BY <1>18, TheTmLayout
    <3> QED
      BY <1>12, <1>13, <1>15, <2>2, <3>1, FieldsWritten
  <2> QED
    BY <1>14, <1>18, <2>1, <2>3 DEF Written
<1>16. Begin(apid, service, subtype, stamp) = v
  BY <1>1, <1>4, <1>7, <1>10, <1>15 DEF Begin
<1>17. /\ v.data[7] = 32 /\ v.data[8] = service /\ v.data[9] = subtype
       /\ v.data[10] = Hi(stamp.count) /\ v.data[11] = Lo(stamp.count)
       /\ v.data[12] = Hi(0) /\ v.data[13] = Lo(0)
       /\ \A i \in 1 .. 4 : v.data[13 + i] = OctetsOf("uint32", coarse)[i]
       /\ v.data[18] = Hi(fine) /\ v.data[19] = Lo(fine)
  <2>1. /\ \A i \in 1 .. 1 : /\ v.data[ut[1 - 1] + i] = OctetsOf("uint8", 32)[i]
                             /\ v.data[ut[2 - 1] + i] = OctetsOf("uint8", service)[i]
                             /\ v.data[ut[3 - 1] + i] = OctetsOf("uint8", subtype)[i]
        /\ \A i \in 1 .. 2 : /\ v.data[ut[4 - 1] + i] = OctetsOf("uint16", stamp.count)[i]
                             /\ v.data[ut[5 - 1] + i] = OctetsOf("uint16", 0)[i]
                             /\ v.data[ut[7 - 1] + i] = OctetsOf("uint16", fine)[i]
        /\ \A i \in 1 .. 4 : v.data[ut[6 - 1] + i] = OctetsOf("uint32", coarse)[i]
    BY <1>11, <1>19, TheTmLayout, SomeTypes
  <2>2. /\ \A i \in 1 .. 1 : /\ v.data[6 + i] = <<32>>[i] /\ v.data[7 + i] = <<service>>[i]
                             /\ v.data[8 + i] = <<subtype>>[i]
        /\ \A i \in 1 .. 2 : /\ v.data[9 + i] = <<Hi(stamp.count), Lo(stamp.count)>>[i]
                             /\ v.data[11 + i] = <<Hi(0), Lo(0)>>[i]
                             /\ v.data[17 + i] = <<Hi(fine), Lo(fine)>>[i]
        /\ \A i \in 1 .. 4 : v.data[13 + i] = OctetsOf("uint32", coarse)[i]
    BY <1>14, <2>1, OctetsOfShort
  <2> QED
    BY <2>2
<1>21. /\ v.data[1] = Hi(2048 + apid) /\ v.data[2] = Lo(2048 + apid)
       /\ v.data[3] = Hi(49152 + stamp.seq) /\ v.data[4] = Lo(49152 + stamp.seq)
  BY <1>8, <1>19
<1>22. TmHeader(v.data, apid, service, subtype, stamp)
  <2>1. /\ \A i \in 1 .. 4 : v.data[13 + i] = OctetsOf("uint32", LongWords(Coarse(stamp.us)))[i]
        /\ v.data[18] = Hi(Fine(stamp.us)) /\ v.data[19] = Lo(Fine(stamp.us))
    BY <1>9, <1>17
  <2> QED
    BY <1>17, <1>21, <2>1 DEF TmHeader
<1> QED
  BY <1>16, <1>19, <1>22

\* The length is patched into the header: octets 5 and 6 and no other.
LEMMA TwoPatched ==
  ASSUME NEW S, NEW d \in Seq(S), NEW n \in Nat, n = Len(d), 6 <= n, NEW a \in S, NEW b \in S
  PROVE  /\ [d EXCEPT ![5] = a, ![6] = b] \in Seq(S)
         /\ Len([d EXCEPT ![5] = a, ![6] = b]) = n
         /\ [d EXCEPT ![5] = a, ![6] = b][5] = a
         /\ [d EXCEPT ![5] = a, ![6] = b][6] = b
         /\ \A i \in 1 .. n : i # 5 /\ i # 6 => [d EXCEPT ![5] = a, ![6] = b][i] = d[i]
<1>1. d \in [1 .. n -> S] /\ 5 \in 1 .. n /\ 6 \in 1 .. n
  OBVIOUS
<1> DEFINE e == [d EXCEPT ![5] = a, ![6] = b]
<1>2. e \in [1 .. n -> S]
  BY <1>1
<1>3. /\ e[5] = a /\ e[6] = b
      /\ \A i \in 1 .. n : i # 5 /\ i # 6 => e[i] = d[i]
  BY <1>1
<1>4. e \in Seq(S) /\ Len(e) = n
  <2> HIDE DEF e
  <2>1. \A k \in 1 .. n : e[k] \in S
    BY <1>2
  <2>2. e = [k \in 1 .. n |-> e[k]]
    BY <1>2
  <2> QED
    BY <2>1, <2>2
<1> QED
  BY <1>3, <1>4

\* Only the data of the writer changes with it.
LEMMA DataPatched ==
  ASSUME NEW w \in Writers, NEW e \in Seq(Octet)
  PROVE  /\ [w EXCEPT !.data = e] \in Writers
         /\ [w EXCEPT !.data = e].data = e
         /\ [w EXCEPT !.data = e].ok = w.ok
         /\ [w EXCEPT !.data = e].capacity = w.capacity
  BY DEF Writers

\* The two octets of a word, as a sequence.
LEMMA TwoOctets ==
  ASSUME NEW x \in Octet, NEW y \in Octet
  PROVE  <<x, y>> \in Seq(Octet) /\ Len(<<x, y>>) = 2
  OBVIOUS

\* The two octets of a word.
LEMMA TwoOctetsOf ==
  ASSUME NEW c \in Word
  PROVE  /\ WordOctets(c) = <<Hi(c), Lo(c)>> /\ Hi(c) \in Octet /\ Lo(c) \in Octet
         /\ WordOctets(c) \in Seq(Octet) /\ Len(WordOctets(c)) = 2
         /\ WordOctets(c)[1] = Hi(c) /\ WordOctets(c)[2] = Lo(c)
<1>1. WordOctets(c) = <<Hi(c), Lo(c)>>
  BY DEF WordOctets, Hi, Lo
<1>2. Hi(c) \in Octet /\ Lo(c) \in Octet
  BY PartsOfWord
<1> QED
  BY <1>1, <1>2, TwoOctets

\* finish_packet() puts in the length and seals the packet: its CRC is 0.
LEMMA WhatFinishMakes ==
  ASSUME NEW w \in Writers, w.ok, w.capacity = kMaxPacket, NEW n \in Nat, n = Len(w.data),
         6 <= n, n + 2 <= kMaxPacket
  PROVE  \E p \in Seq(Octet) :
           /\ Finish(w) = p /\ Len(p) = n + 2 /\ Crc(p) = 0
           /\ p[5] = Hi(n - 5) /\ p[6] = Lo(n - 5)
           /\ \A i \in 1 .. n : i # 5 /\ i # 6 => p[i] = w.data[i]
<1>1. PICK d \in Seq(Octet) : d = w.data /\ Len(d) = n
  BY DEF Writers
<1>2. PICK m \in Word : m = n - 5 /\ m = Len(w.data) - kHeaderBytes + kCrcBytes - 1
  <2>1. n - 5 \in Word
    BY SMT DEF Word, kMaxPacket
  <2> QED
    BY <2>1 DEF kHeaderBytes, kCrcBytes
<1>3. PICK a \in Octet, b \in Octet : a = Hi(m) /\ b = Lo(m) /\ WordOctets(m)[1] = a /\ WordOctets(m)[2] = b
  BY TwoOctetsOf
<1>4. PICK e \in Seq(Octet) :
        /\ e = [d EXCEPT ![5] = a, ![6] = b] /\ Len(e) = n /\ e[5] = a /\ e[6] = b
        /\ \A i \in 1 .. n : i # 5 /\ i # 6 => e[i] = d[i]
  <2> DEFINE f == [d EXCEPT ![5] = a, ![6] = b]
  <2>1. /\ f \in Seq(Octet) /\ Len(f) = n /\ f[5] = a /\ f[6] = b
        /\ \A i \in 1 .. n : i # 5 /\ i # 6 => f[i] = d[i]
    BY <1>1, TwoPatched
  <2> HIDE DEF f
  <2>2. \E e \in Seq(Octet) :
        /\ e = f /\ Len(e) = n /\ e[5] = a /\ e[6] = b
        /\ \A i \in 1 .. n : i # 5 /\ i # 6 => e[i] = d[i]
    BY <2>1, Zenon
  <2> QED
    BY <2>2 DEF f
<1>5. PICK patched \in Writers :
        /\ patched = [w EXCEPT !.data = [@ EXCEPT ![5] = WordOctets(m)[1], ![6] = WordOctets(m)[2]]]
        /\ patched.data = e /\ patched.ok /\ patched.capacity = w.capacity
  <2>1. [w EXCEPT !.data = [@ EXCEPT ![5] = WordOctets(m)[1],
        ![6] = WordOctets(m)[2]]] = [w EXCEPT !.data = e]
    BY <1>1, <1>3, <1>4, Zenon
  <2>2. /\ [w EXCEPT !.data = e] \in Writers /\ [w EXCEPT !.data = e].data = e
        /\ [w EXCEPT !.data = e].ok = w.ok /\ [w EXCEPT !.data = e].capacity = w.capacity
    BY DataPatched, Zenon
  <2> QED
    BY <2>1, <2>2, Zenon
<1>6. PICK c \in Word : c = Crc(e)
  BY BothEndsAgree, Zenon
<1>7. PICK bytes \in Seq(Octet) : bytes = WordOctets(c) /\ Len(bytes) = 2 /\ bytes = <<Hi(c), Lo(c)>>
  BY TwoOctetsOf, Zenon
<1>8. PICK closed : closed = WriteRaw(patched, bytes)
  OBVIOUS
<1>9. closed.ok /\ closed.data = e \o bytes
  <2>1. patched.ok /\ Len(patched.data) + Len(bytes) <= patched.capacity
    BY <1>4, <1>5, <1>7 DEF kMaxPacket
  <2> QED
    BY <1>5, <1>8, <2>1, RawWrite, Zenon
<1>10. Finish(w) = closed.data
  BY <1>2, <1>5, <1>6, <1>7, <1>8, <1>9, Zenon DEF Finish
<1>11. PICK p \in Seq(Octet) : p = e \o bytes /\ Crc(p) = 0
  <2>1. Hi(c) \in Octet /\ Lo(c) \in Octet
    BY TwoOctetsOf, Zenon
  <2> QED
    <3>1. \A x, y \in Octet : /\ e \o <<x, y>> \in Seq(Octet)
                              /\ Crc(e \o <<x, y>>) = 0 <=> <<x, y>> = WordOctets(Crc(e))
      BY OnlyTheCrcSeals
    <3>2. e \o <<Hi(c), Lo(c)>> \in Seq(Octet) /\ Crc(e \o <<Hi(c), Lo(c)>>) = 0
      BY <1>6, <1>7, <2>1, <3>1, Zenon
    <3> QED
      BY <1>7, <3>2, Zenon
<1>12. Len(p) = Len(e) + Len(bytes) /\ \A i \in 1 .. Len(e) : p[i] = e[i]
  <2>1. Len(e \o bytes) = Len(e) + Len(bytes) /\ \A i \in 1 .. Len(e) : (e \o bytes)[i] = e[i]
    BY ConcatProperties
  <2> QED
    BY <1>11, <2>1, Zenon
<1>13. Len(p) = n + 2 /\ \A i \in 1 .. n : p[i] = e[i]
  BY <1>4, <1>7, <1>12
<1>14. p[5] = Hi(n - 5) /\ p[6] = Lo(n - 5)
  <2>1. 5 \in 1 .. n /\ 6 \in 1 .. n
    OBVIOUS
  <2>2. p[5] = a /\ p[6] = b
    BY <1>4, <1>13, <2>1, Zenon
  <2> QED
    BY <1>2, <1>3, <2>2, Zenon
<1>15. \A i \in 1 .. n : i # 5 /\ i # 6 => p[i] = w.data[i]
  BY <1>1, <1>4, <1>13, Zenon
<1> QED
  BY <1>9, <1>10, <1>11, <1>13, <1>14, <1>15, ZenonT(30)

-----------------------------------------------------------------------------
\* Packets of telemetry.

\* A telemetry packet: its header, its fields from the 20th octet on, its CRC.
IsTm(p, apid, service, subtype, stamp, layout, values, at, n) ==
  /\ p \in Seq(Octet) /\ Len(p) = at[n] + 2 /\ Crc(p) = 0
  /\ TmHeader(p, apid, service, subtype, stamp)
  /\ p[5] = Hi(at[n] - 5) /\ p[6] = Lo(at[n] - 5)
  /\ \A k \in 1 .. n : \A i \in 1 .. Width[layout[k][2]] :
       p[at[k - 1] + i] = OctetsOf(layout[k][2], values[layout[k][1]])[i]

\* The rest of the header does not change.
LEMMA HeadersAlike ==
  ASSUME NEW d, NEW e, NEW apid, NEW service, NEW subtype, NEW stamp,
         TmHeader(d, apid, service, subtype, stamp),
         \A i \in 1 .. 19 : i # 5 /\ i # 6 => e[i] = d[i]
  PROVE  TmHeader(e, apid, service, subtype, stamp)
<1>1. /\ e[1] = d[1] /\ e[2] = d[2] /\ e[3] = d[3] /\ e[4] = d[4] /\ e[7] = d[7] /\ e[8] = d[8]
      /\ e[9] = d[9] /\ e[10] = d[10] /\ e[11] = d[11] /\ e[12] = d[12] /\ e[13] = d[13]
      /\ \A i \in 1 .. 4 : e[13 + i] = d[13 + i]
      /\ e[18] = d[18] /\ e[19] = d[19]
  OBVIOUS
<1> QED
  BY <1>1 DEF TmHeader

\* A telemetry packet is built as its two headers, its fields one after the other in
\* the order of the dictionary, and the CRC that brings it to 0; its length field says
\* its length (TmBuilder::begin and finish).
THEOREM WhatPacketMakes ==
  ASSUME NEW stamp, IsStamp(stamp), NEW apid \in Nat, apid = ApidMask(apid), NEW service \in Octet,
        NEW subtype \in Octet,
         NEW N, NEW layout \in Layouts(N), NEW values, Fits(layout, values),
         NEW at, Places(at, layout, 19), NEW n \in Nat, n = Len(layout), at[n] + 2 <= kMaxPacket
  PROVE  IsTm(Packet(apid, service, subtype, stamp, layout, values),
              apid, service, subtype, stamp, layout, values, at, n)
<1>1. PICK b \in Writers : /\ Begin(apid, service, subtype, stamp) = b
                           /\ b.ok /\ b.capacity = kMaxPacket /\ Len(b.data) = 19
                           /\ TmHeader(b.data, apid, service, subtype, stamp)
  <2>1. apid < 2048
    BY DEF ApidMask
  <2> QED
    BY <2>1, WhatBeginWrites DEF kMaxPacket
<1>2. at[n] \in Nat /\ 19 <= at[n] /\ at[0] = 19
  <2>1. 19 \in Nat /\ 0 \in 0 .. n /\ n \in 0 .. n
    OBVIOUS
  <2>2. at[0] <= at[n]
    BY <2>1, PlacesGrow
  <2>3. at[n] \in Nat /\ at[0] = 19
    BY <2>1 DEF Places
  <2> QED
    BY <2>2, <2>3
<1>3. at[n] <= b.capacity
  BY <1>1, <1>2 DEF kMaxPacket
<1>4. PICK w : w = WriteFields(b, layout, values)
  OBVIOUS
<1>5. Written(w, b, layout, values, at, n)
  <2>1. Places(at, layout, Len(b.data)) /\ b.ok
    BY <1>1
  <2>2. Written(WriteFields(b, layout, values), b, layout, values, at, n)
    BY <1>3, <2>1, FieldsWritten
  <2> QED
    BY <1>4, <2>2, Zenon
<1>6. /\ w \in Writers /\ w.ok /\ w.capacity = kMaxPacket /\ Len(w.data) = at[n]
      /\ \A i \in 1 .. 19 : w.data[i] = b.data[i]
      /\ \A k \in 1 .. n : \A i \in 1 .. Width[layout[k][2]] :
           w.data[at[k - 1] + i] = OctetsOf(layout[k][2], values[layout[k][1]])[i]
  BY <1>1, <1>3, <1>5 DEF Written
<1>12. PICK m \in Nat : m = at[n]
  BY <1>2, Zenon
<1>7. m = Len(w.data) /\ 19 <= m /\ 6 <= m /\ m + 2 <= kMaxPacket
  <2>1. m = Len(w.data) /\ 19 <= m /\ m + 2 <= kMaxPacket
    BY <1>2, <1>6, <1>12, Zenon
  <2> QED
    BY <2>1
<1>8. PICK p \in Seq(Octet) :
           /\ Finish(w) = p /\ Len(p) = m + 2 /\ Crc(p) = 0
           /\ p[5] = Hi(m - 5) /\ p[6] = Lo(m - 5)
           /\ \A i \in 1 .. m : i # 5 /\ i # 6 => p[i] = w.data[i]
  <2>1. w \in Writers /\ w.ok /\ w.capacity = kMaxPacket
    BY <1>6, Zenon
  <2> QED
    BY <1>7, <2>1, WhatFinishMakes
<1>9. Packet(apid, service, subtype, stamp, layout, values) = p
  BY <1>1, <1>4, <1>8 DEF Packet
<1>10. TmHeader(p, apid, service, subtype, stamp)
  <2>1. \A i \in 1 .. 19 : i # 5 /\ i # 6 => p[i] = b.data[i]
    <3>1. \A i \in 1 .. 19 : i \in 1 .. m
      BY <1>7
    <3>2. \A i \in 1 .. 19 : w.data[i] = b.data[i]
      BY <1>6, Zenon
    <3>3. \A i \in 1 .. m : i # 5 /\ i # 6 => p[i] = w.data[i]
      BY <1>8, Zenon
    <3> QED
      BY <3>1, <3>2, <3>3
  <2> QED
    BY <1>1, <2>1, HeadersAlike
<1>11. ASSUME NEW k \in 1 .. n, NEW i \in 1 .. Width[layout[k][2]]
       PROVE  p[at[k - 1] + i] = OctetsOf(layout[k][2], values[layout[k][1]])[i]
  <2>1. k - 1 \in 0 .. n /\ k \in k - 1 .. n /\ k \in 0 .. n /\ n \in k .. n /\ 0 \in 0 .. n /\
        k - 1 \in 0 .. n
    OBVIOUS
  <2>2. PICK width \in Nat : width = Width[layout[k][2]] /\ i \in 1 .. width
    <3>1. Width[layout[k][2]] \in Nat
      BY OfALayout, SMTT(30)
    <3> QED
      BY <3>1, Zenon
  <2>3. at[k] = at[k - 1] + width /\ at[k] \in Nat /\ at[k - 1] \in Nat
    BY <2>1, <2>2 DEF Places
  <2>4. at[0] <= at[k - 1] /\ at[k] <= at[n]
    <3>1. 19 \in Nat
      OBVIOUS
    <3>2. \A j \in 0 .. n : at[0] <= at[j]
      BY <2>1, <3>1, PlacesGrow
    <3>3. \A j \in k .. n : at[k] <= at[j]
      BY <2>1, <3>1, PlacesGrow
    <3> QED
      BY <2>1, <3>2, <3>3
  <2>5. PICK a \in Nat, c \in Nat : a = at[k - 1] /\ c = at[k]
    BY <2>3, Zenon
  <2>8. c = a + width /\ 19 <= a /\ c <= m
    BY <1>2, <1>12, <2>3, <2>4, <2>5
  <2>6. a + i \in 1 .. m /\ a + i # 5 /\ a + i # 6
    <3>1. i \in 1 .. width
      BY <2>2, Zenon
    <3> QED
      BY <2>8, <3>1
  <2>7. p[a + i] = w.data[a + i]
    BY <1>8, <2>6, Zenon
  <2> QED
    BY <1>6, <2>5, <2>7, Zenon
<1>13. IsTm(p, apid, service, subtype, stamp, layout, values, at, n)
  <2>1. Len(p) = at[n] + 2 /\ Crc(p) = 0 /\ p[5] = Hi(at[n] - 5) /\ p[6] = Lo(at[n] - 5)
    BY <1>8, <1>12, Zenon
  <2> QED
    BY <1>8, <1>10, <1>11, <2>1, Zenon DEF IsTm
<1> QED
  BY <1>9, <1>13, Zenon

-----------------------------------------------------------------------------
\* The two dictionaries.

\* Longer sequences.
LEMMA SixInARow ==
  ASSUME NEW S, NEW a \in S, NEW b \in S, NEW c \in S, NEW d \in S, NEW e \in S, NEW f \in S
  PROVE  <<a, b, c, d, e, f>> \in Seq(S) /\ Len(<<a, b, c, d, e, f>>) = 6
  OBVIOUS

\* Sequences of twelve.
LEMMA TwelveInARow ==
  ASSUME NEW S, NEW a \in S, NEW b \in S, NEW c \in S, NEW d \in S, NEW e \in S, NEW f \in S,
         NEW g \in S, NEW h \in S, NEW i \in S, NEW j \in S, NEW k \in S, NEW l \in S
  PROVE  <<a, b, c, d, e, f, g, h, i, j, k, l>> \in Seq(S) /\ Len(<<a, b, c, d, e, f, g, h, i, j, k, l>>) = 12
  OBVIOUS

\* The ground's row for a field has its name and its type, and the enumeration
\* its number belongs to.
Enums == {"None", "SystemMode", "AdcsEstState", "PowerState"}
EnumOf(name) == CASE name = "mode"        -> "SystemMode"
                  [] name = "est_state"   -> "AdcsEstState"
                  [] name = "power_state" -> "PowerState"
                  [] OTHER                -> "None"
Rows(N) == Seq(N \X Types \X Enums)
RowOf(row, field) == row[1] = field[1] /\ row[2] = field[2] /\ row[3] = EnumOf(field[1])
Paired(rows, layout, N, n) ==
  /\ layout \in Layouts(N) /\ rows \in Rows(N) /\ Len(layout) = n /\ Len(rows) = n
  /\ \A k \in 1 .. n : RowOf(rows[k], layout[k])

\* Fields of one type that are plain numbers,
LEMMA PairedRun ==
  ASSUME NEW N, NEW type \in Types, NEW names \in Seq(N), NEW n \in Nat, n = Len(names),
         \A x \in N : EnumOf(x) = "None"
  PROVE  Paired(Typed(type, names), Fields(type, names), N, n)
<1>1. DOMAIN names = 1 .. n /\ \A k \in 1 .. n : names[k] \in N
  OBVIOUS
<1>2. PICK rows, layout : rows = Typed(type, names) /\ layout = Fields(type, names)
  BY Zenon
<1>3. rows = [k \in 1 .. n |-> <<names[k], type, "None">>] /\ layout = [k \in 1 .. n |-> <<names[k], type>>]
  BY <1>1, <1>2 DEF Typed, Fields, NoEnum
<1>4. \A k \in 1 .. n : /\ <<names[k], type, "None">> \in N \X Types \X Enums /\ <<names[k],
                             type>> \in N \X Types
  BY <1>1 DEF Enums
<1>5. rows \in Rows(N) /\ layout \in Layouts(N) /\ Len(rows) = n /\ Len(layout) = n
  BY <1>3, <1>4 DEF Rows, Layouts
<1>6. \A k \in 1 .. n : RowOf(rows[k], layout[k])
  BY <1>1, <1>3 DEF RowOf
<1> QED
  BY <1>2, <1>5, <1>6, Zenon DEF Paired

\* one field that is the number of an enumeration,
LEMMA PairedOne ==
  ASSUME NEW x, NEW enum \in Enums, enum = EnumOf(x)
  PROVE  Paired(<<<<x, "uint8", enum>>>>, <<<<x, "uint8">>>>, {x}, 1)
<1>1. PICK rows, layout : rows = <<<<x, "uint8", enum>>>> /\ layout = <<<<x, "uint8">>>>
  BY Zenon
<1>2. <<x, "uint8", enum>> \in {x} \X Types \X Enums /\ <<x, "uint8">> \in {x} \X Types
  BY SomeTypes
<1>3. /\ rows \in Rows({x}) /\ layout \in Layouts({x}) /\ Len(rows) = 1 /\ Len(layout) = 1
      /\ rows[1] = <<x, "uint8", enum>> /\ layout[1] = <<x, "uint8">>
  BY <1>1, <1>2, ShortSequences DEF Rows, Layouts
<1>4. \A k \in 1 .. 1 : RowOf(rows[k], layout[k])
  BY <1>3 DEF RowOf
<1> QED
  BY <1>1, <1>3, <1>4, Zenon DEF Paired

\* A sequence over a set is one over a larger set.
LEMMA Wider ==
  ASSUME NEW S, NEW T, S \subseteq T, NEW s \in Seq(S)
  PROVE  s \in Seq(T)
<1>1. Len(s) \in Nat /\ s \in [1 .. Len(s) -> S]
  OBVIOUS
<1>2. PICK n \in Nat : n = Len(s)
  BY <1>1
<1>3. s \in [1 .. n -> T]
  BY <1>1, <1>2
<1> QED
  BY <1>3

\* and one run of fields behind another.
LEMMA PairedJoin ==
  ASSUME NEW M, NEW N, NEW m \in Nat, NEW n \in Nat, NEW r, NEW l, Paired(r, l, M, m),
         NEW q, NEW k, Paired(q, k, N, n)
  PROVE  Paired(r \o q, l \o k, M \cup N, m + n)
<1>1. PICK S, T : S = (M \cup N) \X Types \X Enums /\ T = (M \cup N) \X Types
  BY Zenon
<1>2. r \in Seq(S) /\ q \in Seq(S) /\ l \in Seq(T) /\ k \in Seq(T)
  <2>1. M \X Types \X Enums \subseteq S /\ N \X Types \X Enums \subseteq S
        /\ M \X Types \subseteq T /\ N \X Types \subseteq T
    BY <1>1
  <2>2. r \in Seq(M \X Types \X Enums) /\ q \in Seq(N \X Types \X Enums)
        /\ l \in Seq(M \X Types) /\ k \in Seq(N \X Types)
    BY DEF Paired, Rows, Layouts
  <2> QED
    BY <2>1, <2>2, Wider
<1>3. /\ Len(r) = m /\ Len(l) = m /\ Len(q) = n /\ Len(k) = n
      /\ \A i \in 1 .. m : RowOf(r[i], l[i])
      /\ \A i \in 1 .. n : RowOf(q[i], k[i])
  BY DEF Paired
<1>4. PICK a, b : a = r \o q /\ b = l \o k
  BY Zenon
<1>5. /\ a \in Seq(S) /\ Len(a) = m + n /\ \A i \in 1 .. m : a[i] = r[i]
      /\ \A i \in 1 .. n : a[m + i] = q[i]
  <2>1. /\ r \o q \in Seq(S) /\ Len(r \o q) = Len(r) + Len(q)
        /\ \A i \in 1 .. Len(r) : (r \o q)[i] = r[i]
        /\ \A i \in 1 .. Len(q) : (r \o q)[Len(r) + i] = q[i]
    BY <1>2, Concatenated
  <2> QED
    BY <1>3, <1>4, <2>1, Zenon
<1>6. /\ b \in Seq(T) /\ Len(b) = m + n /\ \A i \in 1 .. m : b[i] = l[i]
      /\ \A i \in 1 .. n : b[m + i] = k[i]
  <2>1. /\ l \o k \in Seq(T) /\ Len(l \o k) = Len(l) + Len(k)
        /\ \A i \in 1 .. Len(l) : (l \o k)[i] = l[i]
        /\ \A i \in 1 .. Len(k) : (l \o k)[Len(l) + i] = k[i]
    BY <1>2, Concatenated
  <2> QED
    BY <1>3, <1>4, <2>1, Zenon
<1>7. ASSUME NEW i \in 1 .. m + n PROVE RowOf(a[i], b[i])
  <2>1. CASE i \in 1 .. m
    BY <1>3, <1>5, <1>6, <2>1
  <2>2. CASE i \notin 1 .. m
    <3>1. PICK j \in 1 .. n : i = m + j
      <4>1. i - m \in 1 .. n /\ i = m + (i - m)
        BY <2>2
      <4> QED
        BY <4>1
    <3> QED
      BY <1>3, <1>5, <1>6, <3>1
  <2> QED
    BY <2>1, <2>2
<1> QED
  BY <1>1, <1>4, <1>5, <1>6, <1>7, Zenon DEF Paired, Rows, Layouts

\* A table with the fields of one structure, for the two sides of the link.
InStep(sid) ==
  \E N : \E n \in 0 .. 22 : "sid" \notin N /\ Paired(TELEMETRY[sid].fields, HkLayout(sid), N, n)

\* Structure by structure.
LEMMA SysInStep == InStep("SYS_HK")
<1>0. /\ \A m \in 1 .. 12 : m \in Nat
      /\ "uint8" \in Types /\ "uint16" \in Types /\ "uint32" \in Types /\ "float32" \in Types /\
           "float64" \in Types
  BY SomeTypes
<1>1. PICK r1, l1 :
        /\ r1 = Typed("uint32", <<"uptime_s", "tick_count">>)
        /\ l1 = Fields("uint32", <<"uptime_s", "tick_count">>)
        /\ Paired(r1, l1, {"uptime_s", "tick_count"}, 2)
  <2>1. PICK names, N : names = <<"uptime_s", "tick_count">> /\ N = {"uptime_s", "tick_count"}
    BY Zenon
  <2>2. names \in Seq(N) /\ Len(names) = 2
    BY <2>1, ShortSequences
  <2>3. \A x \in N : EnumOf(x) = "None"
    BY <2>1 DEF EnumOf
  <2>4. Paired(Typed("uint32", names), Fields("uint32", names), N, 2)
    BY <1>0, <2>2, <2>3, PairedRun
  <2> QED
    BY <2>1, <2>4, Zenon
<1>2. PICK r2, l2 : /\ r2 = <<<<"mode", "uint8", "SystemMode">>>> /\ l2 = <<<<"mode", "uint8">>>>
                /\ Paired(r2, l2, {"mode"}, 1)
  <2>1. "SystemMode" \in Enums /\ "SystemMode" = EnumOf("mode")
    BY DEF Enums, EnumOf
  <2>2. Paired(<<<<"mode", "uint8", "SystemMode">>>>, <<<<"mode", "uint8">>>>, {"mode"}, 1)
    BY <2>1, PairedOne
  <2> QED
    BY <2>2, Zenon
<1>3. PICK r3, l3 :
        /\ r3 = Typed("uint16", <<"boot_count">>)
        /\ l3 = Fields("uint16", <<"boot_count">>)
        /\ Paired(r3, l3, {"boot_count"}, 1)
  <2>1. PICK names, N : names = <<"boot_count">> /\ N = {"boot_count"}
    BY Zenon
  <2>2. names \in Seq(N) /\ Len(names) = 1
    BY <2>1, ShortSequences
  <2>3. \A x \in N : EnumOf(x) = "None"
    BY <2>1 DEF EnumOf
  <2>4. Paired(Typed("uint16", names), Fields("uint16", names), N, 1)
    BY <1>0, <2>2, <2>3, PairedRun
  <2> QED
    BY <2>1, <2>4, Zenon
<1>4. PICK r4, l4 :
        /\ r4 = Typed("uint8", <<"cpu_load_pct">>)
        /\ l4 = Fields("uint8", <<"cpu_load_pct">>)
        /\ Paired(r4, l4, {"cpu_load_pct"}, 1)
  <2>1. PICK names, N : names = <<"cpu_load_pct">> /\ N = {"cpu_load_pct"}
    BY Zenon
  <2>2. names \in Seq(N) /\ Len(names) = 1
    BY <2>1, ShortSequences
  <2>3. \A x \in N : EnumOf(x) = "None"
    BY <2>1 DEF EnumOf
  <2>4. Paired(Typed("uint8", names), Fields("uint8", names), N, 1)
    BY <1>0, <2>2, <2>3, PairedRun
  <2> QED
    BY <2>1, <2>4, Zenon
<1>5. PICK r5, l5 :
        /\ r5 = Typed("uint16", <<"sched_overruns">>)
        /\ l5 = Fields("uint16", <<"sched_overruns">>)
        /\ Paired(r5, l5, {"sched_overruns"}, 1)
  <2>1. PICK names, N : names = <<"sched_overruns">> /\ N = {"sched_overruns"}
    BY Zenon
  <2>2. names \in Seq(N) /\ Len(names) = 1
    BY <2>1, ShortSequences
  <2>3. \A x \in N : EnumOf(x) = "None"
    BY <2>1 DEF EnumOf
  <2>4. Paired(Typed("uint16", names), Fields("uint16", names), N, 1)
    BY <1>0, <2>2, <2>3, PairedRun
  <2> QED
    BY <2>1, <2>4, Zenon
<1>6. PICK r6, l6 :
        /\ r6 = Typed("uint32", <<"tc_received", "tc_rejected", "tm_sent">>)
        /\ l6 = Fields("uint32", <<"tc_received", "tc_rejected", "tm_sent">>)
        /\ Paired(r6, l6, {"tc_received", "tc_rejected", "tm_sent"}, 3)
  <2>1. PICK names, N : names = <<"tc_received", "tc_rejected", "tm_sent">> /\ N = {"tc_received",
                                                                                 "tc_rejected", "tm_sent"}
    BY Zenon
  <2>2. names \in Seq(N) /\ Len(names) = 3
    BY <2>1, ShortSequences
  <2>3. \A x \in N : EnumOf(x) = "None"
    BY <2>1 DEF EnumOf
  <2>4. Paired(Typed("uint32", names), Fields("uint32", names), N, 3)
    BY <1>0, <2>2, <2>3, PairedRun
  <2> QED
    BY <2>1, <2>4, Zenon
<1>7. PICK r7, l7 :
        /\ r7 = Typed("uint8", <<"link_up">>)
        /\ l7 = Fields("uint8", <<"link_up">>)
        /\ Paired(r7, l7, {"link_up"}, 1)
  <2>1. PICK names, N : names = <<"link_up">> /\ N = {"link_up"}
    BY Zenon
  <2>2. names \in Seq(N) /\ Len(names) = 1
    BY <2>1, ShortSequences
  <2>3. \A x \in N : EnumOf(x) = "None"
    BY <2>1 DEF EnumOf
  <2>4. Paired(Typed("uint8", names), Fields("uint8", names), N, 1)
    BY <1>0, <2>2, <2>3, PairedRun
  <2> QED
    BY <2>1, <2>4, Zenon
<1>8. PICK r8, l8 :
        /\ r8 = Typed("uint32", <<"events_logged">>)
        /\ l8 = Fields("uint32", <<"events_logged">>)
        /\ Paired(r8, l8, {"events_logged"}, 1)
  <2>1. PICK names, N : names = <<"events_logged">> /\ N = {"events_logged"}
    BY Zenon
  <2>2. names \in Seq(N) /\ Len(names) = 1
    BY <2>1, ShortSequences
  <2>3. \A x \in N : EnumOf(x) = "None"
    BY <2>1 DEF EnumOf
  <2>4. Paired(Typed("uint32", names), Fields("uint32", names), N, 1)
    BY <1>0, <2>2, <2>3, PairedRun
  <2> QED
    BY <2>1, <2>4, Zenon
<1>9. PICK r9, l9 :
        /\ r9 = Typed("uint16", <<"last_event_id">>)
        /\ l9 = Fields("uint16", <<"last_event_id">>)
        /\ Paired(r9, l9, {"last_event_id"}, 1)
  <2>1. PICK names, N : names = <<"last_event_id">> /\ N = {"last_event_id"}
    BY Zenon
  <2>2. names \in Seq(N) /\ Len(names) = 1
    BY <2>1, ShortSequences
  <2>3. \A x \in N : EnumOf(x) = "None"
    BY <2>1 DEF EnumOf
  <2>4. Paired(Typed("uint16", names), Fields("uint16", names), N, 1)
    BY <1>0, <2>2, <2>3, PairedRun
  <2> QED
    BY <2>1, <2>4, Zenon
<1>10. PICK s2, m2, N2 : /\ s2 = r1 \o r2 /\ m2 = l1 \o l2 /\ N2 = {"uptime_s", "tick_count"} \cup {"mode"}
                         /\ Paired(s2, m2, N2, 3)
  <2>1. Paired(r1 \o r2, l1 \o l2, {"uptime_s", "tick_count"} \cup {"mode"}, 2 + 1)
    <3>1. 2 \in Nat /\ 1 \in Nat
      OBVIOUS
    <3> QED
      BY <1>1, <1>2, <3>1, PairedJoin
  <2>2. 2 + 1 = 3
    OBVIOUS
  <2> QED
    BY <2>1, <2>2, Zenon
<1>11. PICK s3, m3, N3 : /\ s3 = s2 \o r3 /\ m3 = m2 \o l3 /\ N3 = N2 \cup {"boot_count"}
                         /\ Paired(s3, m3, N3, 4)
  <2>1. Paired(s2 \o r3, m2 \o l3, N2 \cup {"boot_count"}, 3 + 1)
    <3>1. 3 \in Nat /\ 1 \in Nat
      OBVIOUS
    <3> QED
      BY <1>10, <1>3, <3>1, PairedJoin
  <2>2. 3 + 1 = 4
    OBVIOUS
  <2> QED
    BY <2>1, <2>2, Zenon
<1>12. PICK s4, m4, N4 : /\ s4 = s3 \o r4 /\ m4 = m3 \o l4 /\ N4 = N3 \cup {"cpu_load_pct"}
                         /\ Paired(s4, m4, N4, 5)
  <2>1. Paired(s3 \o r4, m3 \o l4, N3 \cup {"cpu_load_pct"}, 4 + 1)
    <3>1. 4 \in Nat /\ 1 \in Nat
      OBVIOUS
    <3> QED
      BY <1>11, <1>4, <3>1, PairedJoin
  <2>2. 4 + 1 = 5
    OBVIOUS
  <2> QED
    BY <2>1, <2>2, Zenon
<1>13. PICK s5, m5, N5 : /\ s5 = s4 \o r5 /\ m5 = m4 \o l5 /\ N5 = N4 \cup {"sched_overruns"}
                         /\ Paired(s5, m5, N5, 6)
  <2>1. Paired(s4 \o r5, m4 \o l5, N4 \cup {"sched_overruns"}, 5 + 1)
    <3>1. 5 \in Nat /\ 1 \in Nat
      OBVIOUS
    <3> QED
      BY <1>12, <1>5, <3>1, PairedJoin
  <2>2. 5 + 1 = 6
    OBVIOUS
  <2> QED
    BY <2>1, <2>2, Zenon
<1>14. PICK s6, m6, N6 : /\ s6 = s5 \o r6 /\ m6 = m5 \o l6 /\ N6 = N5 \cup {"tc_received", "tc_rejected",
                              "tm_sent"}
                         /\ Paired(s6, m6, N6, 9)
  <2>1. Paired(s5 \o r6, m5 \o l6, N5 \cup {"tc_received", "tc_rejected", "tm_sent"}, 6 + 3)
    <3>1. 6 \in Nat /\ 3 \in Nat
      OBVIOUS
    <3> QED
      BY <1>13, <1>6, <3>1, PairedJoin
  <2>2. 6 + 3 = 9
    OBVIOUS
  <2> QED
    BY <2>1, <2>2, Zenon
<1>15. PICK s7, m7, N7 : /\ s7 = s6 \o r7 /\ m7 = m6 \o l7 /\ N7 = N6 \cup {"link_up"}
                         /\ Paired(s7, m7, N7, 10)
  <2>1. Paired(s6 \o r7, m6 \o l7, N6 \cup {"link_up"}, 9 + 1)
    <3>1. 9 \in Nat /\ 1 \in Nat
      OBVIOUS
    <3> QED
      BY <1>14, <1>7, <3>1, PairedJoin
  <2>2. 9 + 1 = 10
    OBVIOUS
  <2> QED
    BY <2>1, <2>2, Zenon
<1>16. PICK s8, m8, N8 : /\ s8 = s7 \o r8 /\ m8 = m7 \o l8 /\ N8 = N7 \cup {"events_logged"}
                         /\ Paired(s8, m8, N8, 11)
  <2>1. Paired(s7 \o r8, m7 \o l8, N7 \cup {"events_logged"}, 10 + 1)
    <3>1. 10 \in Nat /\ 1 \in Nat
      OBVIOUS
    <3> QED
      BY <1>15, <1>8, <3>1, PairedJoin
  <2>2. 10 + 1 = 11
    OBVIOUS
  <2> QED
    BY <2>1, <2>2, Zenon
<1>17. PICK s9, m9, N9 : /\ s9 = s8 \o r9 /\ m9 = m8 \o l9 /\ N9 = N8 \cup {"last_event_id"}
                         /\ Paired(s9, m9, N9, 12)
  <2>1. Paired(s8 \o r9, m8 \o l9, N8 \cup {"last_event_id"}, 11 + 1)
    <3>1. 11 \in Nat /\ 1 \in Nat
      OBVIOUS
    <3> QED
      BY <1>16, <1>9, <3>1, PairedJoin
  <2>2. 11 + 1 = 12
    OBVIOUS
  <2> QED
    BY <2>1, <2>2, Zenon
<1>18. TELEMETRY["SYS_HK"].fields = s9
  BY <1>1, <1>2, <1>3, <1>4, <1>5, <1>6, <1>7, <1>8, <1>9, <1>10, <1>11, <1>12, <1>13, <1>14, <1>15, <1>16,
        <1>17, Zenon DEF TELEMETRY
<1>19. HkLayout("SYS_HK") = m9
  <2>1. HkLayout("SYS_HK") = SysHk
    BY DEF HkLayout
  <2> QED
    BY <1>1, <1>2, <1>3, <1>4, <1>5, <1>6, <1>7, <1>8, <1>9, <1>10, <1>11, <1>12, <1>13, <1>14, <1>15, <1>16,
          <1>17, <2>1, Zenon DEF SysHk
<1>20. "sid" \notin N9
  BY <1>10, <1>11, <1>12, <1>13, <1>14, <1>15, <1>16, <1>17
<1>21. 12 \in 0 .. 22
  OBVIOUS
<1> QED
  BY <1>17, <1>18, <1>19, <1>20, <1>21, Zenon DEF InStep

\* The structure of the attitude control,
LEMMA AdcsInStep == InStep("ADCS_HK")
<1>0. /\ \A m \in 1 .. 12 : m \in Nat
      /\ "uint8" \in Types /\ "uint16" \in Types /\ "uint32" \in Types /\ "float32" \in Types /\
           "float64" \in Types
  BY SomeTypes
<1>1. PICK r1, l1 : /\ r1 = <<<<"est_state", "uint8", "AdcsEstState">>>> /\ l1 = <<<<"est_state", "uint8">>>>
                /\ Paired(r1, l1, {"est_state"}, 1)
  <2>1. "AdcsEstState" \in Enums /\ "AdcsEstState" = EnumOf("est_state")
    BY DEF Enums, EnumOf
  <2>2. Paired(<<<<"est_state", "uint8", "AdcsEstState">>>>, <<<<"est_state", "uint8">>>>, {"est_state"}, 1)
    BY <2>1, PairedOne
  <2> QED
    BY <2>2, Zenon
<1>2. PICK r2, l2 :
        /\ r2 = Typed("float32", <<"q_est_0", "q_est_1", "q_est_2", "q_est_3", "omega_x", "omega_y",
             "omega_z", "gyro_bias_x", "gyro_bias_y", "gyro_bias_z", "pointing_err_deg", "rate_norm">>)
        /\ l2 = Fields("float32", <<"q_est_0", "q_est_1", "q_est_2", "q_est_3", "omega_x", "omega_y",
             "omega_z", "gyro_bias_x", "gyro_bias_y", "gyro_bias_z", "pointing_err_deg", "rate_norm">>)
        /\ Paired(r2, l2, {"q_est_0", "q_est_1", "q_est_2", "q_est_3", "omega_x", "omega_y", "omega_z",
             "gyro_bias_x", "gyro_bias_y", "gyro_bias_z", "pointing_err_deg", "rate_norm"}, 12)
  <2>1. PICK names, N : names = <<"q_est_0", "q_est_1", "q_est_2", "q_est_3", "omega_x", "omega_y", "omega_z", "gyro_bias_x", "gyro_bias_y", "gyro_bias_z", "pointing_err_deg", "rate_norm">> /\ N = {"q_est_0", "q_est_1", "q_est_2", "q_est_3", "omega_x", "omega_y", "omega_z", "gyro_bias_x", "gyro_bias_y", "gyro_bias_z", "pointing_err_deg", "rate_norm"}
    BY Zenon
  <2>2. names \in Seq(N) /\ Len(names) = 12
    <3>1. "q_est_0" \in N /\ "q_est_1" \in N /\ "q_est_2" \in N /\ "q_est_3" \in N /\ "omega_x" \in N /\
          "omega_y" \in N /\ "omega_z" \in N /\ "gyro_bias_x" \in N /\ "gyro_bias_y" \in N /\
          "gyro_bias_z" \in N /\ "pointing_err_deg" \in N /\ "rate_norm" \in N
      BY <2>1
    <3> QED
      BY <2>1, <3>1, TwelveInARow
  <2>3. \A x \in N : EnumOf(x) = "None"
    BY <2>1 DEF EnumOf
  <2>4. Paired(Typed("float32", names), Fields("float32", names), N, 12)
    BY <1>0, <2>2, <2>3, PairedRun
  <2> QED
    BY <2>1, <2>4, Zenon
<1>3. PICK r3, l3 :
        /\ r3 = Typed("uint8", <<"sun_valid", "mag_valid", "eclipse">>)
        /\ l3 = Fields("uint8", <<"sun_valid", "mag_valid", "eclipse">>)
        /\ Paired(r3, l3, {"sun_valid", "mag_valid", "eclipse"}, 3)
  <2>1. PICK names, N : names = <<"sun_valid", "mag_valid", "eclipse">> /\ N = {"sun_valid", "mag_valid",
                                                                             "eclipse"}
    BY Zenon
  <2>2. names \in Seq(N) /\ Len(names) = 3
    BY <2>1, ShortSequences
  <2>3. \A x \in N : EnumOf(x) = "None"
    BY <2>1 DEF EnumOf
  <2>4. Paired(Typed("uint8", names), Fields("uint8", names), N, 3)
    BY <1>0, <2>2, <2>3, PairedRun
  <2> QED
    BY <2>1, <2>4, Zenon
<1>4. PICK r4, l4 :
        /\ r4 = Typed("float32", <<"torque_cmd_x", "torque_cmd_y", "torque_cmd_z">>)
        /\ l4 = Fields("float32", <<"torque_cmd_x", "torque_cmd_y", "torque_cmd_z">>)
        /\ Paired(r4, l4, {"torque_cmd_x", "torque_cmd_y", "torque_cmd_z"}, 3)
  <2>1. PICK names, N : names = <<"torque_cmd_x", "torque_cmd_y", "torque_cmd_z">> /\ N = {"torque_cmd_x",
                                                                                        "torque_cmd_y",
                                                                                        "torque_cmd_z"}
    BY Zenon
  <2>2. names \in Seq(N) /\ Len(names) = 3
    BY <2>1, ShortSequences
  <2>3. \A x \in N : EnumOf(x) = "None"
    BY <2>1 DEF EnumOf
  <2>4. Paired(Typed("float32", names), Fields("float32", names), N, 3)
    BY <1>0, <2>2, <2>3, PairedRun
  <2> QED
    BY <2>1, <2>4, Zenon
<1>5. PICK r5, l5 :
        /\ r5 = Typed("float64", <<"pos_eci_x", "pos_eci_y", "pos_eci_z">>)
        /\ l5 = Fields("float64", <<"pos_eci_x", "pos_eci_y", "pos_eci_z">>)
        /\ Paired(r5, l5, {"pos_eci_x", "pos_eci_y", "pos_eci_z"}, 3)
  <2>1. PICK names, N : names = <<"pos_eci_x", "pos_eci_y", "pos_eci_z">> /\ N = {"pos_eci_x", "pos_eci_y",
                                                                               "pos_eci_z"}
    BY Zenon
  <2>2. names \in Seq(N) /\ Len(names) = 3
    BY <2>1, ShortSequences
  <2>3. \A x \in N : EnumOf(x) = "None"
    BY <2>1 DEF EnumOf
  <2>4. Paired(Typed("float64", names), Fields("float64", names), N, 3)
    BY <1>0, <2>2, <2>3, PairedRun
  <2> QED
    BY <2>1, <2>4, Zenon
<1>6. PICK s2, m2, N2 : /\ s2 = r1 \o r2 /\ m2 = l1 \o l2 /\ N2 = {"est_state"} \cup {"q_est_0", "q_est_1",
                             "q_est_2", "q_est_3", "omega_x", "omega_y", "omega_z", "gyro_bias_x",
                             "gyro_bias_y", "gyro_bias_z", "pointing_err_deg", "rate_norm"}
                         /\ Paired(s2, m2, N2, 13)
  <2>1. Paired(r1 \o r2, l1 \o l2, {"est_state"} \cup {"q_est_0", "q_est_1", "q_est_2", "q_est_3", "omega_x",
        "omega_y", "omega_z", "gyro_bias_x", "gyro_bias_y", "gyro_bias_z", "pointing_err_deg", "rate_norm"},
        1 + 12)
    <3>1. 1 \in Nat /\ 12 \in Nat
      OBVIOUS
    <3> QED
      BY <1>1, <1>2, <3>1, PairedJoin
  <2>2. 1 + 12 = 13
    OBVIOUS
  <2> QED
    BY <2>1, <2>2, Zenon
<1>7. PICK s3, m3, N3 : /\ s3 = s2 \o r3 /\ m3 = m2 \o l3 /\ N3 = N2 \cup {"sun_valid", "mag_valid",
                             "eclipse"}
                         /\ Paired(s3, m3, N3, 16)
  <2>1. Paired(s2 \o r3, m2 \o l3, N2 \cup {"sun_valid", "mag_valid", "eclipse"}, 13 + 3)
    <3>1. 13 \in Nat /\ 3 \in Nat
      OBVIOUS
    <3> QED
      BY <1>6, <1>3, <3>1, PairedJoin
  <2>2. 13 + 3 = 16
    OBVIOUS
  <2> QED
    BY <2>1, <2>2, Zenon
<1>8. PICK s4, m4, N4 : /\ s4 = s3 \o r4 /\ m4 = m3 \o l4 /\ N4 = N3 \cup {"torque_cmd_x", "torque_cmd_y",
                             "torque_cmd_z"}
                         /\ Paired(s4, m4, N4, 19)
  <2>1. Paired(s3 \o r4, m3 \o l4, N3 \cup {"torque_cmd_x", "torque_cmd_y", "torque_cmd_z"}, 16 + 3)
    <3>1. 16 \in Nat /\ 3 \in Nat
      OBVIOUS
    <3> QED
      BY <1>7, <1>4, <3>1, PairedJoin
  <2>2. 16 + 3 = 19
    OBVIOUS
  <2> QED
    BY <2>1, <2>2, Zenon
<1>9. PICK s5, m5, N5 : /\ s5 = s4 \o r5 /\ m5 = m4 \o l5 /\ N5 = N4 \cup {"pos_eci_x", "pos_eci_y",
                             "pos_eci_z"}
                         /\ Paired(s5, m5, N5, 22)
  <2>1. Paired(s4 \o r5, m4 \o l5, N4 \cup {"pos_eci_x", "pos_eci_y", "pos_eci_z"}, 19 + 3)
    <3>1. 19 \in Nat /\ 3 \in Nat
      OBVIOUS
    <3> QED
      BY <1>8, <1>5, <3>1, PairedJoin
  <2>2. 19 + 3 = 22
    OBVIOUS
  <2> QED
    BY <2>1, <2>2, Zenon
<1>10. TELEMETRY["ADCS_HK"].fields = s5
  BY <1>1, <1>2, <1>3, <1>4, <1>5, <1>6, <1>7, <1>8, <1>9, Zenon DEF TELEMETRY
<1>11. HkLayout("ADCS_HK") = m5
  <2>1. HkLayout("ADCS_HK") = AdcsHk
    BY DEF HkLayout
  <2> QED
    BY <1>1, <1>2, <1>3, <1>4, <1>5, <1>6, <1>7, <1>8, <1>9, <2>1, Zenon DEF AdcsHk
<1>12. "sid" \notin N5
  BY <1>6, <1>7, <1>8, <1>9
<1>13. 22 \in 0 .. 22
  OBVIOUS
<1> QED
  BY <1>9, <1>10, <1>11, <1>12, <1>13, Zenon DEF InStep

\* and the one of the power system.
LEMMA EpsInStep == InStep("EPS_HK")
<1>0. /\ \A m \in 1 .. 12 : m \in Nat
      /\ "uint8" \in Types /\ "uint16" \in Types /\ "uint32" \in Types /\ "float32" \in Types /\
           "float64" \in Types
  BY SomeTypes
<1>1. PICK r1, l1 : /\ r1 = <<<<"power_state", "uint8", "PowerState">>>> /\ l1 = <<<<"power_state",
                         "uint8">>>>
                /\ Paired(r1, l1, {"power_state"}, 1)
  <2>1. "PowerState" \in Enums /\ "PowerState" = EnumOf("power_state")
    BY DEF Enums, EnumOf
  <2>2. Paired(<<<<"power_state", "uint8", "PowerState">>>>, <<<<"power_state", "uint8">>>>, {"power_state"},
        1)
    BY <2>1, PairedOne
  <2> QED
    BY <2>2, Zenon
<1>2. PICK r2, l2 :
        /\ r2 = Typed("float32", <<"batt_voltage", "batt_current", "batt_soc_pct", "batt_temp_c",
             "solar_power_w", "load_power_w">>)
        /\ l2 = Fields("float32", <<"batt_voltage", "batt_current", "batt_soc_pct", "batt_temp_c",
             "solar_power_w", "load_power_w">>)
        /\ Paired(r2, l2, {"batt_voltage", "batt_current", "batt_soc_pct", "batt_temp_c", "solar_power_w",
             "load_power_w"}, 6)
  <2>1. PICK names, N : names = <<"batt_voltage", "batt_current", "batt_soc_pct", "batt_temp_c", "solar_power_w", "load_power_w">> /\ N = {"batt_voltage", "batt_current", "batt_soc_pct", "batt_temp_c", "solar_power_w", "load_power_w"}
    BY Zenon
  <2>2. names \in Seq(N) /\ Len(names) = 6
    <3>1. "batt_voltage" \in N /\ "batt_current" \in N /\ "batt_soc_pct" \in N /\ "batt_temp_c" \in N /\
          "solar_power_w" \in N /\ "load_power_w" \in N
      BY <2>1
    <3> QED
      BY <2>1, <3>1, SixInARow
  <2>3. \A x \in N : EnumOf(x) = "None"
    BY <2>1 DEF EnumOf
  <2>4. Paired(Typed("float32", names), Fields("float32", names), N, 6)
    BY <1>0, <2>2, <2>3, PairedRun
  <2> QED
    BY <2>1, <2>4, Zenon
<1>3. PICK r3, l3 :
        /\ r3 = Typed("uint16", <<"rails_enabled">>)
        /\ l3 = Fields("uint16", <<"rails_enabled">>)
        /\ Paired(r3, l3, {"rails_enabled"}, 1)
  <2>1. PICK names, N : names = <<"rails_enabled">> /\ N = {"rails_enabled"}
    BY Zenon
  <2>2. names \in Seq(N) /\ Len(names) = 1
    BY <2>1, ShortSequences
  <2>3. \A x \in N : EnumOf(x) = "None"
    BY <2>1 DEF EnumOf
  <2>4. Paired(Typed("uint16", names), Fields("uint16", names), N, 1)
    BY <1>0, <2>2, <2>3, PairedRun
  <2> QED
    BY <2>1, <2>4, Zenon
<1>4. PICK r4, l4 :
        /\ r4 = Typed("uint8", <<"shed_level">>)
        /\ l4 = Fields("uint8", <<"shed_level">>)
        /\ Paired(r4, l4, {"shed_level"}, 1)
  <2>1. PICK names, N : names = <<"shed_level">> /\ N = {"shed_level"}
    BY Zenon
  <2>2. names \in Seq(N) /\ Len(names) = 1
    BY <2>1, ShortSequences
  <2>3. \A x \in N : EnumOf(x) = "None"
    BY <2>1 DEF EnumOf
  <2>4. Paired(Typed("uint8", names), Fields("uint8", names), N, 1)
    BY <1>0, <2>2, <2>3, PairedRun
  <2> QED
    BY <2>1, <2>4, Zenon
<1>5. PICK s2, m2, N2 : /\ s2 = r1 \o r2 /\ m2 = l1 \o l2 /\ N2 = {"power_state"} \cup {"batt_voltage",
                             "batt_current", "batt_soc_pct", "batt_temp_c", "solar_power_w", "load_power_w"}
                         /\ Paired(s2, m2, N2, 7)
  <2>1. Paired(r1 \o r2, l1 \o l2, {"power_state"} \cup {"batt_voltage", "batt_current", "batt_soc_pct",
        "batt_temp_c", "solar_power_w", "load_power_w"}, 1 + 6)
    <3>1. 1 \in Nat /\ 6 \in Nat
      OBVIOUS
    <3> QED
      BY <1>1, <1>2, <3>1, PairedJoin
  <2>2. 1 + 6 = 7
    OBVIOUS
  <2> QED
    BY <2>1, <2>2, Zenon
<1>6. PICK s3, m3, N3 : /\ s3 = s2 \o r3 /\ m3 = m2 \o l3 /\ N3 = N2 \cup {"rails_enabled"}
                         /\ Paired(s3, m3, N3, 8)
  <2>1. Paired(s2 \o r3, m2 \o l3, N2 \cup {"rails_enabled"}, 7 + 1)
    <3>1. 7 \in Nat /\ 1 \in Nat
      OBVIOUS
    <3> QED
      BY <1>5, <1>3, <3>1, PairedJoin
  <2>2. 7 + 1 = 8
    OBVIOUS
  <2> QED
    BY <2>1, <2>2, Zenon
<1>7. PICK s4, m4, N4 : /\ s4 = s3 \o r4 /\ m4 = m3 \o l4 /\ N4 = N3 \cup {"shed_level"}
                         /\ Paired(s4, m4, N4, 9)
  <2>1. Paired(s3 \o r4, m3 \o l4, N3 \cup {"shed_level"}, 8 + 1)
    <3>1. 8 \in Nat /\ 1 \in Nat
      OBVIOUS
    <3> QED
      BY <1>6, <1>4, <3>1, PairedJoin
  <2>2. 8 + 1 = 9
    OBVIOUS
  <2> QED
    BY <2>1, <2>2, Zenon
<1>8. TELEMETRY["EPS_HK"].fields = s4
  BY <1>1, <1>2, <1>3, <1>4, <1>5, <1>6, <1>7, Zenon DEF TELEMETRY
<1>9. HkLayout("EPS_HK") = m4
  <2>1. HkLayout("EPS_HK") = EpsHk
    BY DEF HkLayout
  <2> QED
    BY <1>1, <1>2, <1>3, <1>4, <1>5, <1>6, <1>7, <2>1, Zenon DEF EpsHk
<1>10. "sid" \notin N4
  BY <1>5, <1>6, <1>7
<1>11. 9 \in 0 .. 22
  OBVIOUS
<1> QED
  BY <1>7, <1>8, <1>9, <1>10, <1>11, Zenon DEF InStep

\* The two dictionaries are in step for every structure.
LEMMA AllInStep == ASSUME NEW sid \in DOMAIN HkSid PROVE InStep(sid)
<1>1. sid = "SYS_HK" \/ sid = "ADCS_HK" \/ sid = "EPS_HK"
  BY DEF HkSid
<1> QED
  BY <1>1, SysInStep, AdcsInStep, EpsInStep, Zenon

-----------------------------------------------------------------------------
\* The reports of the flight software.

\* The word that two octets make.
WordAt(data, i) == OctetWord(data[i], data[i + 1])

\* Octets whose length field says how many they are.
Framed(p) ==
  /\ p \in Seq(Octet) /\ 13 <= Len(p) /\ Len(p) <= kMaxPacket
  /\ WordAt(p, 5) \in Word /\ Len(p) = TotalSize(WordAt(p, 5))

\* A packet of telemetry, as its first word says.
IsTelemetry(p) == (WordAt(p, 1) \div 4096) % 2 = Telemetry

WholePacket(p) == Framed(p) /\ IsTelemetry(p) /\ 21 <= Len(p) /\ Crc(p) = 0

\* A packet with that header and those fields behind it.
Carries(p, apid, service, subtype, stamp, layout, values, n) ==
  /\ apid \in Nat /\ apid = ApidMask(apid)
  /\ \E at : /\ Places(at, layout, 19) /\ at[n] \in Nat /\ 19 <= at[n] /\ at[n] + 2 <= kMaxPacket
             /\ IsTm(p, apid, service, subtype, stamp, layout, values, at, n)

\* The first word of a telemetry packet.
LEMMA TmWord ==
  ASSUME NEW apid \in Nat, apid = ApidMask(apid)
  PROVE  2048 + apid \in Word /\ ((2048 + apid) \div 4096) % 2 = Telemetry
  BY DEF ApidMask, Word, Telemetry

\* The length field of a telemetry packet.
LEMMA TmLength ==
  ASSUME NEW m \in Nat, 19 <= m, m + 2 <= kMaxPacket
  PROVE  m - 5 \in Word /\ TotalSize(m - 5) = m + 2
  BY DEF kMaxPacket, Word, TotalSize, DataFieldBytes, kHeaderBytes

\* A packet that carries something is whole.
LEMMA CarriedIsWhole ==
  ASSUME NEW p, NEW apid, NEW service, NEW subtype, NEW stamp, NEW layout, NEW values, NEW n,
         Carries(p, apid, service, subtype, stamp, layout, values, n)
  PROVE  WholePacket(p)
<1>1. PICK at : /\ at[n] \in Nat /\ 19 <= at[n] /\ at[n] + 2 <= kMaxPacket
                /\ IsTm(p, apid, service, subtype, stamp, layout, values, at, n)
  BY DEF Carries
<1>2. PICK m \in Nat : m = at[n] /\ 19 <= m /\ m + 2 <= kMaxPacket
  BY <1>1
<1>3. /\ p \in Seq(Octet) /\ Len(p) = m + 2 /\ Crc(p) = 0
      /\ TmHeader(p, apid, service, subtype, stamp) /\ p[5] = Hi(m - 5) /\ p[6] = Lo(m - 5)
  BY <1>1, <1>2, Zenon DEF IsTm
<1>4. 21 <= Len(p) /\ 13 <= Len(p) /\ Len(p) <= kMaxPacket
  BY <1>2, <1>3
<1>5. PICK w \in Word : w = 2048 + apid /\ (w \div 4096) % 2 = Telemetry
  BY TmWord DEF Carries
<1>6. PICK z \in Word : z = m - 5 /\ TotalSize(z) = m + 2
  BY <1>2, TmLength
<1>7. 5 + 1 = 6 /\ 1 + 1 = 2
  OBVIOUS
<1>8. WordAt(p, 5) = z
  <2>1. p[5] = Hi(z) /\ p[5 + 1] = Lo(z)
    BY <1>3, <1>6, <1>7, Zenon
  <2> QED
    BY <2>1, PartsOfWord DEF WordAt, OctetWord
<1>9. WordAt(p, 1) = w
  <2>1. p[1] = Hi(w) /\ p[1 + 1] = Lo(w)
    BY <1>3, <1>5, <1>7 DEF TmHeader
  <2> QED
    BY <2>1, PartsOfWord DEF WordAt, OctetWord
<1>10. Framed(p)
  BY <1>3, <1>4, <1>6, <1>8, Zenon DEF Framed
<1>11. IsTelemetry(p)
  BY <1>5, <1>9 DEF IsTelemetry
<1> QED
  BY <1>3, <1>4, <1>10, <1>11, Zenon DEF WholePacket

\* Packet() makes one that carries what it is given.
LEMMA PacketCarries ==
  ASSUME NEW stamp, IsStamp(stamp), NEW apid \in Nat, apid = ApidMask(apid), NEW service \in Octet,
        NEW subtype \in Octet,
         NEW N, NEW layout \in Layouts(N), NEW values, Fits(layout, values), NEW n \in Nat, n = Len(layout),
               n <= 100
  PROVE  Carries(Packet(apid, service, subtype, stamp, layout, values),
                 apid, service, subtype, stamp, layout, values, n)
<1>1. n \in Nat /\ n = Len(layout)
  OBVIOUS
<1>2. PICK at : Places(at, layout, 19)
  <2>1. 19 \in Nat
    OBVIOUS
  <2> QED
    BY <2>1, PlacesExist
<1>3. at[n] \in Nat /\ 19 <= at[n] /\ at[n] <= 19 + 8 * n
  <2>1. 19 \in Nat /\ 0 \in 0 .. n /\ n \in 0 .. n
    BY <1>1
  <2>2. \A j \in 0 .. n : at[0] <= at[j] /\ at[j] <= at[0] + 8 * (j - 0)
    BY <1>1, <1>2, <2>1, PlacesGrow
  <2>3. at[0] <= at[n] /\ at[n] <= at[0] + 8 * (n - 0)
    BY <2>1, <2>2, Zenon
  <2>4. at[0] = 19 /\ at[n] \in Nat
    BY <1>1, <1>2, <2>1 DEF Places
  <2> QED
    BY <2>3, <2>4
<1>4. at[n] + 2 <= kMaxPacket
  BY <1>1, <1>3 DEF kMaxPacket
<1>5. IsTm(Packet(apid, service, subtype, stamp, layout, values),
           apid, service, subtype, stamp, layout, values, at, n)
  BY <1>1, <1>2, <1>4, WhatPacketMakes
<1> QED
  BY <1>2, <1>3, <1>4, <1>5, Zenon DEF Carries

\* The numbers of the dictionary are small.
LEMMA SmallNumbers ==
  /\ \A n \in 0 .. 200 : n \in Octet /\ n \in Nat /\ n = ApidMask(n) /\ n \in Word
  /\ Apid.TTC \in 0 .. 200 /\ Apid.ADCS \in 0 .. 200 /\ Apid.EPS \in 0 .. 200
  /\ Service.Verification \in 0 .. 200 /\ Service.Housekeeping \in 0 .. 200 /\ Service.Event \in 0 .. 200
  /\ Service.Test \in 0 .. 200 /\ Service.Parameter \in 0 .. 200
  /\ 2 \in 0 .. 200 /\ 25 \in 0 .. 200
  /\ \A event : EventSeverity(event) \in 0 .. 200
  /\ \A f \in DOMAIN FailureCode : FailureCode[f] \in 0 .. 200
  /\ \A p \in DOMAIN ParamId : ParamId[p] \in 0 .. 200
  /\ \A e \in DOMAIN EventId : EventId[e] \in 0 .. 200
  /\ \A s \in DOMAIN HkSid : HkSid[s] \in 0 .. 200 /\ ApidOfHk[s] \in 0 .. 200
<1>1. \A n \in 0 .. 200 : n \in Octet /\ n \in Nat /\ n = ApidMask(n) /\ n \in Word
  BY DEF Octet, ApidMask, Word
<1>2. /\ Apid.TTC \in 0 .. 200 /\ Apid.ADCS \in 0 .. 200 /\ Apid.EPS \in 0 .. 200
      /\ Service.Verification \in 0 .. 200 /\ Service.Housekeeping \in 0 .. 200 /\ Service.Event \in 0 .. 200
      /\ Service.Test \in 0 .. 200 /\ Service.Parameter \in 0 .. 200
  BY DEF Apid, Service
<1>3. \A event : EventSeverity(event) \in 0 .. 200
  BY DEF EventSeverity, Severity
<1>4. \A f \in DOMAIN FailureCode : FailureCode[f] \in 0 .. 200
  BY DEF FailureCode
<1>5. \A p \in DOMAIN ParamId : ParamId[p] \in 0 .. 200
  BY DEF ParamId
<1>6. \A e \in DOMAIN EventId : EventId[e] \in 0 .. 200
  BY DEF EventId
<1>7. \A s \in DOMAIN HkSid : HkSid[s] \in 0 .. 200 /\ ApidOfHk[s] \in 0 .. 200
  BY DEF HkSid, ApidOfHk, Apid
<1> QED
  BY <1>1, <1>2, <1>3, <1>4, <1>5, <1>6, <1>7

\* A layout of two fields.
LEMMA TwoFields ==
  ASSUME NEW x, NEW y, NEW s \in Types, NEW t \in Types
  PROVE  /\ <<<<x, s>>, <<y, t>>>> \in Layouts({x, y}) /\ Len(<<<<x, s>>, <<y, t>>>>) = 2
         /\ <<<<x, s>>, <<y, t>>>>[1] = <<x, s>> /\ <<<<x, s>>, <<y, t>>>>[2] = <<y, t>>
<1>1. <<x, s>> \in {x, y} \X Types /\ <<y, t>> \in {x, y} \X Types
  OBVIOUS
<1> QED
  BY <1>1, ShortSequences DEF Layouts

\* The structure's number goes before its fields.
Preceded(all, v, sid, N, layout, values, n) ==
  /\ all \in Layouts(N \cup {"sid"}) /\ Len(all) = n + 1 /\ Fits(all, v)
  /\ all[1] = <<"sid", "uint8">> /\ \A k \in 1 .. n : all[k + 1] = layout[k]
  /\ v["sid"] = sid /\ \A x \in N : v[x] = values[x]

\* A layout with the structure's number before it.
LEMMA SidBefore ==
  ASSUME NEW N, "sid" \notin N, NEW layout \in Layouts(N), NEW n \in Nat, n = Len(layout),
         NEW values, \A x \in N : x \in DOMAIN values, Fits(layout, values), NEW sid \in Octet
  PROVE  Preceded(<<<<"sid", "uint8">>>> \o layout, With(values, "sid", sid), sid, N, layout, values, n)
<1>1. PICK first : first = <<<<"sid", "uint8">>>>
  BY Zenon
<1>2. first \in Seq((N \cup {"sid"}) \X Types) /\ Len(first) = 1 /\ first[1] = <<"sid", "uint8">>
  <2>1. <<"sid", "uint8">> \in (N \cup {"sid"}) \X Types
    BY SomeTypes
  <2> QED
    BY <1>1, <2>1, ShortSequences
<1>3. layout \in Seq((N \cup {"sid"}) \X Types)
  <2>1. \A k \in 1 .. n : layout[k] \in N \X Types
    BY DEF Layouts
  <2>2. layout \in [1 .. n -> N \X Types]
    BY DEF Layouts
  <2>3. layout \in [1 .. n -> (N \cup {"sid"}) \X Types]
    BY <2>1, <2>2
  <2> QED
    BY <2>3
<1>4. PICK all : all = first \o layout
  BY Zenon
<1>5. /\ all \in Seq((N \cup {"sid"}) \X Types) /\ Len(all) = Len(first) + Len(layout)
      /\ \A i \in 1 .. Len(first) : all[i] = first[i]
      /\ \A i \in 1 .. Len(layout) : all[Len(first) + i] = layout[i]
  <2>1. /\ first \o layout \in Seq((N \cup {"sid"}) \X Types) /\ Len(first \o layout) = Len(first) +
             Len(layout)
        /\ \A i \in 1 .. Len(first) : (first \o layout)[i] = first[i]
        /\ \A i \in 1 .. Len(layout) : (first \o layout)[Len(first) + i] = layout[i]
    <3>1. first \in Seq((N \cup {"sid"}) \X Types)
      BY <1>2, Zenon
    <3> QED
      BY <1>3, <3>1, Concatenated
  <2> QED
    BY <1>4, <2>1, Zenon
<1>6. /\ Len(all) = n + 1 /\ all[1] = <<"sid", "uint8">>
      /\ \A k \in 1 .. n : all[k + 1] = layout[k]
  BY <1>2, <1>5
<1>7. PICK v : v = With(values, "sid", sid)
  BY Zenon
<1>8. /\ v["sid"] = sid /\ \A x \in N : v[x] = values[x]
  BY <1>7 DEF With
<1>9. Fits(all, v)
  <2>1. ASSUME NEW k \in 1 .. n + 1 PROVE v[all[k][1]] \in Values(all[k][2])
    <3>1. CASE k = 1
      <4>1. all[k][1] = "sid" /\ all[k][2] = "uint8"
        BY <1>6, <3>1
      <4>2. Values("uint8") = Octet
        BY SomeTypes DEF Values
      <4> QED
        BY <1>8, <4>1, <4>2
    <3>2. CASE k # 1
      <4>1. PICK j \in 1 .. n : k = j + 1
        <5>1. k - 1 \in 1 .. n /\ k = (k - 1) + 1
          BY <3>2
        <5> QED
          BY <5>1
      <4>2. all[k] = layout[j] /\ layout[j][1] \in N /\ values[layout[j][1]] \in Values(layout[j][2])
        BY <1>6, <4>1, OfALayout DEF Fits
      <4> QED
        BY <1>8, <4>2
    <3> QED
      BY <3>1, <3>2
  <2> QED
    BY <1>6, <2>1 DEF Fits
<1> QED
  BY <1>1, <1>4, <1>5, <1>6, <1>7, <1>8, <1>9, Zenon DEF Layouts, Preceded

\* Every report that the flight software builds is a whole packet.
LEMMA TestCarries ==
  ASSUME NEW stamp, IsStamp(stamp)
  PROVE  Carries(TestReport(stamp), Apid.TTC, Service.Test, 2, stamp, <<>>, <<>>, 0)
<1>1. <<>> \in Seq({} \X Types) /\ Len(<<>>) = 0
  OBVIOUS
<1>2. <<>> \in Layouts({}) /\ Fits(<<>>, <<>>)
  BY <1>1 DEF Layouts, Fits
<1>3. Apid.TTC = ApidMask(Apid.TTC) /\ Apid.TTC \in Nat /\ Service.Test \in Octet /\ 2 \in Octet
  BY SmallNumbers, Zenon
<1>4. PICK n \in Nat : n = 0 /\ n = Len(<<>>) /\ n <= 100
  BY <1>1
<1>5. Carries(Packet(Apid.TTC, Service.Test, 2, stamp, <<>>, <<>>), Apid.TTC, Service.Test, 2, stamp, <<>>,
      <<>>, n)
  BY <1>2, <1>3, <1>4, PacketCarries
<1> QED
  BY <1>4, <1>5, Zenon DEF TestReport

ParamCarried(layout, values, param, value, stamp) ==
  /\ layout \in Layouts({"param_id", "value"}) /\ Len(layout) = 2 /\ Fits(layout, values)
  /\ layout[1] = <<"param_id", "uint16">> /\ layout[2] = <<"value", "float64">>
  /\ values["param_id"] = ParamId[param] /\ values["value"] = value
  /\ Carries(ParamReport(param, value, stamp), Apid.TTC, Service.Parameter, 2, stamp, layout, values, 2)

\* A parameter report carries the number of the parameter and its value.
LEMMA ParamCarries ==
  ASSUME NEW stamp, IsStamp(stamp), NEW param \in DOMAIN ParamId, NEW value \in Values("float64")
  PROVE  \E layout, values : ParamCarried(layout, values, param, value, stamp)
<1>1. PICK layout : layout = <<<<"param_id", "uint16">>, <<"value", "float64">>>>
  BY Zenon
<1>2. /\ layout \in Layouts({"param_id", "value"}) /\ Len(layout) = 2
      /\ layout[1] = <<"param_id", "uint16">> /\ layout[2] = <<"value", "float64">>
  BY <1>1, TwoFields, SomeTypes
<1>3. PICK values : values = [param_id |-> ParamId[param], value |-> value]
  BY Zenon
<1>4. values["param_id"] = ParamId[param] /\ values["value"] = value
  BY <1>3
<1>5. ParamId[param] \in Values("uint16")
  <2>1. ParamId[param] \in Word
    BY SmallNumbers, Zenon
  <2> QED
    BY <2>1, SomeTypes DEF Values
<1>6. Fits(layout, values)
  <2>1. \A k \in 1 .. 2 : k = 1 \/ k = 2
    OBVIOUS
  <2> QED
    BY <1>2, <1>4, <1>5, <2>1 DEF Fits
<1>7. Apid.TTC = ApidMask(Apid.TTC) /\ Apid.TTC \in Nat /\ Service.Parameter \in Octet /\ 2 \in Octet
  BY SmallNumbers, Zenon
<1>8. PICK n \in Nat : n = 2 /\ n = Len(layout) /\ n <= 100
  BY <1>2
<1>9. Carries(Packet(Apid.TTC, Service.Parameter, 2, stamp, layout, values),
              Apid.TTC, Service.Parameter, 2, stamp, layout, values, n)
  BY <1>2, <1>6, <1>7, <1>8, PacketCarries
<1>10. ParamReport(param, value, stamp) = Packet(Apid.TTC, Service.Parameter, 2, stamp, layout, values)
  BY <1>1, <1>3, Zenon DEF ParamReport
<1>11. ParamCarried(layout, values, param, value, stamp)
  BY <1>2, <1>4, <1>6, <1>8, <1>9, <1>10, Zenon DEF ParamCarried
<1> QED
  BY <1>11, Zenon

EventCarried(layout, values, event, aux, stamp) ==
  /\ layout \in Layouts({"event_id", "aux"}) /\ Len(layout) = 2 /\ Fits(layout, values)
  /\ layout[1] = <<"event_id", "uint16">> /\ layout[2] = <<"aux", "uint32">>
  /\ values["event_id"] = EventId[event] /\ values["aux"] = aux
  /\ Carries(EventReport(event, aux, stamp), Apid.TTC, Service.Event, EventSeverity(event), stamp, layout,
       values, 2)

\* An event report carries the number of the event and what comes with it.
LEMMA EventCarries ==
  ASSUME NEW stamp, IsStamp(stamp), NEW event \in DOMAIN EventId, NEW aux \in Values("uint32")
  PROVE  \E layout, values : EventCarried(layout, values, event, aux, stamp)
<1>1. PICK layout : layout = <<<<"event_id", "uint16">>, <<"aux", "uint32">>>>
  BY Zenon
<1>2. /\ layout \in Layouts({"event_id", "aux"}) /\ Len(layout) = 2
      /\ layout[1] = <<"event_id", "uint16">> /\ layout[2] = <<"aux", "uint32">>
  BY <1>1, TwoFields, SomeTypes
<1>3. PICK values : values = [event_id |-> EventId[event], aux |-> aux]
  BY Zenon
<1>4. values["event_id"] = EventId[event] /\ values["aux"] = aux
  BY <1>3
<1>5. EventId[event] \in Values("uint16")
  <2>1. EventId[event] \in Word
    BY SmallNumbers, Zenon
  <2> QED
    BY <2>1, SomeTypes DEF Values
<1>6. Fits(layout, values)
  <2>1. \A k \in 1 .. 2 : k = 1 \/ k = 2
    OBVIOUS
  <2> QED
    BY <1>2, <1>4, <1>5, <2>1 DEF Fits
<1>7. Apid.TTC = ApidMask(Apid.TTC) /\ Apid.TTC \in Nat /\ Service.Event \in Octet
      /\ EventSeverity(event) \in Octet
  BY SmallNumbers, Zenon
<1>8. PICK n \in Nat : n = 2 /\ n = Len(layout) /\ n <= 100
  BY <1>2
<1>9. Carries(Packet(Apid.TTC, Service.Event, EventSeverity(event), stamp, layout, values),
              Apid.TTC, Service.Event, EventSeverity(event), stamp, layout, values, n)
  BY <1>2, <1>6, <1>7, <1>8, PacketCarries
<1>10. EventReport(event, aux, stamp) = Packet(Apid.TTC, Service.Event, EventSeverity(event), stamp, layout,
      values)
  BY <1>1, <1>3, Zenon DEF EventReport
<1>11. EventCarried(layout, values, event, aux, stamp)
  BY <1>2, <1>4, <1>6, <1>8, <1>9, <1>10, Zenon DEF EventCarried
<1> QED
  BY <1>11, Zenon

\* A layout over the names in it.
LEMMA OfItsNames ==
  ASSUME NEW N, NEW layout \in Layouts(N)
  PROVE  layout \in Layouts(Named(layout)) /\ Named(layout) \subseteq N /\ Len(layout) \in Nat
         /\ DOMAIN layout = 1 .. Len(layout)
<1>1. PICK n \in Nat : n = Len(layout) /\ layout \in [1 .. n -> N \X Types]
  BY DEF Layouts
<1>2. Named(layout) \subseteq N
  BY <1>1 DEF Named
<1>3. layout \in [1 .. n -> Named(layout) \X Types]
  BY <1>1 DEF Named
<1>4. layout \in Seq(Named(layout) \X Types)
  BY <1>3
<1> QED
  BY <1>1, <1>2, <1>4 DEF Layouts

\* The layout of a structure.
LEMMA TheHkLayout ==
  ASSUME NEW sid \in DOMAIN HkSid
  PROVE  /\ HkLayout(sid) \in Layouts(Named(HkLayout(sid))) /\ Len(HkLayout(sid)) \in 0 .. 22
         /\ "sid" \notin Named(HkLayout(sid)) /\ DOMAIN HkLayout(sid) = 1 .. Len(HkLayout(sid))
<1>1. PICK N : \E n \in 0 .. 22 : "sid" \notin N /\ Paired(TELEMETRY[sid].fields, HkLayout(sid), N, n)
  BY AllInStep DEF InStep
<1>2. HkLayout(sid) \in Layouts(N) /\ Len(HkLayout(sid)) \in 0 .. 22 /\ "sid" \notin N
  BY <1>1, Zenon DEF Paired
<1>3. /\ HkLayout(sid) \in Layouts(Named(HkLayout(sid))) /\ Named(HkLayout(sid)) \subseteq N
      /\ DOMAIN HkLayout(sid) = 1 .. Len(HkLayout(sid))
  BY <1>2, OfItsNames
<1> QED
  BY <1>2, <1>3, Zenon

HkCarried(all, v, n, sid, values, stamp) ==
  /\ n = Len(HkLayout(sid)) /\ n <= 22 /\ all \in Layouts(Named(HkLayout(sid)) \cup {"sid"}) /\
       Len(all) = n + 1
  /\ all[1] = <<"sid", "uint8">> /\ \A k \in 1 .. n : all[k + 1] = HkLayout(sid)[k]
  /\ v["sid"] = HkSid[sid] /\ \A x \in Named(HkLayout(sid)) : v[x] = values[x]
  /\ Fits(all, v)
  /\ Carries(HkReport(sid, values, stamp), ApidOfHk[sid], Service.Housekeeping, 25, stamp, all, v, n + 1)

\* A housekeeping report carries its structure's number and every field.
LEMMA HkCarries ==
  ASSUME NEW stamp, IsStamp(stamp), NEW sid \in DOMAIN HkSid, NEW values,
         DOMAIN values = {HkLayout(sid)[k][1] : k \in DOMAIN HkLayout(sid)},
         \A k \in DOMAIN HkLayout(sid) : values[HkLayout(sid)[k][1]] \in Values(HkLayout(sid)[k][2])
  PROVE  \E all, v : \E n \in Nat : HkCarried(all, v, n, sid, values, stamp)
<1>1. PICK layout : layout = HkLayout(sid)
  BY Zenon
<1>2. /\ layout \in Layouts(Named(layout)) /\ Len(layout) \in 0 .. 22
      /\ "sid" \notin Named(layout) /\ DOMAIN layout = 1 .. Len(layout)
  BY <1>1, TheHkLayout
<1>3. PICK n \in Nat : n = Len(layout) /\ n <= 22
  <2>1. Len(layout) \in 0 .. 22
    BY <1>2, Zenon
  <2>2. \A m \in 0 .. 22 : m \in Nat /\ m <= 22
    OBVIOUS
  <2> QED
    BY <2>1, <2>2, Zenon
<1>4. Fits(layout, values) /\ \A x \in Named(layout) : x \in DOMAIN values
  BY <1>1, <1>2 DEF Fits, Named
<1>5. HkSid[sid] \in Octet /\ ApidOfHk[sid] = ApidMask(ApidOfHk[sid]) /\ ApidOfHk[sid] \in Nat
      /\ Service.Housekeeping \in Octet /\ 25 \in Octet
  BY SmallNumbers, ZenonT(30)
<1>6. PICK all, v : all = <<<<"sid", "uint8">>>> \o layout /\ v = With(values, "sid", HkSid[sid])
  BY Zenon
<1>7. /\ all \in Layouts(Named(layout) \cup {"sid"}) /\ Len(all) = n + 1 /\ Fits(all, v)
      /\ all[1] = <<"sid", "uint8">> /\ \A k \in 1 .. n : all[k + 1] = layout[k]
      /\ v["sid"] = HkSid[sid] /\ \A x \in Named(layout) : v[x] = values[x]
  <2>1. Preceded(<<<<"sid", "uint8">>>> \o layout, With(values, "sid", HkSid[sid]), HkSid[sid],
                 Named(layout), layout, values, n)
    BY <1>2, <1>3, <1>4, <1>5, SidBefore
  <2> QED
    BY <1>6, <2>1, Zenon DEF Preceded
<1>8. PICK m \in Nat : m = n + 1 /\ m = Len(all) /\ m <= 100
  BY <1>3, <1>7
<1>9. Carries(Packet(ApidOfHk[sid], Service.Housekeeping, 25, stamp, all, v),
              ApidOfHk[sid], Service.Housekeeping, 25, stamp, all, v, m)
  BY <1>5, <1>7, <1>8, PacketCarries
<1>10. HkReport(sid, values, stamp) = Packet(ApidOfHk[sid], Service.Housekeeping, 25, stamp, all, v)
  BY <1>1, <1>6, Zenon DEF HkReport
<1>11. HkCarried(all, v, n, sid, values, stamp)
  BY <1>1, <1>3, <1>7, <1>8, <1>9, <1>10, Zenon DEF HkCarried
<1> QED
  BY <1>11, Zenon

\* A report of failure has one field more.
VerifLayout(subtype) ==
  Fields("uint16", <<"req_apid", "req_seqcnt">> \o (IF subtype \in {2, 8} THEN <<"failure">> ELSE <<>>))
VerifNames == {"req_apid", "req_seqcnt", "failure"}

\* One more of a sequence.
LEMMA OneMore ==
  ASSUME NEW S, NEW a \in S, NEW b \in S, NEW c \in S
  PROVE  /\ <<a, b>> \o <<c>> \in Seq(S) /\ Len(<<a, b>> \o <<c>>) = 3
         /\ (<<a, b>> \o <<c>>)[1] = a /\ (<<a, b>> \o <<c>>)[2] = b /\ (<<a, b>> \o <<c>>)[3] = c
         /\ <<a, b>> \o <<>> \in Seq(S) /\ Len(<<a, b>> \o <<>>) = 2
         /\ (<<a, b>> \o <<>>)[1] = a /\ (<<a, b>> \o <<>>)[2] = b
<1>1. /\ <<a, b>> \in Seq(S) /\ <<c>> \in Seq(S) /\ <<>> \in Seq(S)
      /\ Len(<<a, b>>) = 2 /\ Len(<<c>>) = 1 /\ Len(<<>>) = 0
      /\ <<a, b>>[1] = a /\ <<a, b>>[2] = b /\ <<c>>[1] = c
  OBVIOUS
<1>2. PICK s \in Seq(S), t \in Seq(S), e \in Seq(S) : s = <<a, b>> /\ t = <<c>> /\ e = <<>>
  BY <1>1, Zenon
<1>3. /\ Len(s) = 2 /\ Len(t) = 1 /\ Len(e) = 0 /\ s[1] = a /\ s[2] = b /\ t[1] = c
  BY <1>1, <1>2, Zenon
<1>4. /\ s \o t \in Seq(S) /\ Len(s \o t) = Len(s) + Len(t)
      /\ \A i \in 1 .. Len(s) : (s \o t)[i] = s[i]
      /\ \A i \in 1 .. Len(t) : (s \o t)[Len(s) + i] = t[i]
      /\ s \o e \in Seq(S) /\ Len(s \o e) = Len(s) + Len(e)
      /\ \A i \in 1 .. Len(s) : (s \o e)[i] = s[i]
  BY Concatenated
<1>5. /\ s \o t \in Seq(S) /\ Len(s \o t) = 3 /\ (s \o t)[1] = a /\ (s \o t)[2] = b /\ (s \o t)[3] = c
      /\ s \o e \in Seq(S) /\ Len(s \o e) = 2 /\ (s \o e)[1] = a /\ (s \o e)[2] = b
  BY <1>3, <1>4
<1> QED
  BY <1>2, <1>5, Zenon

\* The layout of a verification report has the failure only when there is one.
LEMMA TheVerifLayout ==
  ASSUME NEW subtype
  PROVE  /\ VerifLayout(subtype) \in Layouts(VerifNames) /\ Len(VerifLayout(subtype)) \in 2 .. 3
         /\ Len(VerifLayout(subtype)) = 3 <=> subtype \in {2, 8}
         /\ VerifLayout(subtype)[1] = <<"req_apid", "uint16">>
         /\ VerifLayout(subtype)[2] = <<"req_seqcnt", "uint16">>
         /\ Len(VerifLayout(subtype)) = 3 => VerifLayout(subtype)[3] = <<"failure", "uint16">>
<1>1. "req_apid" \in VerifNames /\ "req_seqcnt" \in VerifNames /\ "failure" \in VerifNames
  BY DEF VerifNames
<1>2. PICK names : names = <<"req_apid", "req_seqcnt">> \o (IF subtype \in {2,
      8} THEN <<"failure">> ELSE <<>>)
  BY Zenon
<1>3. /\ names \in Seq(VerifNames) /\ Len(names) \in 2 .. 3 /\ (Len(names) = 3 <=> subtype \in {2, 8})
      /\ names[1] = "req_apid" /\ names[2] = "req_seqcnt"
      /\ Len(names) = 3 => names[3] = "failure"
  <2>1. CASE subtype \in {2, 8}
    <3>1. names = <<"req_apid", "req_seqcnt">> \o <<"failure">>
      BY <1>2, <2>1, Zenon
    <3>2. names \in Seq(VerifNames) /\ Len(names) = 3 /\ names[1] = "req_apid" /\ names[2] = "req_seqcnt"
          /\ names[3] = "failure"
      BY <1>1, <3>1, OneMore
    <3> QED
      BY <2>1, <3>2
  <2>2. CASE subtype \notin {2, 8}
    <3>1. names = <<"req_apid", "req_seqcnt">> \o <<>>
      BY <1>2, <2>2, Zenon
    <3>2. names \in Seq(VerifNames) /\ Len(names) = 2 /\ names[1] = "req_apid" /\ names[2] = "req_seqcnt"
      BY <1>1, <3>1, OneMore
    <3> QED
      BY <2>2, <3>2
  <2> QED
    BY <2>1, <2>2
<1>4. PICK layout : layout = Fields("uint16", names)
  BY Zenon
<1>5. /\ layout \in Layouts(VerifNames) /\ Len(layout) = Len(names)
      /\ \A k \in 1 .. Len(names) : layout[k] = <<names[k], "uint16">>
  BY <1>3, <1>4, OfFields, SomeTypes
<1>6. VerifLayout(subtype) = layout
  BY <1>2, <1>4, Zenon DEF VerifLayout
<1>7. /\ layout[1] = <<"req_apid", "uint16">> /\ layout[2] = <<"req_seqcnt", "uint16">>
      /\ Len(layout) = 3 => layout[3] = <<"failure", "uint16">>
  BY <1>3, <1>5
<1> QED
  BY <1>3, <1>5, <1>6, <1>7

\* Two fields or three.
LEMMA TwoOrThree == \A m \in 2 .. 3 : \A k \in 1 .. m : k = 1 \/ k = 2 \/ (k = 3 /\ m = 3)
  OBVIOUS

VerificationCarried(layout, values, n, request, subtype, failure, stamp) ==
  /\ layout = VerifLayout(subtype) /\ n = Len(layout) /\ Fits(layout, values)
  /\ values["req_apid"] = request.apid /\ values["req_seqcnt"] = request.seq
  /\ values["failure"] = FailureCode[failure]
  /\ Carries(Verification(request, subtype, failure, stamp),
             Apid.TTC, Service.Verification, subtype, stamp, layout, values, n)

\* A verification report carries its request and, if any, the failure.
LEMMA VerificationCarries ==
  ASSUME NEW stamp, IsStamp(stamp), NEW request, request.apid \in Word, request.seq \in Word,
         NEW subtype \in Octet, NEW failure \in DOMAIN FailureCode
  PROVE  \E layout, values : \E n \in Nat :
           VerificationCarried(layout, values, n, request, subtype, failure, stamp)
<1>1. PICK layout : layout = VerifLayout(subtype)
  BY Zenon
<1>2. /\ layout \in Layouts(VerifNames) /\ Len(layout) \in 2 .. 3
      /\ layout[1] = <<"req_apid", "uint16">> /\ layout[2] = <<"req_seqcnt", "uint16">>
      /\ Len(layout) = 3 => layout[3] = <<"failure", "uint16">>
  BY <1>1, TheVerifLayout
<1>3. PICK values : values = [req_apid |-> request.apid, req_seqcnt |-> request.seq,
      failure |-> FailureCode[failure]]
  BY Zenon
<1>4. /\ values["req_apid"] = request.apid /\ values["req_seqcnt"] = request.seq
      /\ values["failure"] = FailureCode[failure] /\ FailureCode[failure] \in Word
  <2>1. FailureCode[failure] \in Word
    BY SmallNumbers, Zenon
  <2> QED
    BY <1>3, <2>1
<1>5. Values("uint16") = Word
  BY SomeTypes DEF Values
<1>6. Fits(layout, values)
  <2>1. \A k \in 1 .. Len(layout) : k = 1 \/ k = 2 \/ (k = 3 /\ Len(layout) = 3)
    <3>1. PICK m \in 2 .. 3 : m = Len(layout)
      BY <1>2, Zenon
    <3>2. \A k \in 1 .. m : k = 1 \/ k = 2 \/ (k = 3 /\ m = 3)
      BY TwoOrThree
    <3> QED
      BY <3>1, <3>2, Zenon
  <2>2. ASSUME NEW k \in 1 .. Len(layout) PROVE values[layout[k][1]] \in Values(layout[k][2])
    BY <1>2, <1>4, <1>5, <2>1
  <2> QED
    BY <2>2 DEF Fits
<1>7. Apid.TTC = ApidMask(Apid.TTC) /\ Apid.TTC \in Nat /\ Service.Verification \in Octet
  BY SmallNumbers, Zenon
<1>8. PICK n \in Nat : n = Len(layout) /\ n <= 100
  <2>1. Len(layout) \in 2 .. 3
    BY <1>2, Zenon
  <2>2. \A m \in 2 .. 3 : m \in Nat /\ m <= 100
    OBVIOUS
  <2> QED
    BY <2>1, <2>2, Zenon
<1>9. Carries(Packet(Apid.TTC, Service.Verification, subtype, stamp, layout, values),
              Apid.TTC, Service.Verification, subtype, stamp, layout, values, n)
  BY <1>2, <1>6, <1>7, <1>8, PacketCarries
<1>10. Verification(request, subtype, failure, stamp)
       = Packet(Apid.TTC, Service.Verification, subtype, stamp, layout, values)
  BY <1>1, <1>3, Zenon DEF Verification, VerifLayout
<1>11. VerificationCarried(layout, values, n, request, subtype, failure, stamp)
  BY <1>1, <1>4, <1>6, <1>8, <1>9, <1>10, Zenon DEF VerificationCarried
<1> QED
  BY <1>11, Zenon

-----------------------------------------------------------------------------
\* Telecommands.

\* Struct's octets are those of the flight software.
LEMMA PacksAlike ==
  ASSUME NEW type \in Types, NEW v \in Values(type)
  PROVE  Pack(STRUCT_CODES[type], v) = OctetsOf(type, v)
<1>1. CASE type = "uint8"
  <2>1. Pack("B", v) = <<v>>
    BY DEF Pack
  <2>2. OctetsOf("uint8", v) = <<v>>
    BY SomeTypes DEF OctetsOf
  <2> QED
    BY <1>1, <2>1, <2>2 DEF STRUCT_CODES
<1>2. CASE type = "uint16"
  <2>1. Pack("H", v) = WordOctets(v)
    BY DEF Pack, Halves, WordOctets
  <2>2. OctetsOf("uint16", v) = WordOctets(v)
    BY SomeTypes DEF OctetsOf
  <2> QED
    BY <1>2, <2>1, <2>2 DEF STRUCT_CODES
<1>3. CASE type \in {"uint32", "float32", "float64"}
  <2>1. PICK n \in Nat : n = Width[type] /\ n \in {4, 8}
    BY <1>3, SomeTypes
  <2>8. PICK code : code = STRUCT_CODES[type] /\ code \notin {"B", "H"}
    BY <1>3 DEF STRUCT_CODES
  <2>2. v \in [1 .. n \div 2 -> Word]
    BY <2>1, ThreeWidths
  <2>3. Len(v) = n \div 2 /\ 2 * Len(v) = n
    BY <2>1, <2>2
  <2>4. \A w : Halves(w) = WordOctets(w)
    BY Zenon DEF Halves, WordOctets
  <2>5. Pack(code, v) = [k \in 1 .. 2 * Len(v) |-> Halves(v[(k + 1) \div 2])[2 - (k % 2)]]
    BY <2>8 DEF Pack
  <2>6. Pack(code, v) = [k \in 1 .. n |-> WordOctets(v[(k + 1) \div 2])[2 - (k % 2)]]
    BY <2>3, <2>4, <2>5, Zenon
  <2>7. OctetsOf(type, v) = [k \in 1 .. n |-> WordOctets(v[(k + 1) \div 2])[2 - (k % 2)]]
    BY <2>1 DEF OctetsOf
  <2> QED
    BY <2>6, <2>7, <2>8
<1> QED
  BY <1>1, <1>2, <1>3 DEF Types, Width

\* Octets put behind each other are found at their places.
AllAt(s, layout, at, n, bytes) ==
  /\ Len(s) = at[n]
  /\ \A k \in 1 .. n : \A i \in 1 .. Width[layout[k][2]] : s[at[k - 1] + i] = bytes[k][i]

\* Pieces appended one after the other lie where the places say.
LEMMA Appended ==
  ASSUME NEW N, NEW layout \in Layouts(N), NEW n \in Nat, n = Len(layout), NEW at, Places(at, layout, 0),
         NEW bytes \in [1 .. n -> Seq(Octet)], \A k \in 1 .. n : Len(bytes[k]) = Width[layout[k][2]],
         NEW g \in [0 .. n -> Seq(Octet)], g[0] = <<>>, \A k \in 1 .. n : g[k] = g[k - 1] \o bytes[k]
  PROVE  AllAt(g[n], layout, at, n, bytes)
<1> DEFINE Done(m) == /\ Len(g[m]) = at[m]
                      /\ \A k \in 1 .. m : \A i \in 1 .. Width[layout[k][2]] : g[m][at[k - 1] +
                           i] = bytes[k][i]
<1>3. \A k \in 1 .. n : Width[layout[k][2]] \in 1 .. 8
  BY OfALayout
<1>5. /\ at \in [0 .. n -> Nat] /\ at[0] = 0
      /\ \A k \in 1 .. n : at[k] = at[k - 1] + Width[layout[k][2]]
  BY DEF Places
<1> DEFINE Bad == {m \in 0 .. n : ~Done(m)}
<1>7. Done(0)
  <2>1. Len(<<>>) = 0
    OBVIOUS
  <2>2. \A k : ~(k \in 1 .. 0)
    OBVIOUS
  <2> QED
    BY <1>5, <2>1, <2>2, Zenon
<1>8. ASSUME NEW m \in 1 .. n, Done(m - 1) PROVE Done(m)
  <2>1. m - 1 \in 0 .. n /\ m \in 0 .. n
    OBVIOUS
  <2>2. PICK v \in Seq(Octet) : v = g[m - 1]
    BY <2>1
  <2>3. PICK more \in Seq(Octet) : more = bytes[m] /\ Len(more) = Width[layout[m][2]]
    BY Zenon
  <2>4. PICK a \in Nat, b \in Nat : a = at[m - 1] /\ b = at[m] /\ b = a + Len(more)
    <3>1. at[m - 1] \in Nat /\ at[m] \in Nat
      BY <1>5, <2>1
    <3>2. at[m] = at[m - 1] + Len(more)
      BY <1>5, <2>3, Zenon
    <3> QED
      BY <3>1, <3>2, Zenon
  <2>5. Len(v) = a
    BY <1>8, <2>2, <2>4
  <2>7. g[m] = v \o more
    BY <2>2, <2>3, Zenon
  <2>8. Len(g[m]) = b
    <3>1. Len(v \o more) = Len(v) + Len(more)
      BY Concatenated
    <3> QED
      BY <2>4, <2>5, <2>7, <3>1
  <2>10. ASSUME NEW k \in 1 .. m, NEW i \in 1 .. Width[layout[k][2]]
         PROVE  g[m][at[k - 1] + i] = bytes[k][i]
    <3>1. CASE k = m
      <4>1. i \in 1 .. Len(more) /\ at[k - 1] = a
        BY <2>3, <2>4, <3>1
      <4>2. (v \o more)[Len(v) + i] = more[i]
        BY <4>1, Concatenated
      <4> QED
        BY <2>3, <2>5, <2>7, <3>1, <4>1, <4>2, Zenon
    <3>2. CASE k # m
      <4>1. k \in 1 .. m - 1 /\ k \in 1 .. n /\ k - 1 \in 0 .. n /\ k \in 0 .. n /\ m - 1 \in k .. n
        BY <3>2
      <4>2. v[at[k - 1] + i] = bytes[k][i]
        BY <1>8, <2>2, <4>1
      <4>3. at[k] = at[k - 1] + Width[layout[k][2]] /\ at[k] \in Nat /\ at[k - 1] \in Nat
        BY <1>5, <4>1
      <4>4. at[k] <= a
        <5>1. 0 \in Nat
          OBVIOUS
        <5>2. \A j \in k .. n : at[k] <= at[j]
          BY <4>1, <5>1, PlacesGrow
        <5> QED
          BY <2>4, <4>1, <5>2, Zenon
      <4>5. PICK p \in Nat : p = at[k - 1] + i /\ p \in 1 .. a
        <5>1. PICK width \in Nat : width = Width[layout[k][2]]
          BY <1>3, <4>1, SMTT(30)
        <5>2. PICK b0 \in Nat, b1 \in Nat : b0 = at[k - 1] /\ b1 = at[k] /\ b1 = b0 + width /\ b1 <= a /\
              b0 + width <= a
          BY <4>3, <4>4, <5>1
        <5>3. i \in 1 .. width
          BY <5>1
        <5>4. b0 + i \in 1 .. a
          BY <5>2, <5>3, PlaceWithin
        <5>5. b0 + i \in Nat
          BY <5>4
        <5>6. b0 + i = at[k - 1] + i
          BY <5>2, Zenon
        <5> QED
          BY <5>4, <5>5, <5>6, Zenon
      <4>6. (v \o more)[p] = v[p]
        BY <2>5, <4>5, Concatenated
      <4> QED
        BY <2>7, <4>2, <4>5, <4>6, Zenon
    <3> QED
      BY <3>1, <3>2
  <2> QED
    BY <2>4, <2>8, <2>10
<1>9. Bad = {}
  <2>1. SUFFICES ASSUME Bad # {} PROVE FALSE
    OBVIOUS
  <2>2. PICK m \in Bad : \A i \in Bad : m <= i
    <3>1. Bad \in SUBSET Nat
      OBVIOUS
    <3> HIDE DEF Bad
    <3> QED
      BY <2>1, <3>1, SmallestMember
  <2> HIDE DEF Done
  <2>3. m \in 0 .. n /\ ~Done(m) /\ m # 0
    BY <1>7
  <2>4. m \in 1 .. n /\ m - 1 \in 0 .. n /\ ~(m <= m - 1)
    BY <2>3
  <2>5. m - 1 \notin Bad
    <3> HIDE DEF Bad
    <3> QED
      BY <2>2, <2>4
  <2>6. Done(m - 1)
    BY <2>4, <2>5
  <2> QED
    BY <1>8, <2>3, <2>4, <2>6
<1>10. n \in 0 .. n
  OBVIOUS
<1> HIDE DEF Done
<1>11. Done(n)
  BY <1>9, <1>10
<1> QED
  BY <1>11 DEF Done, AllAt

\* A specification of arguments, argument by argument of a layout's types.
Specifies(spec, layout, args) ==
  /\ Len(spec) = Len(layout)
  /\ \A k \in 1 .. Len(layout) : /\ spec[k][2] = layout[k][2]
                                 /\ ArgNumber(spec[k], args) \in Values(layout[k][2])

\* The arguments' octets at their places.
IsPayload(p, spec, layout, args, at, n) ==
  /\ p \in Seq(Octet) /\ Len(p) = at[n]
  /\ \A k \in 1 .. n : \A i \in 1 .. Width[layout[k][2]] :
       p[at[k - 1] + i] = OctetsOf(layout[k][2], ArgNumber(spec[k], args))[i]

\* The arguments of a telecommand, packed.
LEMMA WhatIsPacked ==
  ASSUME NEW N, NEW layout \in Layouts(N), NEW n \in Nat, n = Len(layout), NEW at, Places(at, layout, 0),
         NEW spec, NEW args, Specifies(spec, layout, args)
  PROVE  IsPayload(Payload(spec, args), spec, layout, args, at, n)
<1> DEFINE bytes == [k \in 1 .. n |-> OctetsOf(layout[k][2], ArgNumber(spec[k], args))]
           step == [k \in 1 .. n |-> [s \in Seq(Octet) |-> s \o bytes[k]]]
           Is(g) == g = [k \in 0 .. Len(spec) |->
                           IF k = 0 THEN <<>>
                             ELSE g[k - 1] \o Pack(STRUCT_CODES[spec[k][2]], ArgNumber(spec[k], args))]
<1>1. \A k \in 1 .. n : /\ OctetsOf(layout[k][2], ArgNumber(spec[k], args)) \in Seq(Octet)
                        /\ Len(OctetsOf(layout[k][2], ArgNumber(spec[k], args))) = Width[layout[k][2]]
                        /\ Pack(STRUCT_CODES[spec[k][2]], ArgNumber(spec[k], args))
                             = OctetsOf(layout[k][2], ArgNumber(spec[k], args))
  <2>1. TAKE k \in 1 .. n
  <2>4. PICK type \in Types : type = layout[k][2] /\ type = spec[k][2]
    BY OfALayout DEF Specifies
  <2>2. PICK v \in Values(type) : v = ArgNumber(spec[k], args)
    BY <2>4 DEF Specifies
  <2>3. /\ OctetsOf(type, v) \in Seq(Octet) /\ Len(OctetsOf(type, v)) = Width[type]
        /\ Pack(STRUCT_CODES[type], v) = OctetsOf(type, v)
    BY OctetsOfAValue, PacksAlike
  <2> QED
    BY <2>2, <2>3, <2>4, Zenon
<1>2. /\ bytes \in [1 .. n -> Seq(Octet)]
      /\ \A k \in 1 .. n : bytes[k] = OctetsOf(layout[k][2], ArgNumber(spec[k], args))
  BY <1>1
<1>3. \A k \in 1 .. n : Len(bytes[k]) = Width[layout[k][2]]
                       /\ bytes[k] = Pack(STRUCT_CODES[spec[k][2]], ArgNumber(spec[k], args))
  BY <1>1, <1>2
<1> HIDE DEF bytes
<1>4. step \in [1 .. n -> [Seq(Octet) -> Seq(Octet)]] /\
      \A k \in 1 .. n : \A s \in Seq(Octet) : step[k][s] = s \o bytes[k]
  <2>1. \A k \in 1 .. n : \A s \in Seq(Octet) : s \o bytes[k] \in Seq(Octet)
    BY <1>2
  <2> QED
    BY <2>1
<1> HIDE DEF step
<1>5. <<>> \in Seq(Octet)
  OBVIOUS
<1>6. PICK first \in Seq(Octet) : first = <<>>
  BY <1>5, Zenon
<1>7. ASSUME NEW f PROVE Is(f) <=> f = [k \in 0 .. n |-> IF k = 0 THEN first ELSE f[k - 1] \o bytes[k]]
  <2>1. Len(spec) = n
    BY DEF Specifies
  <2>2. \A k \in 0 .. n : k = 0 \/ k \in 1 .. n
    OBVIOUS
  <2>3. [k \in 0 .. n |-> IF k = 0 THEN first ELSE f[k - 1] \o bytes[k]]
        = [k \in 0 .. n |-> IF k = 0 THEN <<>>
                             ELSE f[k - 1] \o Pack(STRUCT_CODES[spec[k][2]], ArgNumber(spec[k], args))]
    BY <1>3, <1>6, <2>2, Zenon
  <2> QED
    BY <2>1, <2>3, Zenon
<1> HIDE DEF Is
<1>8. PICK g : Run(g, n, Seq(Octet), first, step)
  BY <1>4, RunExists
<1>9. ASSUME NEW f PROVE Is(f) <=> Run(f, n, Seq(Octet), first, step)
  <2>1. ASSUME Is(f) PROVE Run(f, n, Seq(Octet), first, step)
    <3>1. f = [k \in 0 .. n |-> IF k = 0 THEN first ELSE f[k - 1] \o bytes[k]]
      BY <1>7, <2>1
    <3>2. f[0] = first /\ \A k \in 1 .. n : f[k] = f[k - 1] \o bytes[k]
      <4>1. \A k \in 1 .. n : k \in 0 .. n /\ k # 0
        OBVIOUS
      <4>2. 0 \in 0 .. n
        OBVIOUS
      <4> QED
        BY <3>1, <4>1, <4>2
    <3> DEFINE Bad == {k \in 0 .. n : f[k] \notin Seq(Octet)}
    <3>3. Bad = {}
      <4>1. SUFFICES ASSUME Bad # {} PROVE FALSE
        OBVIOUS
      <4>2. PICK m \in Bad : \A i \in Bad : m <= i
        <5>1. Bad \in SUBSET Nat
          OBVIOUS
        <5> HIDE DEF Bad
        <5> QED
          BY <4>1, <5>1, SmallestMember
      <4>3. m \in 0 .. n /\ f[m] \notin Seq(Octet) /\ m # 0
        BY <3>2
      <4>4. m \in 1 .. n /\ m - 1 \in 0 .. n /\ ~(m <= m - 1)
        BY <4>3
      <4>5. m - 1 \notin Bad
        <5> HIDE DEF Bad
        <5> QED
          BY <4>2, <4>4
      <4>6. PICK s \in Seq(Octet) : s = f[m - 1]
        BY <4>4, <4>5
      <4>7. PICK t \in Seq(Octet) : t = bytes[m]
        BY <1>2, <4>4
      <4>8. s \o t \in Seq(Octet)
        BY Concatenated
      <4> QED
        BY <3>2, <4>3, <4>4, <4>6, <4>7, <4>8, Zenon
    <3>4. \A k \in 0 .. n : f[k] \in Seq(Octet)
      BY <3>3
    <3> HIDE DEF Bad
    <3>5. f \in [0 .. n -> Seq(Octet)]
      <4>1. f = [k \in 0 .. n |-> f[k]]
        BY <3>1
      <4> QED
        BY <3>4, <4>1
    <3>6. \A k \in 1 .. n : f[k] = step[k][f[k - 1]]
      <4>1. \A k \in 1 .. n : k - 1 \in 0 .. n
        OBVIOUS
      <4> QED
        BY <1>4, <3>2, <3>4, <4>1
    <3> QED
      BY <3>2, <3>5, <3>6 DEF Run
  <2>2. ASSUME Run(f, n, Seq(Octet), first, step) PROVE Is(f)
    <3>1. f \in [0 .. n -> Seq(Octet)] /\ f[0] = first /\ \A k \in 1 .. n : f[k] = step[k][f[k - 1]]
      BY <2>2 DEF Run
    <3>2. \A k \in 1 .. n : f[k] = f[k - 1] \o bytes[k]
      <4>1. \A k \in 1 .. n : k - 1 \in 0 .. n
        OBVIOUS
      <4> QED
        BY <1>4, <3>1, <4>1
    <3>3. f = [k \in 0 .. n |-> IF k = 0 THEN first ELSE f[k - 1] \o bytes[k]]
      <4>1. f = [k \in 0 .. n |-> f[k]]
        BY <3>1
      <4>2. \A k \in 0 .. n : k = 0 \/ k \in 1 .. n
        OBVIOUS
      <4>3. \A k \in 0 .. n : f[k] = IF k = 0 THEN first ELSE f[k - 1] \o bytes[k]
        BY <3>1, <3>2, <4>2, Zenon
      <4> QED
        BY <4>1, <4>3
    <3> QED
      BY <1>7, <3>3
  <2> QED
    BY <2>1, <2>2
<1>10. Payload(spec, args) = (CHOOSE f : Is(f))[n]
  <2>1. Len(spec) = n
    BY DEF Specifies
  <2> QED
    BY <2>1 DEF Payload, Is
<1>11. PICK h : h = (CHOOSE f : Is(f))
  BY Zenon
<1>12. Run(h, n, Seq(Octet), first, step)
  <2>1. Is(h)
    BY <1>8, <1>9, <1>11, Zenon
  <2> QED
    BY <1>9, <2>1
<1>13. /\ h \in [0 .. n -> Seq(Octet)] /\ h[0] = <<>>
       /\ \A k \in 1 .. n : h[k] = h[k - 1] \o bytes[k]
  <2>1. h \in [0 .. n -> Seq(Octet)] /\ h[0] = first /\ \A k \in 1 .. n : h[k] = step[k][h[k - 1]]
    BY <1>12 DEF Run
  <2>2. \A k \in 1 .. n : k - 1 \in 0 .. n
    OBVIOUS
  <2> QED
    BY <1>4, <1>6, <2>1, <2>2
<1>14. AllAt(h[n], layout, at, n, bytes)
  <2>1. bytes \in [1 .. n -> Seq(Octet)] /\ \A k \in 1 .. n : Len(bytes[k]) = Width[layout[k][2]]
    BY <1>2, <1>3, Zenon
  <2> QED
    BY <1>13, <2>1, Appended
<1>15. h[n] \in Seq(Octet)
  <2>1. n \in 0 .. n
    OBVIOUS
  <2> QED
    BY <1>13, <2>1
<1>16. Payload(spec, args) = h[n]
  BY <1>10, <1>11, Zenon
<1> QED
  BY <1>2, <1>14, <1>15, <1>16, Zenon DEF IsPayload, AllAt

\* The eleven octets in front of a telecommand's arguments.
TcHeader(d, w1, w2, w3, service, subtype) ==
  /\ d[1] = Hi(w1) /\ d[2] = Lo(w1) /\ d[3] = Hi(w2) /\ d[4] = Lo(w2) /\ d[5] = Hi(w3) /\ d[6] = Lo(w3)
  /\ d[7] = 41 /\ d[8] = service /\ d[9] = subtype /\ d[10] = Hi(0) /\ d[11] = Lo(0)

\* A word, packed.
LEMMA PackedWord ==
  ASSUME NEW w \in Word
  PROVE  /\ Pack("H", w) \in Seq(Octet) /\ Len(Pack("H", w)) = 2
         /\ Pack("H", w)[1] = Hi(w) /\ Pack("H", w)[2] = Lo(w) /\ Pack("H", w) = WordOctets(w)
<1>1. Pack("H", w) = WordOctets(w)
  BY DEF Pack, Halves, WordOctets
<1> QED
  BY <1>1, TwoOctetsOf

Joins(c, a, b, m, n) ==
  /\ c = a \o b /\ Len(c) = m + n
  /\ \A i \in 1 .. m : c[i] = a[i]
  /\ \A i \in 1 .. n : c[m + i] = b[i]

\* Two sequences, joined.
LEMMA Join ==
  ASSUME NEW a \in Seq(Octet), NEW b \in Seq(Octet)
  PROVE  \E c \in Seq(Octet) : Joins(c, a, b, Len(a), Len(b))
<1>1. /\ a \o b \in Seq(Octet) /\ Len(a \o b) = Len(a) + Len(b)
      /\ \A i \in 1 .. Len(a) : (a \o b)[i] = a[i]
      /\ \A i \in 1 .. Len(b) : (a \o b)[Len(a) + i] = b[i]
  BY Concatenated
<1> QED
  BY <1>1, Zenon DEF Joins

\* The eleven octets of the headers of a telecommand.
LEMMA HeaderPacked ==
  ASSUME NEW w1 \in Word, NEW w2 \in Word, NEW w3 \in Word, NEW service \in Octet, NEW subtype \in Octet
  PROVE  \E d \in Seq(Octet) :
           /\ d = (((Pack("H", w1) \o Pack("H", w2)) \o Pack("H", w3)) \o <<2 * 16 + 9, service,
                subtype>>) \o Pack("H", 0)
           /\ Len(d) = 11 /\ TcHeader(d, w1, w2, w3, service, subtype)
<1>1. PICK p \in Seq(Octet) : p = Pack("H", w1) /\ Len(p) = 2 /\ p[1] = Hi(w1) /\ p[2] = Lo(w1)
  BY PackedWord, Zenon
<1>2. PICK q \in Seq(Octet) : q = Pack("H", w2) /\ Len(q) = 2 /\ q[1] = Hi(w2) /\ q[2] = Lo(w2)
  BY PackedWord, Zenon
<1>3. PICK r \in Seq(Octet) : r = Pack("H", w3) /\ Len(r) = 2 /\ r[1] = Hi(w3) /\ r[2] = Lo(w3)
  BY PackedWord, Zenon
<1>4. PICK u \in Seq(Octet) : u = Pack("H", 0) /\ Len(u) = 2 /\ u[1] = Hi(0) /\ u[2] = Lo(0)
  <2>1. 0 \in Word
    BY DEF Word
  <2> QED
    BY <2>1, PackedWord, Zenon
<1>5. PICK t \in Seq(Octet) : t = <<2 * 16 + 9, service, subtype>> /\ Len(t) = 3
                              /\ t[1] = 41 /\ t[2] = service /\ t[3] = subtype
  <2>1. 2 * 16 + 9 = 41 /\ 41 \in Octet
    BY DEF Octet
  <2>2. <<41, service, subtype>> \in Seq(Octet) /\ Len(<<41, service, subtype>>) = 3
    BY <2>1, ShortSequences
  <2>3. <<41, service, subtype>>[1] = 41 /\ <<41, service, subtype>>[2] = service /\ <<41, service,
        subtype>>[3] = subtype
    OBVIOUS
  <2> QED
    BY <2>1, <2>2, <2>3, Zenon
<1>6. PICK a \in Seq(Octet) : Joins(a, p, q, 2, 2)
  <2>1. \E a \in Seq(Octet) : Joins(a, p, q, Len(p), Len(q))
    BY Join, Zenon
  <2> QED
    BY <1>1, <1>2, <2>1, Zenon
<1>10. Len(a) = 4 /\ a[1] = p[1] /\ a[2] = p[2] /\ a[3] = q[1] /\ a[4] = q[2]
  <2>1. Len(a) = 2 + 2 /\ (\A i \in 1 .. 2 : a[i] = p[i]) /\ (\A i \in 1 .. 2 : a[2 + i] = q[i])
    BY <1>6, Zenon DEF Joins
  <2> QED
    BY <2>1
<1>7. PICK b \in Seq(Octet) : Joins(b, a, r, 4, 2)
  <2>1. Len(a) = 4
    BY <1>10, Zenon
  <2> QED
    BY <1>3, <2>1, Join, Zenon
<1>11. Len(b) = 6 /\ b[1] = a[1] /\ b[2] = a[2] /\ b[3] = a[3] /\ b[4] = a[4] /\ b[5] = r[1] /\ b[6] = r[2]
  <2>1. Len(b) = 4 + 2 /\ (\A i \in 1 .. 4 : b[i] = a[i]) /\ (\A i \in 1 .. 2 : b[4 + i] = r[i])
    BY <1>7, Zenon DEF Joins
  <2> QED
    BY <2>1
<1>8. PICK c \in Seq(Octet) : Joins(c, b, t, 6, 3)
  <2>1. Len(b) = 6
    BY <1>11, Zenon
  <2> QED
    BY <1>5, <2>1, Join, ZenonT(30)
<1>12. /\ Len(c) = 9 /\ c[1] = b[1] /\ c[2] = b[2] /\ c[3] = b[3] /\ c[4] = b[4] /\ c[5] = b[5] /\ c[6] = b[6]
       /\ c[7] = t[1] /\ c[8] = t[2] /\ c[9] = t[3]
  <2>1. Len(c) = 6 + 3 /\ (\A i \in 1 .. 6 : c[i] = b[i]) /\ (\A i \in 1 .. 3 : c[6 + i] = t[i])
    BY <1>8, Zenon DEF Joins
  <2> QED
    BY <2>1
<1>9. PICK d \in Seq(Octet) : Joins(d, c, u, 9, 2)
  <2>1. Len(c) = 9
    BY <1>12, Zenon
  <2> QED
    BY <1>4, <2>1, Join, Zenon
<1>13. /\ Len(d) = 11 /\ d[1] = c[1] /\ d[2] = c[2] /\ d[3] = c[3] /\ d[4] = c[4] /\ d[5] = c[5] /\
            d[6] = c[6]
       /\ d[7] = c[7] /\ d[8] = c[8] /\ d[9] = c[9] /\ d[10] = u[1] /\ d[11] = u[2]
  <2>1. Len(d) = 9 + 2 /\ (\A i \in 1 .. 9 : d[i] = c[i]) /\ (\A i \in 1 .. 2 : d[9 + i] = u[i])
    BY <1>9, Zenon DEF Joins
  <2> QED
    BY <2>1
<1>14. TcHeader(d, w1, w2, w3, service, subtype)
  BY <1>1, <1>2, <1>3, <1>4, <1>5, <1>10, <1>11, <1>12, <1>13, ZenonT(30) DEF TcHeader
<1>15. d = (((Pack("H", w1) \o Pack("H", w2)) \o Pack("H", w3)) \o <<2 * 16 + 9, service,
      subtype>>) \o Pack("H", 0)
  BY <1>1, <1>2, <1>3, <1>4, <1>5, <1>6, <1>7, <1>8, <1>9, Zenon DEF Joins
<1> QED
  BY <1>13, <1>14, <1>15, Zenon

\* A telecommand: its header, its arguments from the twelfth octet on, its CRC.
IsTc(d, count, service, subtype, spec, layout, args, at, n) ==
  /\ d \in Seq(Octet) /\ Len(d) = at[n] + 13 /\ Crc(d) = 0
  /\ TcHeader(d, Word0, Word1(count), at[n] + 6, service, subtype)
  /\ \A k \in 1 .. n : \A i \in 1 .. Width[layout[k][2]] :
       d[at[k - 1] + i + 11] = OctetsOf(layout[k][2], ArgNumber(spec[k], args))[i]

\* A telecommand is built as its two headers, its arguments one after the other and
\* the CRC that brings it to 0; its length field says its length (build_tc).
THEOREM WhatIsBuilt ==
  ASSUME NEW N, NEW layout \in Layouts(N), NEW n \in Nat, n = Len(layout), n <= 100, NEW at, Places(at,
        layout, 0),
         NEW name, NEW args, NEW count \in Nat, NEW spec, spec = COMMANDS[name][3], Specifies(spec, layout,
               args),
         NEW service \in Octet, service = COMMANDS[name][1], NEW subtype \in Octet,
               subtype = COMMANDS[name][2]
  PROVE  IsTc(BuildTc(name, count, args), count, service, subtype, spec, layout, args, at, n)
<1>1. PICK p \in Seq(Octet) : p = Payload(spec, args) /\ IsPayload(p, spec, layout, args, at, n)
  <2>1. IsPayload(Payload(spec, args), spec, layout, args, at, n)
    BY WhatIsPacked
  <2>2. Payload(spec, args) \in Seq(Octet)
    BY <2>1, Zenon DEF IsPayload
  <2> QED
    BY <2>1, <2>2, Zenon
<1>2. PICK m \in Nat : m = at[n] /\ m = Len(p)
  <2>1. n \in 0 .. n
    OBVIOUS
  <2>2. at[n] \in Nat
    BY <2>1 DEF Places
  <2> QED
    BY <1>1, <2>2, Zenon DEF IsPayload
<1>3. m <= 800
  <2>1. 0 \in Nat /\ 0 \in 0 .. n /\ n \in 0 .. n
    OBVIOUS
  <2>2. \A j \in 0 .. n : at[0] <= at[j] /\ at[j] <= at[0] + 8 * (j - 0)
    BY <2>1, PlacesGrow
  <2>3. at[n] <= at[0] + 8 * (n - 0) /\ at[0] = 0
    BY <2>1, <2>2 DEF Places
  <2> QED
    BY <1>2, <2>3
<1>4. PICK w1 \in Word : w1 = Word0
  <2>1. Word0 \in Word
    BY DEF Word0, APIDS, Word
  <2> QED
    BY <2>1
<1>5. PICK w2 \in Word : w2 = Word1(count)
  <2>1. Word1(count) \in Word
    BY DEF Word1, Word
  <2> QED
    BY <2>1
<1>6. PICK w3 \in Word : w3 = at[n] + 6 /\ w3 = 5 + Len(p) + 2 - 1
  <2>1. m + 6 \in Word /\ m + 6 = 5 + m + 2 - 1
    BY <1>3 DEF Word
  <2> QED
    BY <1>2, <2>1, Zenon
<1>7. PICK h \in Seq(Octet) :
           /\ h = (((Pack("H", w1) \o Pack("H", w2)) \o Pack("H", w3)) \o <<2 * 16 + 9, service,
                subtype>>) \o Pack("H", 0)
           /\ Len(h) = 11 /\ TcHeader(h, w1, w2, w3, service, subtype)
  BY HeaderPacked, Zenon
<1>8. PICK b \in Seq(Octet) : Joins(b, h, p, 11, m)
  BY <1>2, <1>7, Join, ZenonT(30)
<1>9. PICK c \in Word : c = CrcOf(b) /\ c = Crc(b)
  BY BothEndsAgree
<1>10. Hi(c) \in Octet /\ Lo(c) \in Octet /\ Pack("H", c) = <<Hi(c), Lo(c)>>
  BY PackedWord, TwoOctetsOf, Zenon
<1>11. PICK e \in Seq(Octet) : e = <<Hi(c), Lo(c)>> /\ Len(e) = 2
  BY <1>10, TwoOctets, Zenon
<1>19. Len(b) = 11 + m
  BY <1>8, Zenon DEF Joins
<1>12. PICK d \in Seq(Octet) : Joins(d, b, e, 11 + m, 2)
  BY <1>11, <1>19, Join, Zenon
<1>13. BuildTc(name, count, args) = d
  <2>1. b = h \o p /\ d = b \o e /\ e = Pack("H", CrcOf(b)) /\ p = Payload(COMMANDS[name][3], args)
        /\ h = (((Pack("H", w1) \o Pack("H", w2)) \o Pack("H", w3)) \o <<2 * 16 + 9, service,
             subtype>>) \o Pack("H", 0)
    BY <1>1, <1>7, <1>8, <1>9, <1>10, <1>11, <1>12, Zenon DEF Joins
  <2>2. w1 = Word0 /\ w2 = Word1(count) /\ w3 = 5 + Len(p) + 2 - 1
    BY <1>4, <1>5, <1>6
  <2> QED
    BY <2>1, <2>2, Zenon DEF BuildTc
<1>14. Crc(d) = 0
  <2>1. \A x, y \in Octet : /\ b \o <<x, y>> \in Seq(Octet)
                            /\ Crc(b \o <<x, y>>) = 0 <=> <<x, y>> = WordOctets(Crc(b))
    BY OnlyTheCrcSeals
  <2>2. <<Hi(c), Lo(c)>> = WordOctets(Crc(b))
    BY <1>9, TwoOctetsOf, Zenon
  <2> QED
    BY <1>10, <1>11, <1>12, <2>1, <2>2, Zenon DEF Joins
<1>15. Len(d) = at[n] + 13
  <2>1. Len(d) = (11 + m) + 2
    BY <1>12, Zenon DEF Joins
  <2>2. (11 + m) + 2 = m + 13
    OBVIOUS
  <2> QED
    BY <1>2, <2>1, <2>2, Zenon
<1>20. /\ \A i \in 1 .. 11 + m : d[i] = b[i]
       /\ \A i \in 1 .. 11 : b[i] = h[i]
       /\ \A i \in 1 .. m : b[11 + i] = p[i]
  BY <1>8, <1>12, Zenon DEF Joins
<1>16. TcHeader(d, w1, w2, w3, service, subtype)
  <2>1. \A i \in 1 .. 11 : d[i] = h[i]
    <3>1. \A i \in 1 .. 11 : i \in 1 .. 11 + m
      OBVIOUS
    <3> QED
      BY <1>20, <3>1, Zenon
  <2>2. /\ d[1] = h[1] /\ d[2] = h[2] /\ d[3] = h[3] /\ d[4] = h[4] /\ d[5] = h[5] /\ d[6] = h[6]
        /\ d[7] = h[7] /\ d[8] = h[8] /\ d[9] = h[9] /\ d[10] = h[10] /\ d[11] = h[11]
    BY <2>1
  <2> QED
    BY <1>7, <2>2, Zenon DEF TcHeader
<1>17. \A j \in 1 .. m : d[j + 11] = p[j]
  <2>1. ASSUME NEW j \in 1 .. m PROVE d[j + 11] = p[j]
    <3>1. j + 11 = 11 + j /\ 11 + j \in 1 .. 11 + m
      OBVIOUS
    <3> QED
      BY <1>20, <3>1, Zenon
  <2> QED
    BY <2>1
<1>18. ASSUME NEW k \in 1 .. n, NEW i \in 1 .. Width[layout[k][2]]
       PROVE  d[at[k - 1] + i + 11] = OctetsOf(layout[k][2], ArgNumber(spec[k], args))[i]
  <2>1. p[at[k - 1] + i] = OctetsOf(layout[k][2], ArgNumber(spec[k], args))[i]
    BY <1>1, Zenon DEF IsPayload
  <2>2. k - 1 \in 0 .. n /\ k \in 0 .. n /\ n \in k .. n
    OBVIOUS
  <2>3. at[k] = at[k - 1] + Width[layout[k][2]] /\ at[k] \in Nat /\ at[k - 1] \in Nat
    BY <2>2 DEF Places
  <2>4. at[k] <= at[n]
    <3>1. 0 \in Nat
      OBVIOUS
    <3>2. \A j \in k .. n : at[k] <= at[j]
      BY <2>2, <3>1, PlacesGrow
    <3> QED
      BY <2>2, <3>2, Zenon
  <2>5. PICK width \in Nat : width = Width[layout[k][2]]
    <3>1. Width[layout[k][2]] \in 1 .. 8
      BY OfALayout
    <3> QED
      BY <3>1, SMTT(30)
  <2>6. PICK a \in Nat : a = at[k - 1] /\ a + width <= m
    BY <1>2, <2>3, <2>4, <2>5
  <2>7. i \in 1 .. width
    BY <2>5, Zenon
  <2>8. a + i \in 1 .. m
    BY <2>6, <2>7, PlaceWithin
  <2> QED
    BY <1>17, <2>1, <2>6, <2>8, Zenon
<1>21. TcHeader(d, Word0, Word1(count), at[n] + 6, service, subtype)
  BY <1>4, <1>5, <1>6, <1>16
<1>22. IsTc(d, count, service, subtype, spec, layout, args, at, n)
  BY <1>14, <1>15, <1>18, <1>21 DEF IsTc
<1> QED
  BY <1>13, <1>22

-----------------------------------------------------------------------------
\* The command tables of the two ends.

ArgNames == {"sid", "param_id", "value", "mode"}
Aligned(spec, layout) ==
  /\ Len(spec) = Len(layout) /\ DOMAIN spec = 1 .. Len(layout)
  /\ \A k \in 1 .. Len(layout) : spec[k][1] = layout[k][1] /\ spec[k][2] = layout[k][2]

\* The ground's rows for one argument, and for two.
LEMMA OneTyped ==
  ASSUME NEW type, NEW x
  PROVE  /\ Len(Typed(type, <<x>>)) = 1 /\ DOMAIN Typed(type, <<x>>) = 1 .. 1
         /\ Typed(type, <<x>>)[1] = <<x, type, NoEnum>>
         /\ Typed(type, <<x>>) = <<<<x, type, NoEnum>>>>
<1>1. DOMAIN <<x>> = 1 .. 1 /\ <<x>>[1] = x
  OBVIOUS
<1>2. Typed(type, <<x>>) = [k \in 1 .. 1 |-> <<<<x>>[k], type, NoEnum>>]
  BY <1>1 DEF Typed
<1>3. Typed(type, <<x>>) = <<<<x, type, NoEnum>>>>
  BY <1>1, <1>2
<1> QED
  BY <1>3

IsTwoTyped(spec, s, t, x, y) ==
  /\ Len(spec) = 2 /\ DOMAIN spec = 1 .. 2
  /\ spec[1] = <<x, s, NoEnum>> /\ spec[2] = <<y, t, NoEnum>>

\* Two arguments of different types.
LEMMA TwoTyped ==
  ASSUME NEW s, NEW t, NEW x, NEW y
  PROVE  IsTwoTyped(Typed(s, <<x>>) \o Typed(t, <<y>>), s, t, x, y)
<1>1. PICK a, b : a = <<x, s, NoEnum>> /\ b = <<y, t, NoEnum>>
  BY Zenon
<1>2. Typed(s, <<x>>) = <<a>> /\ Typed(t, <<y>>) = <<b>>
  BY <1>1, OneTyped, Zenon
<1>3. a \in {a, b} /\ b \in {a, b}
  OBVIOUS
<1>4. <<a>> \in Seq({a, b}) /\ <<b>> \in Seq({a, b}) /\ Len(<<a>>) = 1 /\ Len(<<b>>) = 1
  BY <1>3, ShortSequences
<1>5. PICK f \in Seq({a, b}), g \in Seq({a, b}) : f = <<a>> /\ g = <<b>>
  BY <1>4, Zenon
<1>6. Len(f) = 1 /\ Len(g) = 1 /\ f[1] = a /\ g[1] = b
  <2>1. <<a>>[1] = a /\ <<b>>[1] = b
    OBVIOUS
  <2> QED
    BY <1>4, <1>5, <2>1, Zenon
<1>7. /\ f \o g \in Seq({a, b}) /\ Len(f \o g) = Len(f) + Len(g)
      /\ \A i \in 1 .. Len(f) : (f \o g)[i] = f[i]
      /\ \A i \in 1 .. Len(g) : (f \o g)[Len(f) + i] = g[i]
  BY Concatenated
<1>8. Len(f \o g) = 2 /\ (f \o g)[1] = a /\ (f \o g)[2] = b
  BY <1>6, <1>7
<1>9. DOMAIN (f \o g) = 1 .. 2
  BY <1>7, <1>8
<1> QED
  BY <1>1, <1>2, <1>5, <1>8, <1>9, Zenon DEF IsTwoTyped

\* The ground packs the arguments that the flight software reads, in its order.
LEMMA ArgumentsAgree ==
  ASSUME NEW name \in DOMAIN COMMANDS
  PROVE  /\ ArgsLayout(name) \in Layouts(ArgNames) /\ Len(ArgsLayout(name)) \in 0 .. 2
         /\ Distinctly(ArgsLayout(name)) /\ Aligned(COMMANDS[name][3], ArgsLayout(name))
         /\ \A k \in 1 .. Len(ArgsLayout(name)) :
              IF name = "SET_MODE" THEN /\ COMMANDS[name][3][k][3] = "SystemMode"
                                        /\ ArgsLayout(name)[k][2] = "uint8"
                                   ELSE COMMANDS[name][3][k][3] = NoEnum
<1>0. /\ "sid" \in ArgNames /\ "param_id" \in ArgNames /\ "value" \in ArgNames /\ "mode" \in ArgNames
  BY DEF ArgNames
<1>1. CASE name \in {"TEST_CONNECTION", "RESET_COUNTERS"}
  <2>1. COMMANDS[name][3] = <<>> /\ ArgsLayout(name) = <<>> /\ name # "SET_MODE"
    BY <1>1 DEF COMMANDS, ArgsLayout
  <2>2. <<>> \in Seq(ArgNames \X Types) /\ Len(<<>>) = 0 /\ DOMAIN <<>> = {}
    OBVIOUS
  <2>3. 1 .. 0 = {}
    OBVIOUS
  <2> QED
    BY <2>1, <2>2, <2>3 DEF Layouts, Distinctly, Aligned
<1>2. CASE name \in {"ENABLE_HK", "DISABLE_HK"}
  <2>1. COMMANDS[name][3] = Typed("uint8", <<"sid">>) /\ ArgsLayout(name) = <<<<"sid", "uint8">>>> /\
        name # "SET_MODE"
    <3>1. CASE name = "ENABLE_HK"
      BY <3>1, Zenon DEF COMMANDS, ArgsLayout
    <3>2. CASE name = "DISABLE_HK"
      BY <3>2, Zenon DEF COMMANDS, ArgsLayout
    <3> QED
      BY <1>2, <3>1, <3>2
  <2>2. PICK spec, layout : spec = Typed("uint8", <<"sid">>) /\ layout = <<<<"sid", "uint8">>>>
    BY Zenon
  <2>3. Len(spec) = 1 /\ DOMAIN spec = 1 .. 1 /\ spec[1] = <<"sid", "uint8", NoEnum>>
    BY <2>2, OneTyped, Zenon
  <2>4. layout \in Seq(ArgNames \X Types) /\ Len(layout) = 1 /\ layout[1] = <<"sid", "uint8">>
    BY <1>0, <2>2, SomeTypes, ShortSequences
  <2>5. \A k \in 1 .. 1 : k = 1
    OBVIOUS
  <2> QED
    BY <2>1, <2>2, <2>3, <2>4, <2>5 DEF Layouts, Distinctly, Aligned
<1>3. CASE name = "REPORT_PARAM"
  <2>1. COMMANDS[name][3] = Typed("uint16", <<"param_id">>) /\ ArgsLayout(name) = <<<<"param_id", "uint16">>>>
        /\ name # "SET_MODE"
    BY <1>3, Zenon DEF COMMANDS, ArgsLayout
  <2>2. PICK spec, layout : spec = Typed("uint16", <<"param_id">>) /\ layout = <<<<"param_id", "uint16">>>>
    BY Zenon
  <2>3. Len(spec) = 1 /\ DOMAIN spec = 1 .. 1 /\ spec[1] = <<"param_id", "uint16", NoEnum>>
    BY <2>2, OneTyped, Zenon
  <2>4. layout \in Seq(ArgNames \X Types) /\ Len(layout) = 1 /\ layout[1] = <<"param_id", "uint16">>
    BY <1>0, <2>2, SomeTypes, ShortSequences
  <2>5. \A k \in 1 .. 1 : k = 1
    OBVIOUS
  <2> QED
    BY <2>1, <2>2, <2>3, <2>4, <2>5 DEF Layouts, Distinctly, Aligned
<1>4. CASE name = "SET_PARAM"
  <2>1. /\ COMMANDS[name][3] = Typed("uint16", <<"param_id">>) \o Typed("float64", <<"value">>)
        /\ ArgsLayout(name) = <<<<"param_id", "uint16">>, <<"value", "float64">>>> /\ name # "SET_MODE"
    BY <1>4, Zenon DEF COMMANDS, ArgsLayout
  <2>2. PICK spec, layout : spec = Typed("uint16", <<"param_id">>) \o Typed("float64", <<"value">>)
                            /\ layout = <<<<"param_id", "uint16">>, <<"value", "float64">>>>
    BY Zenon
  <2>3. /\ Len(spec) = 2 /\ DOMAIN spec = 1 .. 2
        /\ spec[1] = <<"param_id", "uint16", NoEnum>> /\ spec[2] = <<"value", "float64", NoEnum>>
    <3>1. IsTwoTyped(spec, "uint16", "float64", "param_id", "value")
      BY <2>2, TwoTyped, Zenon
    <3> QED
      BY <3>1, Zenon DEF IsTwoTyped
  <2>4. /\ layout \in Seq(ArgNames \X Types) /\ Len(layout) = 2
        /\ layout[1] = <<"param_id", "uint16">> /\ layout[2] = <<"value", "float64">>
    BY <1>0, <2>2, SomeTypes, ShortSequences
  <2>5. \A k \in 1 .. 2 : k = 1 \/ k = 2
    OBVIOUS
  <2> QED
    BY <2>1, <2>2, <2>3, <2>4, <2>5 DEF Layouts, Distinctly, Aligned
<1>5. CASE name = "SET_MODE"
  <2>1. COMMANDS[name][3] = <<<<"mode", "uint8", "SystemMode">>>> /\ ArgsLayout(name) = <<<<"mode",
                                                                       "uint8">>>>
    BY <1>5, Zenon DEF COMMANDS, ArgsLayout
  <2>2. PICK spec, layout : spec = <<<<"mode", "uint8", "SystemMode">>>> /\ layout = <<<<"mode", "uint8">>>>
    BY Zenon
  <2>3. Len(spec) = 1 /\ DOMAIN spec = 1 .. 1 /\ spec[1] = <<"mode", "uint8", "SystemMode">>
    BY <2>2
  <2>4. layout \in Seq(ArgNames \X Types) /\ Len(layout) = 1 /\ layout[1] = <<"mode", "uint8">>
    BY <1>0, <2>2, SomeTypes, ShortSequences
  <2>5. \A k \in 1 .. 1 : k = 1
    OBVIOUS
  <2> QED
    BY <1>5, <2>1, <2>2, <2>3, <2>4, <2>5 DEF Layouts, Distinctly, Aligned
<1> QED
  BY <1>1, <1>2, <1>3, <1>4, <1>5 DEF COMMANDS

\* A mode has the same number at both ends.
LEMMA ModesNumbered ==
  ASSUME NEW x, \E k \in DOMAIN ENUMS["SystemMode"] : x = ENUMS["SystemMode"][k]
  PROVE  /\ EnumNumber("SystemMode", x) \in Octet
         /\ x \in DOMAIN SystemMode /\ EnumNumber("SystemMode", x) = SystemMode[x]
<1>1. PICK names : names = ENUMS["SystemMode"]
  BY Zenon
<1>2. /\ DOMAIN names = 1 .. 5 /\ names[1] = "BOOT" /\ names[2] = "SAFE" /\ names[3] = "DETUMBLE"
      /\ names[4] = "STANDBY" /\ names[5] = "POINTING"
  BY <1>1 DEF ENUMS
<1>3. PICK k \in 1 .. 5 : names[k] = x
  BY <1>1, <1>2
<1>4. \A j \in 1 .. 5 : j = 1 \/ j = 2 \/ j = 3 \/ j = 4 \/ j = 5
  OBVIOUS
<1>5. \A j \in 1 .. 5 : names[j] = x => j = k
  BY <1>2, <1>3, <1>4
<1>6. (CHOOSE j \in DOMAIN names : names[j] = x) = k
  BY <1>2, <1>3, <1>5
<1>7. EnumNumber("SystemMode", x) = k - 1
  BY <1>1, <1>6 DEF EnumNumber
<1>8. x \in DOMAIN SystemMode /\ SystemMode[x] = k - 1
  BY <1>2, <1>3, <1>4 DEF SystemMode
<1>9. k - 1 \in Octet
  BY DEF Octet
<1> QED
  BY <1>7, <1>8, <1>9

\* What an order's arguments are packed as.
LEMMA OrdersSpecify ==
  ASSUME NEW o, IsOrder(o)
  PROVE  /\ o.name \in DOMAIN COMMANDS
         /\ Specifies(COMMANDS[o.name][3], ArgsLayout(o.name), o.args)
         /\ DOMAIN o.args = Named(ArgsLayout(o.name))
         /\ \A k \in 1 .. Len(ArgsLayout(o.name)) :
              ArgNumber(COMMANDS[o.name][3][k], o.args)
                = IF o.name = "SET_MODE" THEN Numbered(o.args[ArgsLayout(o.name)[k][1]])
                                         ELSE o.args[ArgsLayout(o.name)[k][1]]
<1>1. PICK name, args, spec, layout : /\ name = o.name /\ args = o.args /\ spec = COMMANDS[name][3]
                                      /\ layout = ArgsLayout(name)
  BY Zenon
<1>2. /\ name \in DOMAIN COMMANDS
      /\ DOMAIN args = {spec[k][1] : k \in DOMAIN spec}
      /\ \A k \in DOMAIN spec :
            IF spec[k][3] = NoEnum
              THEN args[spec[k][1]] \in Values(spec[k][2])
              ELSE \E n \in DOMAIN ENUMS[spec[k][3]] : args[spec[k][1]] = ENUMS[spec[k][3]][n]
  BY <1>1, Zenon DEF IsOrder
<1>3. /\ layout \in Layouts(ArgNames) /\ Len(spec) = Len(layout) /\ DOMAIN spec = 1 .. Len(layout)
      /\ \A k \in 1 .. Len(layout) : spec[k][1] = layout[k][1] /\ spec[k][2] = layout[k][2]
      /\ \A k \in 1 .. Len(layout) :
              IF name = "SET_MODE" THEN spec[k][3] = "SystemMode" /\ layout[k][2] = "uint8"
                                   ELSE spec[k][3] = NoEnum
  BY <1>1, <1>2, ArgumentsAgree, Zenon DEF Aligned
<1>4. ASSUME NEW k \in 1 .. Len(layout)
      PROVE  /\ ArgNumber(spec[k], args) \in Values(layout[k][2])
             /\ ArgNumber(spec[k],
                  args) = IF name = "SET_MODE" THEN Numbered(args[layout[k][1]]) ELSE args[layout[k][1]]
  <2>1. CASE name = "SET_MODE"
    <3>1. PICK x : x = args[layout[k][1]] /\ x = args[spec[k][1]]
      BY <1>3, Zenon
    <3>2. spec[k][3] = "SystemMode" /\ layout[k][2] = "uint8" /\ "SystemMode" # NoEnum
      BY <1>3, <2>1 DEF NoEnum
    <3>3. \E n \in DOMAIN ENUMS["SystemMode"] : x = ENUMS["SystemMode"][n]
      <4>1. k \in DOMAIN spec /\ spec[k][3] # NoEnum
        BY <1>3, <3>2, Zenon
      <4>2. \E n \in DOMAIN ENUMS[spec[k][3]] : args[spec[k][1]] = ENUMS[spec[k][3]][n]
        BY <1>2, <4>1
      <4>3. spec[k][3] = "SystemMode" /\ args[spec[k][1]] = x
        BY <3>1, <3>2, Zenon
      <4> QED
        BY <4>2, <4>3, Zenon
    <3>4. ArgNumber(spec[k], args) = EnumNumber("SystemMode", x)
      BY <3>1, <3>2, Zenon DEF ArgNumber
    <3>5. /\ EnumNumber("SystemMode", x) \in Octet
          /\ x \in DOMAIN SystemMode /\ EnumNumber("SystemMode", x) = SystemMode[x]
      BY <3>3, ModesNumbered
    <3>6. Values("uint8") = Octet
      BY SomeTypes DEF Values
    <3> QED
      BY <2>1, <3>1, <3>2, <3>4, <3>5, <3>6, Zenon DEF Numbered
  <2>2. CASE name # "SET_MODE"
    BY <1>2, <1>3, <2>2, Zenon DEF ArgNumber
  <2> QED
    BY <2>1, <2>2, Zenon
<1>5. DOMAIN args = Named(layout)
  BY <1>2, <1>3 DEF Named
<1>6. Specifies(spec, layout, args)
  BY <1>3, <1>4, Zenon DEF Specifies
<1> QED
  BY <1>1, <1>2, <1>4, <1>5, <1>6, Zenon

\* Service and subtype of a command are octets.
LEMMA CommandOctets ==
  ASSUME NEW name \in DOMAIN COMMANDS
  PROVE  COMMANDS[name][1] \in 0 .. 200 /\ COMMANDS[name][2] \in 0 .. 200
<1>1. name \in {"TEST_CONNECTION", "ENABLE_HK", "DISABLE_HK", "REPORT_PARAM", "SET_PARAM", "SET_MODE",
      "RESET_COUNTERS"}
  BY DEF COMMANDS
<1>2. /\ COMMANDS["TEST_CONNECTION"][1] = 17 /\ COMMANDS["TEST_CONNECTION"][2] = 1
      /\ COMMANDS["RESET_COUNTERS"][1] = 8 /\ COMMANDS["RESET_COUNTERS"][2] = 2
      /\ COMMANDS["ENABLE_HK"][1] = 3 /\ COMMANDS["ENABLE_HK"][2] = 5
      /\ COMMANDS["DISABLE_HK"][1] = 3 /\ COMMANDS["DISABLE_HK"][2] = 6
      /\ COMMANDS["REPORT_PARAM"][1] = 20 /\ COMMANDS["REPORT_PARAM"][2] = 1
      /\ COMMANDS["SET_PARAM"][1] = 20 /\ COMMANDS["SET_PARAM"][2] = 3
      /\ COMMANDS["SET_MODE"][1] = 8 /\ COMMANDS["SET_MODE"][2] = 1
  BY DEF COMMANDS
<1> QED
  BY <1>1, <1>2

\* Two octets of a packet make a word.
LEMMA WordAtIsAWord ==
  ASSUME NEW data \in Seq(Octet), NEW i \in 1 .. Len(data), i + 1 \in 1 .. Len(data)
  PROVE  WordAt(data, i) \in Word
<1>1. data[i] \in Octet /\ data[i + 1] \in Octet
  OBVIOUS
<1> QED
  BY <1>1, WordOfParts DEF WordAt, OctetWord

\* Reading an octet, and a word.
LEMMA ReadsAnOctet ==
  ASSUME NEW data \in Seq(Octet), NEW i \in Nat, i + 1 <= Len(data)
  PROVE  ValueOf("uint8", SubSeq(data, i + 1, i + 1)) = data[i + 1]
<1>1. SubSeq(data, i + 1, i + 1)[1] = data[i + 1]
  BY SubsequenceOf
<1> QED
  BY <1>1, SomeTypes DEF ValueOf

\* Reading a word.
LEMMA ReadsAWord ==
  ASSUME NEW data \in Seq(Octet), NEW i \in Nat, i + 2 <= Len(data)
  PROVE  ValueOf("uint16", SubSeq(data, i + 1, i + 2)) = WordAt(data, i + 1)
<1>1. SubSeq(data, i + 1, i + 2)[1] = data[i + 1] /\ SubSeq(data, i + 1, i + 2)[2] = data[(i + 1) + 1]
  OBVIOUS
<1> QED
  BY <1>1, SomeTypes DEF ValueOf, WordAt

\* A reader before its first field.
LEMMA NewReader ==
  ASSUME NEW N, NEW data \in Seq(Octet)
  PROVE  /\ Reader(data) \in Readers(N) /\ Reader(data).ok /\ Reader(data).pos = 0
         /\ Reader(data).data = data /\ DOMAIN Reader(data).fields = {}
<1>1. PICK b : b = TRUE
  OBVIOUS
<1>2. <<>> \in Readings(N) /\ DOMAIN <<>> = {}
  <2>1. <<>> \in [{} -> Anything]
    OBVIOUS
  <2> QED
    BY <2>1 DEF Readings
<1>3. PICK f : f = <<>>
  OBVIOUS
<1>4. PICK r : r = [data |-> data, pos |-> 0, ok |-> b, fields |-> f]
  OBVIOUS
<1>5. r = Reader(data)
  BY <1>1, <1>3, <1>4, Zenon DEF Reader
<1>6. r \in Readers(N) /\ r.pos = 0 /\ r.data = data /\ r.fields = f /\ r.ok = b
  BY <1>1, <1>2, <1>3, <1>4 DEF Readers
<1> QED
  BY <1>1, <1>2, <1>3, <1>5, <1>6, Zenon

HeaderPlaces == [k \in 0 .. 3 |-> 2 * k]

\* The three words in front of a packet.
LEMMA PrimaryRead ==
  ASSUME NEW data \in Seq(Octet), 6 <= Len(data)
  PROVE  /\ ReadFields(Reader(data), PrimaryLayout) \in Readers(HeaderNames)
         /\ ReadFields(Reader(data), PrimaryLayout).ok
         /\ ReadFields(Reader(data), PrimaryLayout).pos = 6
         /\ ReadFields(Reader(data), PrimaryLayout).data = data
         /\ DOMAIN ReadFields(Reader(data), PrimaryLayout).fields = {"word0", "word1", "data_length"}
         /\ ReadFields(Reader(data), PrimaryLayout).fields["word0"] = WordAt(data, 1)
         /\ ReadFields(Reader(data), PrimaryLayout).fields["word1"] = WordAt(data, 3)
         /\ ReadFields(Reader(data), PrimaryLayout).fields["data_length"] = WordAt(data, 5)
<1>1. PICK r \in Readers(HeaderNames) :
        r = Reader(data) /\ r.ok /\ r.pos = 0 /\ r.data = data /\ DOMAIN r.fields = {}
  BY NewReader, Zenon
<1>2. PICK layout \in Layouts(HeaderNames) : layout = PrimaryLayout
  BY ThePrimaryLayout
<1>3. /\ Len(layout) = 3 /\ Distinctly(layout)
      /\ layout[1] = <<"word0", "uint16">> /\ layout[2] = <<"word1", "uint16">>
      /\ layout[3] = <<"data_length", "uint16">>
  BY <1>2, ThePrimaryLayout, Zenon
<1>4. PICK at : at = HeaderPlaces
  OBVIOUS
<1>5. at[0] = 0 /\ at[1] = 2 /\ at[2] = 4 /\ at[3] = 6 /\ at \in [0 .. 3 -> Nat]
  BY <1>4 DEF HeaderPlaces
<1>6. Places(at, layout, 0)
  <2>1. \A k \in 1 .. 3 : k = 1 \/ k = 2 \/ k = 3
    OBVIOUS
  <2> QED
    BY <1>3, <1>5, <2>1, SomeTypes DEF Places
<1>7. PICK v \in Readers(HeaderNames) : v = ReadFields(r, layout) /\ HasRead(v, r, layout, at, 3)
  <2>1. Places(at, layout, r.pos) /\ at[3] <= Len(r.data) /\ 3 \in Nat
    BY <1>1, <1>5, <1>6
  <2>2. /\ ReadFields(r, layout) \in Readers(HeaderNames)
        /\ HasRead(ReadFields(r, layout), r, layout, at, 3)
    BY <1>1, <1>3, <2>1, FieldsRead
  <2> QED
    BY <2>2, Zenon
<1>8. /\ v.ok /\ v.data = data /\ v.pos = 6
      /\ DOMAIN v.fields = DOMAIN r.fields \cup Named(layout)
      /\ \A k \in 1 .. 3 :
           v.fields[layout[k][1]] = ValueOf(layout[k][2], SubSeq(data, at[k - 1] + 1, at[k]))
  <2>1. /\ v.ok /\ v.data = r.data /\ v.pos = at[3]
        /\ DOMAIN v.fields = DOMAIN r.fields \cup Named(layout)
        /\ \A k \in 1 .. 3 :
             v.fields[layout[k][1]] = ValueOf(layout[k][2], SubSeq(r.data, at[k - 1] + 1, at[k]))
    BY <1>7 DEF HasRead
  <2>2. r.data = data /\ at[3] = 6
    BY <1>1, <1>5, Zenon
  <2> QED
    BY <2>1, <2>2
<1>9. DOMAIN v.fields = {"word0", "word1", "data_length"}
  <2>1. \A k \in 1 .. 3 : k = 1 \/ k = 2 \/ k = 3
    OBVIOUS
  <2>2. Named(layout) = {"word0", "word1", "data_length"}
    BY <1>3, <2>1 DEF Named
  <2> QED
    BY <1>1, <1>8, <2>2
<1>10. /\ v.fields["word0"] = ValueOf("uint16", SubSeq(data, 0 + 1, 0 + 2))
       /\ v.fields["word1"] = ValueOf("uint16", SubSeq(data, 2 + 1, 2 + 2))
       /\ v.fields["data_length"] = ValueOf("uint16", SubSeq(data, 4 + 1, 4 + 2))
  BY <1>3, <1>5, <1>8
<1>11. /\ v.fields["word0"] = WordAt(data, 1) /\ v.fields["word1"] = WordAt(data, 3)
       /\ v.fields["data_length"] = WordAt(data, 5)
  <2>1. \A i \in {0, 2, 4} : i \in Nat /\ i + 2 <= Len(data)
    OBVIOUS
  <2>2. /\ ValueOf("uint16", SubSeq(data, 0 + 1, 0 + 2)) = WordAt(data, 0 + 1)
        /\ ValueOf("uint16", SubSeq(data, 2 + 1, 2 + 2)) = WordAt(data, 2 + 1)
        /\ ValueOf("uint16", SubSeq(data, 4 + 1, 4 + 2)) = WordAt(data, 4 + 1)
    BY <2>1, ReadsAWord
  <2>3. 0 + 1 = 1 /\ 2 + 1 = 3 /\ 4 + 1 = 5
    OBVIOUS
  <2> QED
    BY <1>10, <2>2, <2>3
<1> QED
  BY <1>1, <1>2, <1>7, <1>8, <1>9, <1>11, Zenon

\* An outcome that can be answered: what the answer quotes fits its fields.
Answerable(o) ==
  o.parsed => o.apid \in Word /\ o.seq \in Word /\ o.verdict \in DOMAIN FailureCode

\* What is refused before it is parsed is not answered.
LEMMA RefusedIsSilent == ASSUME NEW code PROVE Answerable(Refused(code))
<1>1. Refused(code).parsed = FALSE
  BY Zenon DEF Refused
<1> QED
  BY <1>1 DEF Answerable

\* What is handled can be answered.
LEMMA HandledIsAnswerable ==
  ASSUME NEW p, NEW s, NEW o, p.apid \in Word, p.sequence_count \in Word
  PROVE  Answerable(HandleTc(p, s, o))
<1>1. PICK tc, b, f : /\ b = TRUE /\ f = <<>>
        /\ tc = [verdict |-> "Ok", parsed |-> b, name |-> "none", apid |-> p.apid,
                 seq |-> p.sequence_count, acks |-> s.byte0 % 16, args |-> f]
  OBVIOUS
<1>2. \E name, args : \/ HandleTc(p, s, o) = [tc EXCEPT !.verdict = "UnknownService"]
                      \/ HandleTc(p, s, o) = [tc EXCEPT !.verdict = "BadLength"]
                      \/ HandleTc(p, s, o) = [tc EXCEPT !.name = name, !.args = args]
  BY <1>1, Zenon DEF HandleTc
<1>3. PICK h : h = HandleTc(p, s, o)
  OBVIOUS
<1>4. h.apid = p.apid /\ h.seq = p.sequence_count /\ h.verdict \in {"Ok", "UnknownService", "BadLength"}
  BY <1>1, <1>2, <1>3
<1>5. h.verdict \in DOMAIN FailureCode
  BY <1>4 DEF FailureCode
<1> QED
  BY <1>3, <1>4, <1>5 DEF Answerable

\* The primary header, as the first six octets say.
LEMMA HeaderDecoded ==
  ASSUME NEW data \in Seq(Octet), 6 <= Len(data)
  PROVE  PrimaryOf(ReadFields(Reader(data), PrimaryLayout))
           = Decode(<<WordAt(data, 1), WordAt(data, 3), WordAt(data, 5)>>)
         /\ WordAt(data, 1) \in Word /\ WordAt(data, 3) \in Word /\ WordAt(data, 5) \in Word
<1>1. PICK h : h = ReadFields(Reader(data), PrimaryLayout)
  OBVIOUS
<1>2. /\ h.fields["word0"] = WordAt(data, 1) /\ h.fields["word1"] = WordAt(data, 3)
      /\ h.fields["data_length"] = WordAt(data, 5)
  BY <1>1, PrimaryRead
<1>3. PrimaryOf(h) = Decode(<<WordAt(data, 1), WordAt(data, 3), WordAt(data, 5)>>)
  BY <1>2, Zenon DEF PrimaryOf
<1>4. \A i \in {1, 3, 5} : i \in 1 .. Len(data) /\ i + 1 \in 1 .. Len(data)
  OBVIOUS
<1> QED
  BY <1>1, <1>3, <1>4, WordAtIsAWord

\* So can what is parsed.
LEMMA ParsedIsAnswerable ==
  ASSUME NEW data \in Seq(Octet)
  PROVE  Answerable(ParseTc(data))
<1>1. PICK primary : primary = PrimaryOf(ReadFields(Reader(data), PrimaryLayout))
  OBVIOUS
<1>2. \/ \E code : ParseTc(data) = Refused(code)
      \/ /\ ~(Len(data) < kHeaderBytes + kPusTcHeaderBytes + kCrcBytes)
         /\ \E s, o : ParseTc(data) = HandleTc(primary, s, o)
  BY <1>1, Zenon DEF ParseTc
<1>3. CASE \E code : ParseTc(data) = Refused(code)
  BY <1>3, RefusedIsSilent, Zenon
<1>4. ASSUME ~(Len(data) < kHeaderBytes + kPusTcHeaderBytes + kCrcBytes),
             NEW s, NEW o, ParseTc(data) = HandleTc(primary, s, o)
      PROVE  Answerable(ParseTc(data))
  <2>1. 6 <= Len(data)
    BY <1>4 DEF kHeaderBytes, kPusTcHeaderBytes, kCrcBytes
  <2>2. PICK x \in Word, y \in Word, z \in Word : primary = Decode(<<x, y, z>>)
    BY <1>1, <2>1, HeaderDecoded, Zenon
  <2>3. primary.apid = ApidMask(x) /\ primary.sequence_count = SeqCountMask(y)
    BY <2>2 DEF Decode
  <2>4. ApidMask(x) \in Word /\ SeqCountMask(y) \in Word
    BY DEF ApidMask, SeqCountMask, Word
  <2> QED
    BY <1>4, <2>3, <2>4, HandledIsAnswerable
<1> QED
  BY <1>2, <1>3, <1>4
=============================================================================
