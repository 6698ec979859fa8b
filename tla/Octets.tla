------------------------------- MODULE Octets -------------------------------
(***************************************************************************)
(* ByteWriter and ByteReader: big-endian fields into and out of a buffer,  *)
(* with one check at the end.  A write past the capacity and a read past   *)
(* the end change nothing, and after it no other one does either.          *)
(*                                                                         *)
(* A value of more than 16 bits is the sequence of its 16-bit words, the   *)
(* most significant first; a float is its bit pattern, as memcpy makes it. *)
(* A layout is a sequence of fields <<name, type>>.                        *)
(***************************************************************************)
EXTENDS Bits, Sequences

Width == [uint8 |-> 1, uint16 |-> 2, uint32 |-> 4, float32 |-> 4, float64 |-> 8]
Values(type) ==
  CASE Width[type] = 1 -> Octet
    [] Width[type] = 2 -> Word
    [] OTHER           -> [1 .. Width[type] \div 2 -> Word]

WordOctets(w) == <<w \div 256, w % 256>>
LongWords(n) == <<n \div 65536, n % 65536>>
OctetWord(high, low) == high * 256 + low

OctetsOf(type, v) ==
  CASE Width[type] = 1 -> <<v>>
    [] Width[type] = 2 -> WordOctets(v)
    [] OTHER -> [n \in 1 .. Width[type] |-> WordOctets(v[(n + 1) \div 2])[2 - (n % 2)]]

ValueOf(type, octets) ==
  CASE Width[type] = 1 -> octets[1]
    [] Width[type] = 2 -> OctetWord(octets[1], octets[2])
    [] OTHER -> [k \in 1 .. Width[type] \div 2 |-> OctetWord(octets[2 * k - 1], octets[2 * k])]

-----------------------------------------------------------------------------
Writer(capacity) == [data |-> <<>>, capacity |-> capacity, ok |-> TRUE]

WriteRaw(w, octets) ==
  IF w.ok /\ Len(w.data) + Len(octets) <= w.capacity
    THEN [w EXCEPT !.data = @ \o octets]
    ELSE [w EXCEPT !.ok = FALSE]

WriteFields(w, layout, values) ==
  LET written[k \in 0 .. Len(layout)] ==
        IF k = 0 THEN w
                 ELSE WriteRaw(written[k - 1], OctetsOf(layout[k][2], values[layout[k][1]]))
  IN written[Len(layout)]

With(fields, name, v) ==
  [f \in DOMAIN fields \cup {name} |-> IF f = name THEN v ELSE fields[f]]

\* A reader, with the fields read so far.
Reader(data) == [data |-> data, pos |-> 0, ok |-> TRUE, fields |-> <<>>]

ReadField(r, name, type) ==
  LET n == Width[type]
  IN IF r.ok /\ r.pos + n <= Len(r.data)
       THEN [r EXCEPT !.pos = @ + n,
                      !.fields = With(@, name, ValueOf(type, SubSeq(r.data, r.pos + 1, r.pos + n)))]
       ELSE [r EXCEPT !.ok = FALSE]

ReadFields(r, layout) ==
  LET read[k \in 0 .. Len(layout)] ==
        IF k = 0 THEN r ELSE ReadField(read[k - 1], layout[k][1], layout[k][2])
  IN read[Len(layout)]
=============================================================================
