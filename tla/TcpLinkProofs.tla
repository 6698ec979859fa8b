---------------------------- MODULE TcpLinkProofs ----------------------------
(***************************************************************************)
(* Theorems about TcpLink, for every size of the transmit queue, of the    *)
(* socket buffer and of the packets, and any number of sessions.           *)
(***************************************************************************)
EXTENDS TcpLink, SequenceTheorems, TLAPS

Byte == Nat \X Nat

\* Types, and the bounds of the two buffers.
TypeInv ==
  /\ peer \in Session \cup {NoPeer} /\ waiting \in Seq(Session)
  /\ tx_queue \in [0 .. TxQueueBytes - 1 -> Byte]
  /\ tx_head \in 0 .. TxQueueBytes - 1 /\ tx_size \in 0 .. TxQueueBytes
  /\ socket \in Seq(Byte) /\ Len(socket) <= SocketBytes
  /\ accepted \in Seq(Byte) /\ read \in Seq(Byte) /\ packets \in Nat

IInv == TypeInv /\ NothingIsLost

\* The slots of the array that `bytes` occupies from head h on.
Holds(q, h, bytes) ==
  \A k \in 1 .. Len(bytes) : bytes[k] = q[(h + k - 1) % TxQueueBytes]

-----------------------------------------------------------------------------
\* The remainder of what is less than three lengths up or two lengths down.
LEMMA Mod0 == ASSUME NEW C \in Nat \ {0}, NEW x \in 0 .. C - 1 PROVE x % C = x
BY SMT
LEMMA Mod1 == ASSUME NEW C \in Nat \ {0}, NEW x \in C .. 2 * C - 1 PROVE x % C = x - C
BY SMT
LEMMA Mod2 ==
  ASSUME NEW C \in Nat \ {0}, NEW x \in 2 * C .. 3 * C - 1 PROVE x % C = x - 2 * C
BY SMT
LEMMA ModMinus1 == ASSUME NEW C \in Nat \ {0}, NEW x \in -C .. -1 PROVE x % C = x + C
BY SMT
LEMMA ModMinus2 ==
  ASSUME NEW C \in Nat \ {0}, NEW x \in -2 * C .. -C - 1 PROVE x % C = x + 2 * C
BY SMT

\* Moving the head by n and counting j on is counting n + j on.
LEMMA HeadMoves ==
  ASSUME NEW h \in 0 .. TxQueueBytes - 1, NEW n \in 0 .. TxQueueBytes,
         NEW j \in 0 .. TxQueueBytes - 1
  PROVE  /\ (h + n) % TxQueueBytes \in 0 .. TxQueueBytes - 1
         /\ (((h + n) % TxQueueBytes) + j) % TxQueueBytes = ((h + n) + j) % TxQueueBytes
<1> DEFINE C == TxQueueBytes
<1>1. C \in Nat \ {0}
  BY TcpLinkAssumption
<1> HIDE DEF C
<1>2. h \in 0 .. C - 1 /\ n \in 0 .. C /\ j \in 0 .. C - 1
  BY DEF C
<1>3. CASE h + n < C
  <2>1. h + n \in 0 .. C - 1
    BY <1>1, <1>2, <1>3
  <2>2. (h + n) % C = h + n
    BY <1>1, <2>1, Mod0
  <2> QED
    BY <2>1, <2>2 DEF C
<1>4. CASE h + n >= C
  <2>1. h + n \in C .. 2 * C - 1 /\ (h + n) - C \in 0 .. C - 1
    BY <1>1, <1>2, <1>4
  <2>2. (h + n) % C = (h + n) - C
    BY <1>1, <2>1, Mod1
  <2>3. CASE (h + n) + j < 2 * C
    <3>1. (h + n) + j \in C .. 2 * C - 1 /\ ((h + n) - C) + j \in 0 .. C - 1
      BY <1>1, <1>2, <1>4, <2>3
    <3>2. ((h + n) + j) % C = ((h + n) + j) - C
      BY <1>1, <3>1, Mod1
    <3>3. (((h + n) - C) + j) % C = ((h + n) - C) + j
      BY <1>1, <3>1, Mod0
    <3>4. ((h + n) + j) - C = ((h + n) - C) + j
      BY <1>1, <1>2
    <3> QED
      BY <2>1, <2>2, <3>2, <3>3, <3>4 DEF C
  <2>4. CASE (h + n) + j >= 2 * C
    <3>1. (h + n) + j \in 2 * C .. 3 * C - 1 /\ ((h + n) - C) + j \in C .. 2 * C - 1
      BY <1>1, <1>2, <2>4
    <3>2. ((h + n) + j) % C = ((h + n) + j) - 2 * C
      BY <1>1, <3>1, Mod2
    <3>3. (((h + n) - C) + j) % C = (((h + n) - C) + j) - C
      BY <1>1, <3>1, Mod1
    <3>4. ((h + n) + j) - 2 * C = (((h + n) - C) + j) - C
      BY <1>1, <1>2
    <3> QED
      BY <2>1, <2>2, <3>2, <3>3, <3>4 DEF C
  <2> QED
    BY <1>1, <1>2, <2>3, <2>4
<1> QED
  BY <1>1, <1>2, <1>3, <1>4

\* The slot j steps behind the head, seen from the tail, which is s steps behind it.
LEMMA SeenFromTheTail ==
  ASSUME NEW h \in 0 .. TxQueueBytes - 1, NEW s \in 0 .. TxQueueBytes,
         NEW j \in 0 .. TxQueueBytes - 1
  PROVE  /\ (h + j) % TxQueueBytes \in 0 .. TxQueueBytes - 1
         /\ (((h + j) % TxQueueBytes) - h - s) % TxQueueBytes
              = IF j < s THEN (j - s) + TxQueueBytes ELSE j - s
<1> DEFINE C == TxQueueBytes
<1>1. C \in Nat \ {0}
  BY TcpLinkAssumption
<1> HIDE DEF C
<1>2. h \in 0 .. C - 1 /\ s \in 0 .. C /\ j \in 0 .. C - 1
  BY DEF C
<1>3. \E i \in 0 .. C - 1 : (h + j) % C = i /\ (i = h + j \/ i = (h + j) - C)
  <2>1. CASE h + j < C
    <3>1. h + j \in 0 .. C - 1
      BY <1>1, <1>2, <2>1
    <3> QED
      BY <1>1, <3>1, Mod0
  <2>2. CASE h + j >= C
    <3>1. h + j \in C .. 2 * C - 1 /\ (h + j) - C \in 0 .. C - 1
      BY <1>1, <1>2, <2>2
    <3> QED
      BY <1>1, <3>1, Mod1
  <2> QED
    BY <1>1, <1>2, <2>1, <2>2
<1>4. PICK i \in 0 .. C - 1 : (h + j) % C = i /\ (i = h + j \/ i = (h + j) - C)
  BY <1>3
<1>5. PICK x \in Int : x = i - h - s
  BY <1>1, <1>2
<1>6. x % C = IF j < s THEN (j - s) + C ELSE j - s
  <2>1. CASE j < s /\ i = h + j
    <3>1. x \in -C .. -1 /\ x + C = (j - s) + C
      BY <1>1, <1>2, <1>5, <2>1
    <3> QED
      BY <1>1, <2>1, <3>1, ModMinus1
  <2>2. CASE j < s /\ i = (h + j) - C
    <3>1. x \in -2 * C .. -C - 1 /\ x + 2 * C = (j - s) + C
      BY <1>1, <1>2, <1>5, <2>2
    <3> QED
      BY <1>1, <2>2, <3>1, ModMinus2
  <2>3. CASE ~(j < s) /\ i = h + j
    <3>1. x \in 0 .. C - 1 /\ x = j - s
      BY <1>1, <1>2, <1>5, <2>3
    <3> QED
      BY <1>1, <2>3, <3>1, Mod0
  <2>4. CASE ~(j < s) /\ i = (h + j) - C
    <3>1. x \in -C .. -1 /\ x + C = j - s
      BY <1>1, <1>2, <1>5, <2>4
    <3> QED
      BY <1>1, <2>4, <3>1, ModMinus1
  <2> QED
    BY <1>4, <2>1, <2>2, <2>3, <2>4
<1> QED
  BY <1>4, <1>5, <1>6 DEF C

-----------------------------------------------------------------------------
\* Bytes can be taken over piece by piece: brackets around pieces do not matter.
LEMMA Reassociate ==
  ASSUME NEW a \in Seq(Byte), NEW b \in Seq(Byte), NEW c \in Seq(Byte)
  PROVE  (a \o b) \o c = a \o (b \o c)
BY ConcatAssociative

LEMMA QueuedIsHeld ==
  ASSUME TypeInv
  PROVE  /\ Queued \in Seq(Byte) /\ Len(Queued) = tx_size
         /\ Holds(tx_queue, tx_head, Queued)
<1> DEFINE q == Queued
<1>1. TxQueueBytes \in Nat \ {0} /\ tx_size \in Nat
  BY TcpLinkAssumption DEF TypeInv
<1>2. \A k \in 1 .. tx_size : (tx_head + k - 1) % TxQueueBytes \in 0 .. TxQueueBytes - 1
  BY <1>1 DEF TypeInv
<1>3. q = [k \in 1 .. tx_size |-> tx_queue[(tx_head + k - 1) % TxQueueBytes]]
  BY DEF Queued
<1> HIDE DEF q
<1>4. \A k \in 1 .. tx_size : q[k] \in Byte
  BY <1>2, <1>3 DEF TypeInv
<1>5. q \in Seq(Byte) /\ Len(q) = tx_size
  BY <1>1, <1>3, <1>4
<1>6. Holds(tx_queue, tx_head, q)
  BY <1>1, <1>3, <1>5 DEF Holds
<1> QED
  BY <1>5, <1>6 DEF q

\* Behind n bytes the array holds the rest, from n slots further on.
LEMMA RestIsHeld ==
  ASSUME NEW q, NEW h \in 0 .. TxQueueBytes - 1, NEW bytes \in Seq(Byte),
         Len(bytes) <= TxQueueBytes, Holds(q, h, bytes), NEW n \in 0 .. Len(bytes)
  PROVE  /\ SubSeq(bytes, n + 1, Len(bytes)) \in Seq(Byte)
         /\ Len(SubSeq(bytes, n + 1, Len(bytes))) = Len(bytes) - n
         /\ (h + n) % TxQueueBytes \in 0 .. TxQueueBytes - 1
         /\ Holds(q, (h + n) % TxQueueBytes, SubSeq(bytes, n + 1, Len(bytes)))
<1> DEFINE rest == SubSeq(bytes, n + 1, Len(bytes))
<1>1. Len(bytes) \in Nat /\ TxQueueBytes \in Nat \ {0} /\ n \in 0 .. TxQueueBytes
  BY TcpLinkAssumption
<1>2. /\ rest \in Seq(Byte) /\ Len(rest) = Len(bytes) - n
      /\ \A k \in 1 .. Len(bytes) - n : rest[k] = bytes[n + k]
  BY <1>1
<1> HIDE DEF rest
<1>3. (h + n) % TxQueueBytes \in 0 .. TxQueueBytes - 1
  BY <1>1, HeadMoves, 0 \in 0 .. TxQueueBytes - 1
<1>4. ASSUME NEW k \in 1 .. Len(rest)
      PROVE  rest[k] = q[(((h + n) % TxQueueBytes) + k - 1) % TxQueueBytes]
  <2>1. k - 1 \in 0 .. TxQueueBytes - 1 /\ n + k \in 1 .. Len(bytes)
    BY <1>1, <1>2
  <2>2. (((h + n) % TxQueueBytes) + (k - 1)) % TxQueueBytes
          = ((h + n) + (k - 1)) % TxQueueBytes
    BY <1>1, <2>1, HeadMoves
  <2>3. /\ ((h + n) % TxQueueBytes) + (k - 1) = ((h + n) % TxQueueBytes) + k - 1
        /\ (h + n) + (k - 1) = h + (n + k) - 1
    BY <1>1, <1>3
  <2>4. bytes[n + k] = q[(h + (n + k) - 1) % TxQueueBytes]
    BY <2>1 DEF Holds
  <2> QED
    BY <1>2, <2>2, <2>3, <2>4
<1> QED
  BY <1>2, <1>3, <1>4 DEF rest, Holds

\* flush_tx() moves bytes from the queue to the socket, or closes the peer.
LEMMA FlushEffect ==
  ASSUME TypeInv, NEW bytes \in Seq(Byte), Len(bytes) <= TxQueueBytes,
         tx_queue' \in [0 .. TxQueueBytes - 1 -> Byte],
         Holds(tx_queue', tx_head, bytes), Flush(tx_head, bytes)
  PROVE  /\ tx_head' \in 0 .. TxQueueBytes - 1 /\ tx_size' \in 0 .. TxQueueBytes
         /\ socket' \in Seq(Byte) /\ Len(socket') <= SocketBytes
         /\ \/ peer' = peer /\ Queued' \in Seq(Byte) /\ socket' \o Queued' = socket \o bytes
            \/ connected /\ peer' = NoPeer
<1>1. /\ TxQueueBytes \in Nat \ {0} /\ SocketBytes \in Nat \ {0} /\ Len(bytes) \in Nat
      /\ tx_head \in 0 .. TxQueueBytes - 1
      /\ socket \in Seq(Byte) /\ Len(socket) \in Nat /\ Len(socket) <= SocketBytes
  BY TcpLinkAssumption DEF TypeInv
<1>2. CASE connected /\ ClosePeer /\ ForgetQueue /\ socket' = <<>>
  BY <1>1, <1>2 DEF ClosePeer, ForgetQueue
<1> DEFINE room == SocketBytes - Len(socket)
           n == IF Len(bytes) < room THEN Len(bytes) ELSE room
<1>3. CASE /\ socket' = socket \o SubSeq(bytes, 1, n)
           /\ tx_head' = (tx_head + n) % TxQueueBytes
           /\ tx_size' = Len(bytes) - n
           /\ peer' = peer
  <2>1. n \in 0 .. Len(bytes) /\ n <= SocketBytes - Len(socket)
    BY <1>1
  <2> HIDE DEF n
  <2>2. PICK first \in Seq(Byte) : first = SubSeq(bytes, 1, n) /\ Len(first) = n
    <3>1. SubSeq(bytes, 1, n) \in Seq(Byte) /\ Len(SubSeq(bytes, 1, n)) = n
      BY <1>1, <2>1
    <3> QED
      BY <3>1
  <2>3. PICK rest \in Seq(Byte) :
          /\ rest = SubSeq(bytes, n + 1, Len(bytes)) /\ Len(rest) = Len(bytes) - n
          /\ tx_head' \in 0 .. TxQueueBytes - 1 /\ Holds(tx_queue', tx_head', rest)
    BY <1>1, <1>3, <2>1, RestIsHeld
  <2>4. first \o rest = bytes
    <3>1. /\ 1 \in 1 .. Len(bytes) + 1 /\ n \in 1 - 1 .. Len(bytes)
          /\ Len(bytes) \in n .. Len(bytes)
      BY <1>1, <2>1
    <3>2. first \o rest = SubSeq(bytes, 1, Len(bytes))
      BY <2>2, <2>3, <3>1, ConcatAdjacentSubSeq
    <3> QED
      BY <3>2, SubSeqFull
  <2>5. socket' = socket \o first /\ tx_size' = Len(rest)
    BY <1>3, <2>2, <2>3
  <2>6. Queued' = rest
    <3>1. \A k \in 1 .. Len(rest) : rest[k] = tx_queue'[(tx_head' + k - 1) % TxQueueBytes]
      BY <2>3 DEF Holds
    <3>2. Queued' = [k \in 1 .. tx_size' |-> tx_queue'[(tx_head' + k - 1) % TxQueueBytes]]
      BY DEF Queued
    <3>3. rest \in [1 .. Len(rest) -> Byte]
      OBVIOUS
    <3> QED
      BY <2>5, <3>1, <3>2, <3>3
  <2>7. socket' \in Seq(Byte) /\ Len(socket') = Len(socket) + n
    BY <1>1, <2>2, <2>5, ConcatProperties
  <2>8. socket' \o Queued' = socket \o bytes
    <3>1. (socket \o first) \o rest = socket \o (first \o rest)
      BY <1>1, ConcatAssociative, SMTT(30)
    <3> QED
      BY <2>4, <2>5, <2>6, <3>1
  <2>9. tx_size' \in 0 .. TxQueueBytes
    BY <1>1, <1>3, <2>1
  <2>10. Len(socket') <= SocketBytes
    BY <1>1, <2>1, <2>7
  <2> QED
    BY <1>3, <2>3, <2>6, <2>7, <2>8, <2>9, <2>10
<1> QED
  BY <1>2, <1>3 DEF Flush

-----------------------------------------------------------------------------
LEMMA InitInv == Init => IInv
<1> SUFFICES ASSUME Init PROVE IInv
  OBVIOUS
<1>1. <<>> \in Seq(Byte) /\ <<>> \in Seq(Session) /\ Len(<<>>) = 0
  OBVIOUS
<1>2. TxQueueBytes \in Nat \ {0} /\ SocketBytes \in Nat \ {0} /\ NoByte \in Byte
  BY TcpLinkAssumption DEF NoByte, Byte
<1>3. peer = NoPeer /\ waiting = <<>>
  BY DEF Init, SessionsInit
<1>4. TypeInv
  BY <1>1, <1>2, <1>3 DEF Init, TypeInv
<1>5. NothingIsLost
  BY <1>3 DEF NothingIsLost, connected
<1> QED
  BY <1>4, <1>5 DEF IInv

\* The connections that are taken are the ground's.
LEMMA WaitingStays ==
  ASSUME TypeInv
  PROVE  /\ NobodyWaits \/ RefuseSecond => waiting' \in Seq(Session)
         /\ AcceptPeer => waiting' \in Seq(Session) /\ peer' \in Session
<1> USE DEF TypeInv
<1>1. NobodyWaits => waiting' \in Seq(Session)
  BY DEF NobodyWaits
<1>2. RefuseSecond => waiting' \in Seq(Session)
  BY DEF RefuseSecond
<1>3. AcceptPeer => waiting' \in Seq(Session) /\ peer' \in Session
  BY DEF AcceptPeer
<1> QED
  BY <1>1, <1>2, <1>3

LEMMA PollStep ==
  ASSUME IInv, Poll
  PROVE  IInv' /\ (peer' = peer \/ (connected /\ peer' = NoPeer))
<1>1. /\ TypeInv /\ NothingIsLost /\ Flush(tx_head, Queued)
      /\ UNCHANGED <<tx_queue, packets, accepted, read>>
  BY DEF IInv, Poll
<1>2. /\ Queued \in Seq(Byte) /\ Len(Queued) <= TxQueueBytes
      /\ Holds(tx_queue', tx_head, Queued)
      /\ tx_queue' \in [0 .. TxQueueBytes - 1 -> Byte]
  BY <1>1, QueuedIsHeld, TcpLinkAssumption DEF TypeInv, Holds
<1>3. /\ tx_head' \in 0 .. TxQueueBytes - 1 /\ tx_size' \in 0 .. TxQueueBytes
      /\ socket' \in Seq(Byte) /\ Len(socket') <= SocketBytes
      /\ \/ peer' = peer /\ Queued' \in Seq(Byte) /\ socket' \o Queued' = socket \o Queued
         \/ connected /\ peer' = NoPeer
  BY <1>1, <1>2, FlushEffect
<1>4. TypeInv'
  BY <1>1, <1>2, <1>3, WaitingStays DEF Poll, TypeInv
<1>5. NothingIsLost'
  <2>1. CASE peer' = NoPeer
    BY <2>1 DEF NothingIsLost, connected
  <2>2. CASE /\ peer' = peer /\ peer # NoPeer /\ Queued' \in Seq(Byte)
             /\ socket' \o Queued' = socket \o Queued
    <3>1. (read \o socket) \o Queued = read \o (socket \o Queued)
      BY <1>1, <1>2, ConcatAssociative, SMTT(30) DEF TypeInv
    <3>2. (read \o socket') \o Queued' = read \o (socket' \o Queued')
      <4>1. read \in Seq(Byte) /\ socket' \in Seq(Byte) /\ Queued' \in Seq(Byte)
        BY <1>1, <1>3, <2>2 DEF TypeInv
      <4> QED
        BY <4>1, Reassociate
    <3>3. accepted = (read \o socket) \o Queued
      BY <1>1, <2>2 DEF NothingIsLost, connected
    <3>4. accepted' = (read' \o socket') \o Queued'
      BY <1>1, <2>2, <3>1, <3>2, <3>3
    <3> QED
      BY <3>4 DEF NothingIsLost
  <2> QED
    BY <1>3, <2>1, <2>2
<1>6. peer' = peer \/ (connected /\ peer' = NoPeer)
  BY <1>3
<1> QED
  BY <1>4, <1>5, <1>6, Zenon DEF IInv

\* A packet that fits is queued behind what is queued already.
LEMMA PacketIsHeld ==
  ASSUME TypeInv, NEW n \in Nat, FitsQueue(n), NEW p \in Seq(Byte), Len(p) = n,
         tx_queue' = [i \in DOMAIN tx_queue |->
                        LET k == (i - tx_head - tx_size) % TxQueueBytes
                        IN IF k < n THEN p[k + 1] ELSE tx_queue[i]]
  PROVE  /\ tx_queue' \in [0 .. TxQueueBytes - 1 -> Byte]
         /\ Queued \o p \in Seq(Byte) /\ Len(Queued \o p) <= TxQueueBytes
         /\ Holds(tx_queue', tx_head, Queued \o p)
<1>1. /\ TxQueueBytes \in Nat \ {0} /\ tx_size \in 0 .. TxQueueBytes
      /\ tx_head \in 0 .. TxQueueBytes - 1 /\ tx_size + n <= TxQueueBytes
      /\ tx_queue \in [0 .. TxQueueBytes - 1 -> Byte]
  BY TcpLinkAssumption DEF TypeInv, FitsQueue
<1> DEFINE at(i) == (i - tx_head - tx_size) % TxQueueBytes
<1>2. \A i \in 0 .. TxQueueBytes - 1 :
        /\ at(i) \in Nat
        /\ tx_queue'[i] = IF at(i) < n THEN p[at(i) + 1] ELSE tx_queue[i]
  BY <1>1
<1>3. tx_queue' \in [0 .. TxQueueBytes - 1 -> Byte]
  <2>1. \A i \in 0 .. TxQueueBytes - 1 : tx_queue'[i] \in Byte
    BY <1>1, <1>2
  <2>2. tx_queue' = [i \in 0 .. TxQueueBytes - 1 |-> tx_queue'[i]]
    BY <1>1
  <2> HIDE DEF at
  <2> QED
    BY <2>1, <2>2
<1> DEFINE bytes == Queued \o p
<1>4. /\ Queued \in Seq(Byte) /\ Len(Queued) = tx_size
      /\ Holds(tx_queue, tx_head, Queued)
  BY QueuedIsHeld
<1>5. /\ bytes \in Seq(Byte) /\ Len(bytes) = tx_size + n
      /\ \A k \in 1 .. tx_size + n :
           bytes[k] = IF k <= tx_size THEN Queued[k] ELSE p[k - tx_size]
  BY <1>4, ConcatProperties
<1> HIDE DEF bytes, at
<1>6. ASSUME NEW k \in 1 .. tx_size + n
      PROVE  bytes[k] = tx_queue'[(tx_head + k - 1) % TxQueueBytes]
  <2>1. k - 1 \in 0 .. TxQueueBytes - 1 /\ tx_head + (k - 1) = tx_head + k - 1
    BY <1>1
  <2>2. PICK i \in 0 .. TxQueueBytes - 1 :
          /\ i = (tx_head + (k - 1)) % TxQueueBytes
          /\ at(i) = IF k - 1 < tx_size THEN ((k - 1) - tx_size) + TxQueueBytes
                     ELSE (k - 1) - tx_size
    BY <1>1, <2>1, SeenFromTheTail DEF at
  <2>3. CASE k <= tx_size
    <3>1. ~(at(i) < n)
      BY <1>1, <2>2, <2>3
    <3>2. tx_queue'[i] = tx_queue[i]
      BY <1>2, <3>1
    <3>3. Queued[k] = tx_queue[(tx_head + k - 1) % TxQueueBytes]
      BY <1>1, <1>4, <2>3 DEF Holds
    <3> QED
      BY <1>5, <2>1, <2>2, <2>3, <3>2, <3>3
  <2>4. CASE ~(k <= tx_size)
    <3>1. at(i) < n /\ at(i) + 1 = k - tx_size
      BY <1>1, <2>2, <2>4
    <3>2. tx_queue'[i] = p[k - tx_size]
      BY <1>2, <3>1
    <3> QED
      BY <1>5, <2>1, <2>2, <2>4, <3>2
  <2> QED
    BY <2>3, <2>4
<1>7. Len(bytes) <= TxQueueBytes /\ Holds(tx_queue', tx_head, bytes)
  BY <1>1, <1>5, <1>6 DEF Holds
<1> QED
  BY <1>3, <1>5, <1>7 DEF bytes

LEMMA PacketIsTyped ==
  ASSUME NEW id \in Nat, NEW n \in Nat
  PROVE  Packet(id, n) \in Seq(Byte) /\ Len(Packet(id, n)) = n
<1> DEFINE p == Packet(id, n)
<1>1. p = [k \in 1 .. n |-> <<id, k>>]
  BY DEF Packet
<1>2. \A k \in 1 .. n : <<id, k>> \in Byte
  BY DEF Byte
<1> HIDE DEF p
<1>3. p \in Seq(Byte) /\ Len(p) = n
  BY <1>1, <1>2
<1> QED
  BY <1>3 DEF p

LEMMA SendStep ==
  ASSUME IInv, NEW n \in PacketSizes, SendQueues(n)
  PROVE  IInv' /\ peer' \in {peer, NoPeer}
<1> DEFINE p == Packet(packets + 1, n)
<1>1. /\ TypeInv /\ NothingIsLost /\ connected /\ FitsQueue(n)
      /\ Flush(tx_head, Queued \o p) /\ accepted' = accepted \o p
      /\ tx_queue' = [i \in DOMAIN tx_queue |->
                        LET k == (i - tx_head - tx_size) % TxQueueBytes
                        IN IF k < n THEN p[k + 1] ELSE tx_queue[i]]
      /\ packets' = packets + 1 /\ UNCHANGED <<waiting, read>>
  BY DEF IInv, SendQueues
<1>2. n \in Nat /\ p \in Seq(Byte) /\ Len(p) = n /\ Queued \in Seq(Byte)
  BY <1>1, TcpLinkAssumption, PacketIsTyped, QueuedIsHeld DEF TypeInv
<1> HIDE DEF p
<1>3. /\ tx_queue' \in [0 .. TxQueueBytes - 1 -> Byte]
      /\ Queued \o p \in Seq(Byte) /\ Len(Queued \o p) <= TxQueueBytes
      /\ Holds(tx_queue', tx_head, Queued \o p)
  BY <1>1, <1>2, PacketIsHeld
<1>4. /\ tx_head' \in 0 .. TxQueueBytes - 1 /\ tx_size' \in 0 .. TxQueueBytes
      /\ socket' \in Seq(Byte) /\ Len(socket') <= SocketBytes
      /\ \/ /\ peer' = peer /\ Queued' \in Seq(Byte)
            /\ socket' \o Queued' = socket \o (Queued \o p)
         \/ peer' = NoPeer
  BY <1>1, <1>3, FlushEffect
<1>5. TypeInv'
  <2>1. accepted' \in Seq(Byte)
    BY <1>1, <1>2 DEF TypeInv
  <2> QED
    BY <1>1, <1>3, <1>4, <2>1, SMTT(30) DEF TypeInv
<1>6. NothingIsLost'
  <2>1. CASE peer' = NoPeer
    BY <2>1 DEF NothingIsLost, connected
  <2>2. CASE /\ peer' = peer /\ Queued' \in Seq(Byte)
             /\ socket' \o Queued' = socket \o (Queued \o p)
    <3>1. /\ read \in Seq(Byte) /\ socket \in Seq(Byte) /\ Queued \in Seq(Byte)
          /\ socket' \in Seq(Byte) /\ Queued' \in Seq(Byte) /\ p \in Seq(Byte)
      BY <1>1, <1>2, <1>3, <1>4, <2>2 DEF TypeInv
    <3>2. ((read \o socket) \o Queued) \o p = (read \o socket) \o (Queued \o p)
      <4>1. read \o socket \in Seq(Byte)
        BY <3>1, ConcatProperties
      <4> QED
        BY <3>1, <4>1, Reassociate, ZenonT(30)
    <3>3. (read \o socket) \o (Queued \o p) = read \o (socket \o (Queued \o p))
      <4>1. Queued \o p \in Seq(Byte) /\ read \in Seq(Byte) /\ socket \in Seq(Byte)
        BY <1>3, <3>1
      <4> QED
        BY <4>1, Reassociate
    <3>4. (read \o socket') \o Queued' = read \o (socket' \o Queued')
      <4>1. read \in Seq(Byte) /\ socket' \in Seq(Byte) /\ Queued' \in Seq(Byte)
        BY <3>1
      <4> QED
        BY <4>1, Reassociate
    <3>5. accepted = (read \o socket) \o Queued
      BY <1>1 DEF NothingIsLost
    <3>6. accepted' = (read' \o socket') \o Queued'
      BY <1>1, <2>2, <3>2, <3>3, <3>4, <3>5
    <3> QED
      BY <3>6 DEF NothingIsLost
  <2> QED
    BY <1>4, <2>1, <2>2
<1>7. peer' \in {peer, NoPeer}
  BY <1>4
<1> QED
  BY <1>5, <1>6, <1>7, Zenon DEF IInv

LEMMA AcceptStep ==
  ASSUME IInv, PollAccepts
  PROVE  IInv' /\ peer' \in Session
<1>1. <<>> \in Seq(Byte) /\ Len(<<>>) = 0
  OBVIOUS
<1>2. /\ tx_head' = 0 /\ tx_size' = 0 /\ socket' = <<>> /\ accepted' = <<>> /\ read' = <<>>
      /\ UNCHANGED <<tx_queue, packets>> /\ AcceptPeer /\ TypeInv
  BY DEF IInv, PollAccepts, ForgetQueue
<1>3. waiting' \in Seq(Session) /\ peer' \in Session
  BY <1>2, WaitingStays
<1>4. TypeInv'
  BY <1>1, <1>2, <1>3, TcpLinkAssumption DEF TypeInv
<1>5. Queued' = <<>>
  BY <1>2 DEF Queued
<1>6. NothingIsLost'
  BY <1>2, <1>5 DEF NothingIsLost
<1> QED
  BY <1>3, <1>4, <1>6 DEF IInv

LEMMA ReceiveStep ==
  ASSUME IInv, Receive
  PROVE  IInv' /\ connected /\ peer' = NoPeer
<1>1. <<>> \in Seq(Byte) /\ Len(<<>>) = 0
  OBVIOUS
<1>2. /\ tx_head' = 0 /\ tx_size' = 0 /\ socket' = <<>> /\ connected /\ peer' = NoPeer
      /\ UNCHANGED <<waiting, tx_queue, packets, accepted, read>> /\ TypeInv
  BY DEF IInv, Receive, RecvClosed, ClosePeer, ForgetQueue
<1>3. TypeInv'
  BY <1>1, <1>2, TcpLinkAssumption DEF TypeInv
<1>4. NothingIsLost'
  BY <1>2 DEF NothingIsLost, connected
<1> QED
  BY <1>2, <1>3, <1>4 DEF IInv

\* What the ground reads is the next part of what was accepted.
LEMMA ReadStep ==
  ASSUME IInv, GroundRead
  PROVE  /\ IInv' /\ peer # NoPeer /\ UNCHANGED <<peer, accepted>>
         /\ \E m \in Len(read) + 1 .. Len(accepted) : read' = SubSeq(accepted, 1, m)
<1>1. PICK n \in 1 .. Len(socket) :
        read' = read \o SubSeq(socket, 1, n) /\ socket' = SubSeq(socket, n + 1, Len(socket))
  BY DEF GroundRead
<1>2. /\ TypeInv /\ NothingIsLost /\ connected
      /\ UNCHANGED <<peer, waiting, tx_queue, tx_head, tx_size, packets, accepted>>
  BY DEF IInv, GroundRead, connections
<1>3. /\ read \in Seq(Byte) /\ socket \in Seq(Byte) /\ accepted \in Seq(Byte)
      /\ Queued \in Seq(Byte) /\ Len(read) \in Nat /\ Len(socket) \in Nat
      /\ Len(Queued) \in Nat /\ accepted = (read \o socket) \o Queued
  BY <1>2, QueuedIsHeld, SMTT(30) DEF TypeInv, NothingIsLost
<1>4. PICK first \in Seq(Byte) : first = SubSeq(socket, 1, n) /\ Len(first) = n
  <2>1. SubSeq(socket, 1, n) \in Seq(Byte) /\ Len(SubSeq(socket, 1, n)) = n
    BY <1>3
  <2> QED
    BY <2>1
<1>5. /\ socket' \in Seq(Byte) /\ Len(socket') = Len(socket) - n
      /\ first \o socket' = socket
  <2>1. SubSeq(socket, n + 1, Len(socket)) \in Seq(Byte)
        /\ Len(SubSeq(socket, n + 1, Len(socket))) = Len(socket) - n
    BY <1>3
  <2>2. /\ 1 \in 1 .. Len(socket) + 1 /\ n \in 1 - 1 .. Len(socket)
        /\ Len(socket) \in n .. Len(socket)
    BY <1>3
  <2>3. SubSeq(socket, 1, n) \o SubSeq(socket, n + 1, Len(socket)) = SubSeq(socket, 1, Len(socket))
    BY <1>3, <2>2, ConcatAdjacentSubSeq
  <2>4. SubSeq(socket, 1, Len(socket)) = socket
    BY <1>3, SubSeqFull
  <2> QED
    BY <1>1, <1>4, <2>1, <2>3, <2>4
<1>6. read' = read \o first /\ read' \in Seq(Byte) /\ Len(read') = Len(read) + n
  BY <1>1, <1>3, <1>4, ConcatProperties
<1>7. TypeInv'
  <2>1. Len(socket') <= SocketBytes
    BY <1>2, <1>3, <1>5, TcpLinkAssumption DEF TypeInv
  <2> QED
    BY <1>2, <1>5, <1>6, <2>1 DEF TypeInv
<1>8. Queued' = Queued
  BY <1>2 DEF Queued
<1>9. PICK rest \in Seq(Byte) :
        rest = socket' \o Queued /\ accepted = read' \o rest
              /\ accepted = (read' \o socket') \o Queued
  <2>1. /\ read \in Seq(Byte) /\ socket \in Seq(Byte) /\ Queued \in Seq(Byte)
        /\ first \in Seq(Byte) /\ socket' \in Seq(Byte) /\ read' \in Seq(Byte)
    BY <1>3, <1>5, <1>6
  <2>2. socket' \o Queued \in Seq(Byte)
    BY <2>1, ConcatProperties
  <2>3. (first \o socket') \o Queued = first \o (socket' \o Queued)
    BY <2>1, Reassociate, Zenon
  <2>4. (read \o socket) \o Queued = read \o (socket \o Queued)
    <3>1. read \in Seq(Byte) /\ socket \in Seq(Byte) /\ Queued \in Seq(Byte)
      BY <2>1
    <3> QED
      BY <3>1, Reassociate
  <2>5. (read \o first) \o (socket' \o Queued) = read \o (first \o (socket' \o Queued))
    <3>1. read \in Seq(Byte) /\ first \in Seq(Byte)
      BY <2>1
    <3> QED
      BY <3>1, <2>2, Reassociate
  <2>6. (read' \o socket') \o Queued = read' \o (socket' \o Queued)
    BY <2>1, Reassociate, ZenonT(30)
  <2>7. /\ accepted = (read \o socket) \o Queued /\ first \o socket' = socket
        /\ read' = read \o first
    BY <1>3, <1>5, <1>6
  <2> QED
    BY <2>2, <2>3, <2>4, <2>5, <2>6, <2>7, Zenon
<1>10. NothingIsLost'
  BY <1>2, <1>8, <1>9 DEF NothingIsLost
<1>11. \E m \in Len(read) + 1 .. Len(accepted) : read' = SubSeq(accepted, 1, m)
  <2>1. Len(rest) \in Nat /\ Len(accepted) = Len(read') + Len(rest)
    <3>1. accepted = read' \o rest /\ read' \in Seq(Byte)
      BY <1>6, <1>9
    <3> QED
      BY <3>1, ConcatProperties
  <2>2. Len(read') \in 1 .. Len(read') /\ 1 \in 1 .. Len(read')
    BY <1>3, <1>6
  <2>3. SubSeq(read' \o rest, 1, Len(read')) = SubSeq(read', 1, Len(read'))
    BY <1>6, <2>2, SubSeqOfConcat1
  <2>4. SubSeq(read', 1, Len(read')) = read'
    BY <1>6, SubSeqFull
  <2>5. Len(read') \in Len(read) + 1 .. Len(accepted)
    BY <1>3, <1>6, <2>1
  <2> QED
    BY <1>9, <2>3, <2>4, <2>5
<1> QED
  BY <1>2, <1>7, <1>10, <1>11 DEF IInv, connected

-----------------------------------------------------------------------------
\* A step of the link is one of the channel, or leaves the channel as it is.
LEMMA StepFacts ==
  ASSUME IInv, [Next]_vars
  PROVE  IInv' /\ [Channel!Next]_(Channel!channel)
<1>1. CASE Poll
  <2>1. UNCHANGED <<accepted, read>>
    BY <1>1 DEF Poll
  <2>2. IInv' /\ (peer' = peer \/ (connected /\ peer' = NoPeer))
    BY <1>1, PollStep
  <2> QED
    BY <2>1, <2>2 DEF Channel!Next, Channel!Drop, Channel!channel, connected
<1>2. CASE PollAccepts
  <2>1. accepted' = <<>> /\ read' = <<>> /\ peer = NoPeer
    BY <1>2 DEF PollAccepts, AcceptPeer, connected
  <2>2. IInv' /\ peer' \in Session
    BY <1>2, AcceptStep
  <2> QED
    BY <2>1, <2>2 DEF Channel!Next, Channel!Connect
<1>3. CASE Receive
  <2>1. UNCHANGED <<accepted, read>>
    BY <1>3 DEF Receive
  <2>2. IInv' /\ connected /\ peer' = NoPeer
    BY <1>3, ReceiveStep
  <2> QED
    BY <2>1, <2>2 DEF Channel!Next, Channel!Drop, connected
<1>4. CASE GroundRead
  <2>1. /\ IInv' /\ peer # NoPeer /\ UNCHANGED <<peer, accepted>>
        /\ \E m \in Len(read) + 1 .. Len(accepted) : read' = SubSeq(accepted, 1, m)
    BY <1>4, ReadStep
  <2> QED
    BY <2>1 DEF Channel!Next, Channel!Read
<1>5. ASSUME NEW octets \in PacketSizes, SendQueues(octets)
      PROVE  IInv' /\ [Channel!Next]_(Channel!channel)
  <2>1. IInv' /\ peer' \in {peer, NoPeer}
    BY <1>5, SendStep
  <2>2. /\ connected /\ packets < MaxPackets /\ accepted' = accepted \o Packet(packets + 1, octets)
        /\ UNCHANGED read
    BY <1>5 DEF SendQueues
  <2>3. packets + 1 \in 1 .. MaxPackets
    BY <2>2, TcpLinkAssumption DEF IInv, TypeInv
  <2>4. Channel!Send
    <3>1. /\ octets \in PacketSizes /\ accepted' = accepted \o Packet(packets + 1, octets)
          /\ peer # NoPeer /\ peer' \in {peer, NoPeer} /\ read' = read
      BY <2>1, <2>2 DEF connected
    <3> QED
      BY <2>3, <3>1, SMTT(30) DEF Channel!Send
  <2> QED
    BY <2>1, <2>4 DEF Channel!Next
<1>6. ASSUME NEW n \in PacketSizes, SendRefuses(n)
      PROVE  IInv' /\ [Channel!Next]_(Channel!channel)
  <2>1. /\ packets' = packets + 1
        /\ UNCHANGED <<peer, waiting, tx_queue, tx_head, tx_size, socket, accepted, read>>
    BY <1>6 DEF SendRefuses, connections
  <2>2. TypeInv' /\ Queued' = Queued
    BY <2>1 DEF IInv, TypeInv, Queued
  <2> QED
    BY <2>1, <2>2 DEF IInv, NothingIsLost, connected, Channel!channel
<1>7. CASE Ground /\ UNCHANGED transmit
  <2>1. UNCHANGED <<tx_queue, tx_head, tx_size, socket, packets, accepted, read>>
    BY <1>7 DEF transmit
  <2>2. UNCHANGED peer /\ waiting' \in Seq(Session)
    <3>1. PICK s \in Session : GroundConnect(s) \/ GroundClose(s)
      BY <1>7 DEF Ground
    <3>2. CASE GroundConnect(s)
      BY <3>2 DEF GroundConnect, IInv, TypeInv
    <3>3. CASE GroundClose(s)
      BY <3>3 DEF GroundClose, IInv, TypeInv
    <3> QED
      BY <3>1, <3>2, <3>3
  <2>3. TypeInv' /\ Queued' = Queued
    BY <2>1, <2>2 DEF IInv, TypeInv, Queued
  <2> QED
    BY <2>1, <2>2, <2>3 DEF IInv, NothingIsLost, connected, Channel!channel
<1>8. CASE UNCHANGED vars
  <2>1. UNCHANGED <<peer, waiting, tx_queue, tx_head, tx_size, socket, packets, accepted, read>>
    BY <1>8 DEF vars, transmit, connections
  <2>2. TypeInv' /\ Queued' = Queued
    BY <2>1 DEF IInv, TypeInv, Queued
  <2> QED
    BY <2>1, <2>2 DEF IInv, NothingIsLost, connected, Channel!channel
<1> QED
  BY <1>1, <1>2, <1>3, <1>4, <1>5, <1>6, <1>7, <1>8 DEF Next

\* IInv is an inductive invariant of the link.
THEOREM Inductive == Spec => []IInv
<1>1. IInv /\ [Next]_vars => IInv'
  BY StepFacts
<1> QED
  BY <1>1, InitInv, PTL DEF Spec

\* While its peer stays, every byte that send() accepted has been read, or is in the
\* socket or in the circular queue, once and in order, wherever the queue wraps and
\* however little of it each flush_tx() moves.
THEOREM NoByteIsLost == Spec => []NothingIsLost
<1>1. IInv => NothingIsLost
  BY DEF IInv
<1> QED
  BY <1>1, Inductive, PTL

\* TcpServerLink implements the channel that ILink promises: packets enter the stream
\* of a peer whole and in order, the peer reads a prefix of it, and nothing of one
\* peer's stream reaches the next.
THEOREM LinkImplementsChannel == Spec => ImplementsChannel
<1>1. Init => Channel!Init
  BY DEF Init, SessionsInit, Channel!Init
<1>2. IInv /\ [Next]_vars => [Channel!Next]_(Channel!channel)
  BY StepFacts
<1> QED
  BY <1>1, <1>2, Inductive, PTL DEF Spec, ImplementsChannel, Channel!Spec
=============================================================================
